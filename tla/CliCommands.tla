---------------------------- MODULE CliCommands ----------------------------
(***************************************************************************)
(* The commands of `paybond` that ask the Gateway on their own behalf, and *)
(* those that set up a project: cli/commands.py, cli/ux.py, login.py and   *)
(* the generators they call.  Each handler is the record of the commands   *)
(* it serves; a command that takes two shapes (with or without a flag that *)
(* changes its steps) appears once for each.                               *)
(***************************************************************************)
EXTENDS CliSteps

handle_help_command == [help |-> <<>>]

handle_examples_command == [examples |-> <<>>]

handle_completion_command == [completion |-> <<Args>>]

-----------------------------------------------------------------------------
(* Device login. *)

(* An env file that already holds a key is refused unless --force; to any  *)
(* other the key is added.                                                 *)
assert_can_write_env_file == <<GuardEntry("env_file")>>

(* Appends the env file's name to .gitignore; "new" says it is listed. *)
ensure_git_ignored == <<Write("gitignore")>>

(* Sent once, without a key; an error text with "denied" or "expired": 2.  *)
start_device_authorization == CallExit("device_code", "write", {1, 2})

(* The approved poll answers with the minted key, once. *)
poll_device_token == <<Poll("device_token")>>

(* Looks again for a key before it replaces the file. *)
write_env_file == assert_can_write_env_file \o <<Save("env_file")>>

run_login ==
  assert_can_write_env_file \o ensure_git_ignored \o start_device_authorization
    \o poll_device_token \o write_env_file

handle_login == [login |-> <<Args>> \o run_login]

-----------------------------------------------------------------------------
(* Project scaffolds. *)

(* Two of the template's children stand for all of them. *)
copy_template_to_directory ==
  <<Args>> \o Create("readme") \o Create("policy")

(* What is not given on the command line is asked for. *)
_resolve_interactive_options == <<Args>>

(* Merged into a package.json that is there, also without --force, unless  *)
(* that one has another scripts.smoke or is no JSON.                       *)
_upsert_package_json_smoke_script == <<GuardEntry("package_json"), Write("package_json")>>

(* The prompt asks about the policy file alone; a yes is force for all.    *)
run_project_init(language) ==
  _resolve_interactive_options \o <<Prompt("policy")>>
    \o Create("policy") \o Create("config_module") \o Create("instrument")
    \o Create("env_example")
    \o IF language = "typescript" THEN _upsert_package_json_smoke_script ELSE <<>>

handle_init_wizard ==
  [init |-> <<Argparse>> \o run_project_init("python"),
   init_typescript |-> <<Argparse>> \o run_project_init("typescript"),
   init_template |-> <<Argparse>> \o copy_template_to_directory]

(* parser.error leaves with 2 when the file exists. *)
run_init_scaffold == <<Argparse, Guard("scaffold", {2}), Write("scaffold")>>

handle_init_scaffold ==
  [init_guardrail |-> run_init_scaffold, init_agent_middleware |-> run_init_scaffold]

scaffold_completion_init == Create("completion")

handle_init_completion == [init_completion |-> <<Argparse>> \o scaffold_completion_init]

-----------------------------------------------------------------------------
(* The MCP server and its host configuration. *)

(* main runs it outside the event loop. *)
run_mcp_serve_command_sync == [mcp_serve |-> <<Check({2}), Serve>>]

handle_mcp_tools == [mcp_tools |-> <<>>]

handle_mcp_scopes_list == [mcp_scopes_list |-> <<>>]

(* Host, format, scope and tool policy; the kind of key in the env file. *)
plan_mcp_install == <<Args>>

(* The host's configuration file is replaced whatever it holds. *)
handle_mcp_install ==
  [mcp_install |-> plan_mcp_install \o <<Save("mcp_config")>>,
   mcp_install_print |-> plan_mcp_install]

(* What is wrong with the configuration is listed in the answer. *)
verify_mcp_install_plan == Try("verify", <<Args>>)

handle_mcp_verify_config ==
  [mcp_verify_config |-> <<Args, Load("mcp_config")>> \o verify_mcp_install_plan]

-----------------------------------------------------------------------------
(* Configuration file. *)

list_config_entries == <<Peek("config")>>

resolve_config_value == <<Peek("config")>>

set_config_value == <<Peek("config"), Write("config")>>

(* The file is written only when the key was there. *)
unset_config_value == [known |-> <<Peek("config"), Write("config")>>,
                       unknown |-> <<Peek("config")>>]

handle_config ==
  [config_list |-> list_config_entries,
   config_get |-> <<Args>> \o resolve_config_value \o <<Check({1})>>,
   config_set |-> <<Args>> \o set_config_value,
   config_unset |-> <<Args>> \o unset_config_value.known,
   config_unset_unknown |-> <<Args>> \o unset_config_value.unknown]

-----------------------------------------------------------------------------
handle_whoami == [whoami |-> Get("principal")]

(* Reports where credentials come from, and asks nobody. *)
build_support_diagnostics == <<Check({1})>>

handle_version == [version |-> <<Args>>,
                   version_verbose |-> <<Args>> \o build_support_diagnostics]

handle_diagnose == [diagnose |-> <<Args>> \o build_support_diagnostics]

-----------------------------------------------------------------------------
(* Keys, intents and spend. *)

resolve_restricted_key_scopes == <<Args>>

handle_keys ==
  [keys_list |-> <<Args>> \o Get("api_keys"),
   keys_create |-> <<Args>> \o resolve_restricted_key_scopes \o Post("api_keys"),
   keys_rotate |-> <<Args, Confirm>> \o Ask("rotate", "destroy"),
   keys_revoke |-> <<Args, Confirm>> \o Ask("revoke", "destroy")]

(* Flags, seeds and, once the session is open, the recognition key. *)
harbor_mutation(body, call) ==
  <<Args>> \o body \o Session \o <<Args>> \o Call(call, "write")

handle_intents_create == harbor_mutation(<<Body>>, "create_intent")

handle_intents_fund == harbor_mutation(<<Body>>, "fund_intent")

handle_intents_evidence == harbor_mutation(<<Body>>, "submit_evidence")

handle_intents_settlement_confirm == harbor_mutation(<<Body>>, "confirm_settlement")

handle_intents ==
  [intents_list |-> <<Args>> \o Get("intents"),
   intents_get |-> <<Args>> \o Get("intent"),
   intents_create |-> handle_intents_create,
   intents_fund |-> <<Args>> \o handle_intents_fund,
   intents_evidence |-> <<Args>> \o handle_intents_evidence,
   intents_settlement_confirm |-> <<Args>> \o handle_intents_settlement_confirm]

handle_guardrails ==
  [guardrails_bootstrap |-> <<Args>> \o Post("bootstrap"),
   guardrails_evidence |-> <<Args, Body>> \o Post("sandbox_evidence")]

(* A denial is an answer: the command succeeds with authorized = false. *)
handle_spend_authorize == [spend_authorize |-> <<Args>> \o Post("verify")]

parse_spend_preflight == <<Args>>

(* A POST that only reads. *)
handle_spend_budget_remaining ==
  [spend_budget_remaining |-> parse_spend_preflight \o Get("preflight")]

handle_spend_explain_policy ==
  [spend_explain_policy |-> parse_spend_preflight \o Get("preflight")]

-----------------------------------------------------------------------------
(* Protocol documents. *)

handle_signal ==
  [signal_portfolio |-> Get("portfolio"),
   signal_reputation |-> <<Args>> \o Get("reputation"),
   signal_fraud |-> <<Args>> \o Get("review_status")]

handle_receipts ==
  [receipts_get |-> <<Args>> \o Get("receipt"),
   receipts_verify |-> <<Args>> \o Get("verify_receipt"),
   receipts_verify_agent |-> <<Args>> \o Get("receipt") \o Get("verify_receipt")]

handle_mandates ==
  [mandates_verify |-> <<Body>> \o Get("verify_mandate"),
   mandates_import |-> <<Body>> \o Post("mandates")]

handle_a2a ==
  [a2a_card |-> Get("agent_card"), a2a_contracts |-> <<Args>> \o Get("task_contracts")]

(* Every request of these is awaited with asyncio.run. *)
handle_audit_exports ==
  [audit_exports_verify |-> <<Args, Check({1})>>,
   audit_exports_list |-> <<Args, AsyncioRun>>,
   audit_exports_create |-> <<Args, AsyncioRun>>,
   audit_exports_get |-> <<Args, AsyncioRun>>,
   audit_exports_delete |-> <<Args, Confirm, AsyncioRun>>]
=============================================================================
