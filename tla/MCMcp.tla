-------------------------------- MODULE MCMcp --------------------------------
(***************************************************************************)
(* Settings under which McpRuntime is model-checked.                       *)
(***************************************************************************)
EXTENDS McpRuntime, TLC

CONSTANTS
  c1, c2, i1, i2, p1, p2, book, pay, look,
  MaxTime   \* how far the clock goes behind the HTTP gate

(* Without a second call, every tool meets every setting; with one, the    *)
(* tools that share state do.                                              *)
Server(policy, key, key_kind, scopes, gated, strict, calls, first, second) ==
  [policy |-> policy, allowlist |-> {t.name : t \in AllTools},
   key |-> key, key_kind |-> key_kind, scopes |-> scopes, gated |-> gated, strict |-> strict,
   transport |-> "stdio", sources |-> {}, horizon |-> 0, outage |-> BOOLEAN, calls |-> calls,
   offers |-> (c1 :> first @@ c2 :> second)]

Grant ==
  [readonly |-> mcp_readonly, operator |-> mcp_spend_operator, sandbox |-> mcp_sandbox_agent,
   settlement |-> mcp_spend_operator \union WriteScopes({"mcp.settlement", "mcp.a2a"})]
PolicyNames == {"readonly", "spend-write", "allowlist"}

OneRestricted == [n \in {"one"} \X PolicyNames \X DOMAIN Grant |->
  Server(n[2], "restricted", "restricted", Grant[n[3]], FALSE, TRUE, 1, AllTools, {})]

OneStandard == [n \in {"standard"} \X PolicyNames \X BOOLEAN |->
  Server(n[2], "standard", "standard", {}, FALSE, n[3], 1, AllTools, {})]

Locking == [n \in {"locks"} \X {"restricted", "standard"} |->
  Server("spend-write", n[2], n[2], mcp_readonly, FALSE, TRUE, 2,
         {paybond_get_portfolio_summary, paybond_get_principal},
         {paybond_get_portfolio_summary, paybond_get_fraud_metrics})]

Spending == [n \in {"spend"} \X {"operator", "sandbox"} |->
  Server("spend-write", "restricted", "restricted", Grant[n[2]], TRUE, TRUE,
         IF n[2] = "operator" THEN 2 ELSE 1,
         {paybond_authorize_agent_spend}, {paybond_create_intent})]

Evidence == [n \in {<<"evidence">>} |->
  Server("spend-write", "standard", "standard", {}, FALSE, TRUE, 2,
         {paybond_validate_completion_evidence},
         {paybond_submit_evidence, paybond_submit_sandbox_guardrail_evidence})]

Tokens == [n \in {<<"tokens">>} |->
  [Server("spend-write", "standard", "standard", {}, FALSE, FALSE, 3,
          {paybond_verify_capability}, {paybond_bootstrap_sandbox_guardrail})
   EXCEPT !.horizon = 2, !.outage = {FALSE}]]

(* The two limiters are independent: one server gets the requests without  *)
(* the bearer, one the others.                                             *)
Http == [n \in {"http"} \X {0, 5} |->
  [Server("readonly", "standard", "standard", {}, FALSE, FALSE, n[2],
          {paybond_verify_agent_receipt_v1}, {})
   EXCEPT !.transport = "http", !.horizon = MaxTime, !.outage = {FALSE},
          !.sources = IF n[2] = 0 THEN {"ip1", "ip2"} ELSE {}]]

MCScenarios ==
  OneRestricted @@ OneStandard @@ Locking @@ Spending @@ Evidence @@ Tokens @@ Http

MCAllowedBy == (i1 :> {book, pay} @@ i2 :> {book})

Registry(default_deny, effecting) ==
  [default_deny |-> default_deny,
   side_effecting |-> [t \in SpendTools |-> IF t \in DOMAIN effecting THEN effecting[t] ELSE None]]
MCPolicies ==
  << Registry(TRUE, (book :> [operation |-> book, spend_cents |-> 5])),
     Registry(TRUE, (book :> [operation |-> book, spend_cents |-> None])
                      @@ (pay :> [operation |-> pay, spend_cents |-> 9])) >>
=============================================================================
