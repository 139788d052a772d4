------------------------------ MODULE McpRuntime ------------------------------
(***************************************************************************)
(* The MCP server (mcp_server.py): tool calls that share one runtime, over *)
(* stdio or behind the gate of mcp_http_server.py.                         *)
(*                                                                         *)
(* A call is a coroutine of the event loop.  It runs alone from one await  *)
(* to the next, so that a step below ends where the code waits for a lock  *)
(* or for the gateway.  The runtime caches the principal, the scope        *)
(* context, two clients, the policy gate, capability tokens and evidence   *)
(* validations.  The gateway is external; during an outage it fails.       *)
(***************************************************************************)
EXTENDS McpTools, CapabilityTokenCache, RateLimiter, Sequences

CONSTANTS
  Calls,            \* coroutines of tool calls
  preload,          \* the task warm_principal of the lifespan
  Scenarios,        \* the settings a server may be started with, by name
  Intents, Payloads,
  SpendTools,       \* operations an agent may name, and operations of tools
  AllowedBy,        \* [Intents -> SUBSET SpendTools], the intents' allowed_tools
  Policies,         \* registries of the policy file's versions, a sequence
  rate_limit_per_minute, unauthenticated_rate_limit_per_minute

R(allowed) ==
  INSTANCE ToolRegistry WITH Tools <- SpendTools, Operations <- SpendTools, AllowedTools <- allowed

Tasks == Calls \union {preload}
Gates == [version : 1..Len(Policies), in_flight : Nat, last_allowed : SUBSET SpendTools]

ASSUME CallsAssumption == IsFiniteSet(Calls) /\ preload \notin Calls
ASSUME IntentsAssumption == IsFiniteSet(Intents) /\ AllowedBy \in [Intents -> SUBSET SpendTools]
ASSUME PoliciesAssumption ==
  /\ Len(Policies) \in Nat \ {0} /\ DOMAIN Policies = 1..Len(Policies)
  /\ \A i \in DOMAIN Policies : Policies[i] \in R(SpendTools)!Registries
ASSUME ScenariosAssumption == \A s \in DOMAIN Scenarios : Scenarios[s].outage \subseteq BOOLEAN
ASSUME LimitsAssumption ==
  rate_limit_per_minute \in Nat \ {0} /\ unauthenticated_rate_limit_per_minute \in Nat \ {0}
ASSUME NoneAssumption == None \notin Tasks \union Gates \union Nat \union {"explicit"}

Lockable == {"principal", "scope", "signal", "fraud"}

VARIABLES
  server,           \* names PaybondMCPSettings and the account behind the key
  outage,           \* whether the gateway may fail
  principal,        \* whether _principal is cached
  scope_context,    \* _scope_context
  lock,             \* holder of each asyncio.Lock
  clients,          \* of _signal and _fraud, the ones that exist
  gate,             \* _opened_policy_gate
  reloading,        \* the version a reload is about to apply, or None
  tokens,           \* _capability_token_cache
  passes,           \* _evidence_gate._passes
  limiters,         \* of the HTTP gate: unauth and auth
  admitted,         \* per limiter and key, when it let a request pass: history
  now,
  pc, call,         \* of each task: where it waits, and its input
  wire,             \* the route of the request it has in flight
  started           \* calls so far

cacheVars == <<principal, scope_context, clients>>
gateVars == <<gate, reloading>>
storeVars == <<tokens, passes>>
httpVars == <<limiters, admitted>>
envVars == <<server, outage, now>>
vars == <<envVars, cacheVars, lock, gateVars, storeVars, httpVars, pc, call, wire, started>>

(* The settings' horizon bounds the clock, their calls bound the calls.    *)
settings == Scenarios[server]

ScopeContext == [restricted : BOOLEAN, scopes : SUBSET (UNION {Scenarios[s].scopes : s \in DOMAIN Scenarios}), unresolved : BOOLEAN]
Pass == Payloads \X Payloads

(* The limiters of the HTTP gate, and the keys they count by.              *)
Limiters == {"unauth", "auth"}
Key == "key"
Keys(l) == IF l = "auth" THEN {Key} ELSE UNION {Scenarios[s].sources : s \in DOMAIN Scenarios}
Limit(l) ==
  IF l = "auth" THEN rate_limit_per_minute ELSE unauthenticated_rate_limit_per_minute

Init ==
  /\ server \in DOMAIN Scenarios
  /\ outage \in settings.outage
  /\ principal = FALSE
  /\ scope_context = None
  /\ lock = [l \in Lockable |-> None]
  /\ clients = {}
  /\ gate = None
  /\ reloading = None
  /\ tokens = NoEntries
  /\ passes = {}
  /\ limiters = [l \in Limiters |-> NewLimiter]
  /\ admitted = [l \in Limiters |-> [k \in Keys(l) |-> <<>>]]
  /\ now = 0
  /\ pc = [t \in Tasks |-> IF t = preload THEN "tenant" ELSE "idle"]
  /\ call = [t \in Tasks |-> None]
  /\ wire = [t \in Tasks |-> None]
  /\ started = 0

Catalog == [n \in {t.name : t \in AllTools} |-> CHOOSE t \in AllTools : t.name = n]
tool(c) == Catalog[call[c].tool]

Goto(t, step) == pc' = [pc EXCEPT ![t] = step]
Ask(t, route) == wire' = [wire EXCEPT ![t] = route]
Holds(t, l) == lock[l] = t
Released(t, held) == [l \in Lockable |-> IF held[l] = t THEN None ELSE held[l]]

(***************************************************************************)
(* PaybondMcpHttpApp.__call__.  The health check and requests to other     *)
(* paths change nothing.                                                   *)
(***************************************************************************)
Limited(l, key) ==
  /\ limiters' = [limiters EXCEPT ![l] = allow(@, key, Limit(l), now)]
  /\ admitted' = IF allows(limiters[l], key, Limit(l), now)
                 THEN [admitted EXCEPT ![l][key] = Append(@, now)] ELSE admitted

(* A request without the configured bearer is refused, and counted by its  *)
(* source.  One with an origin that is not allowed gets no further.        *)
HttpRefuse == \E ip \in settings.sources :
  /\ Limited("unauth", ip)
  /\ UNCHANGED <<envVars, cacheVars, lock, gateVars, storeVars, pc, call, wire, started>>

(* With the bearer it passes the other limiter (else 429), and its body is *)
(* read before the MCP application sees it.                                *)
HttpAccept(c) ==
  /\ pc[c] = "idle" /\ settings.transport = "http" /\ started < settings.calls
  /\ settings.offers[c] # {}
  /\ Limited("auth", Key)
  /\ IF allows(limiters["auth"], Key, Limit("auth"), now)
     THEN Goto(c, "reading") /\ started' = started + 1
     ELSE UNCHANGED <<pc, started>>
  /\ UNCHANGED <<envVars, cacheVars, lock, gateVars, storeVars, call, wire>>

(* _read_capped_body: a body over the cap, or a client that goes away,     *)
(* ends the request; GET and DELETE have no tool call in them.             *)
HttpBody(c) ==
  /\ pc[c] = "reading"
  /\ \E step \in {"idle", "admitted"} : Goto(c, step)
  /\ UNCHANGED <<envVars, cacheVars, lock, gateVars, storeVars, httpVars, call, wire, started>>

(***************************************************************************)
(* wrapped() of build_mcp_server: scope, policy gate, handler, response.   *)
(***************************************************************************)
Registered ==
  {t \in AllTools : tool_allowed_by_policy(t, settings.policy, settings.allowlist)}

(* The arguments that matter to what a tool does.                          *)
Inputs(t) ==
  CASE t.does = "spend" ->
         [tool : {t.name}, intent : Intents, token : {None, "explicit"},
          operation : SpendTools, cents : {None, 7}, at : {None}, verdict : {None}]
    [] t.does = "mint" -> [tool : {t.name}, intent : Intents]
    [] t.does = "validate" -> [tool : {t.name}, vendor : Payloads, canonical : Payloads]
    [] t.does = "submit" ->
         [tool : {t.name}, preset : BOOLEAN, vendor : Payloads, canonical : Payloads]
    [] OTHER -> [tool : {t.name}]

(* The gate's key of a submission: sandbox evidence has one payload.       *)
gate_key(in) ==
  IF in.tool = paybond_submit_sandbox_guardrail_evidence.name THEN <<in.canonical, in.canonical>>
  ELSE <<in.vendor, in.canonical>>

Start(c) ==
  /\ \/ pc[c] = "idle" /\ settings.transport = "stdio" /\ started < settings.calls
        /\ started' = started + 1
     \/ pc[c] = "admitted" /\ UNCHANGED started
  /\ \E t \in Registered \intersect settings.offers[c] : \E in \in Inputs(t) :
       call' = [call EXCEPT ![c] = in]
  /\ Goto(c, "scope")
  /\ UNCHANGED <<envVars, cacheVars, lock, gateVars, storeVars, httpVars, wire>>

(* Mutant: only an unreadable grant denies.                                *)
DeniedUnresolvedOnly(t, context) == context.restricted /\ context.unresolved

(* scope_denial_for, once there is a context.                              *)
denied(t, context) ==
  context.restricted /\ (context.unresolved \/ ~tool_allowed_by_scope(t, context.scopes))

(* End of a call that begin_policy_tool_call has not seen.                 *)
Refused(c) ==
  /\ Goto(c, "idle")
  /\ call' = [call EXCEPT ![c] = None]

AfterScope(c, context) ==
  IF denied(tool(c), context) THEN Refused(c) ELSE Goto(c, "begin") /\ UNCHANGED call

(* scope_context() with the context at hand.                               *)
ScopeCached(c) ==
  /\ pc[c] = "scope" /\ lock["scope"] = None /\ scope_context # None
  /\ AfterScope(c, scope_context)
  /\ UNCHANGED <<envVars, cacheVars, lock, gateVars, storeVars, httpVars, wire, started>>

ScopeTake(c) ==
  /\ pc[c] = "scope" /\ lock["scope"] = None /\ scope_context = None
  /\ lock' = [lock EXCEPT !["scope"] = c]
  /\ Goto(c, "scope_principal")
  /\ UNCHANGED <<envVars, cacheVars, gateVars, storeVars, httpVars, call, wire, started>>

(* principal(): the lock, and the request if there is nothing cached.      *)
WantsPrincipal(t) == pc[t] \in {"scope_principal", "tenant"}

PrincipalFetch(t) ==
  /\ WantsPrincipal(t) /\ lock["principal"] = None /\ ~principal
  /\ lock' = [lock EXCEPT !["principal"] = t]
  /\ Ask(t, paybond_get_principal.route)
  /\ Goto(t, IF pc[t] = "tenant" THEN "tenant_fetch" ELSE "scope_fetch")
  /\ UNCHANGED <<envVars, cacheVars, gateVars, storeVars, httpVars, call, started>>

(* The context made from the principal, or from its failure.               *)
scope_context_of(ok) ==
  IF ok THEN [restricted |-> settings.key = "restricted" \/ settings.key_kind = "restricted",
              scopes |-> settings.scopes, unresolved |-> FALSE]
  ELSE [restricted |-> settings.key = "restricted", scopes |-> {},
        unresolved |-> settings.key = "restricted"]

(* Mutant: the lock is not released when the principal cannot be read.     *)
ScopeResolvedHolding(c, ok) ==
  /\ scope_context' = scope_context_of(ok)
  /\ AfterScope(c, scope_context_of(ok))
  /\ lock' = IF ok THEN Released(c, lock) ELSE lock
  /\ UNCHANGED clients

ScopeResolved(c, ok) ==
  /\ scope_context' = scope_context_of(ok)
  /\ AfterScope(c, scope_context_of(ok))
  /\ lock' = Released(c, lock)
  /\ UNCHANGED clients

ScopePrincipal(c) ==
  /\ \/ /\ pc[c] = "scope_principal" /\ lock["principal"] = None /\ principal
        /\ ScopeResolved(c, TRUE)
        /\ UNCHANGED <<principal, wire>>
     \/ /\ pc[c] = "scope_fetch"
        /\ \E ok \in {TRUE} \union {~outage} :
             ScopeResolved(c, ok) /\ principal' = ok
        /\ Ask(c, None)
  /\ UNCHANGED <<envVars, gateVars, storeVars, httpVars, started>>

(* begin_policy_tool_call opens the gate on first use; a file that does    *)
(* not load fails the call.                                                *)
NewGate == [version |-> 1, in_flight |-> 0, last_allowed |-> {}]

Begin(c) ==
  /\ pc[c] = "begin"
  /\ \/ /\ ~settings.gated
        /\ Goto(c, "body")
        /\ UNCHANGED <<gate, call>>
     \/ /\ settings.gated
        /\ gate' = [(IF gate = None THEN NewGate ELSE gate) EXCEPT !.in_flight = @ + 1]
        /\ Goto(c, "body")
        /\ UNCHANGED call
     \/ /\ settings.gated /\ gate = None
        /\ Refused(c)
        /\ UNCHANGED gate
  /\ UNCHANGED <<envVars, cacheVars, lock, reloading, storeVars, httpVars, wire, started>>

(* The finally of wrapped(): end_policy_tool_call.                         *)
max0(n) == IF n < 0 THEN 0 ELSE n
end_tool_call == IF gate = None THEN None ELSE [gate EXCEPT !.in_flight = max0(@ - 1)]

End(c) ==
  /\ gate' = end_tool_call
  /\ Goto(c, "idle")
  /\ call' = [call EXCEPT ![c] = None]
  /\ Ask(c, None)

(***************************************************************************)
(* The handlers.                                                           *)
(***************************************************************************)
AfterTenant(c) == IF tool(c).does = "spend" /\ settings.gated THEN "gate" ELSE "ask"

(* resolve_capability_token.                                               *)
ResolveToken(c) ==
  /\ pc[c] = "body" /\ tool(c).does = "spend"
  /\ \/ /\ call[c].token = "explicit"
        /\ Goto(c, "tenant")
        /\ UNCHANGED <<tokens, call, gate, wire>>
     \/ /\ call[c].token = None
        /\ tokens' = resolve(tokens, call[c].intent, now)
        /\ \/ \E e \in cached(tokens, call[c].intent, now) :
                /\ call' = [call EXCEPT ![c].token = e.token, ![c].at = e.stored_at]
                /\ Goto(c, "tenant")
                /\ UNCHANGED <<gate, wire>>
           \/ /\ cached(tokens, call[c].intent, now) = {}
              /\ End(c)                                     \* ValueError
  /\ UNCHANGED <<envVars, cacheVars, lock, reloading, passes, httpVars, started>>

(* validate_and_record, require_pass, and tools that ask nobody.           *)
Local(c) ==
  /\ pc[c] = "body" /\ tool(c).does \in {"local", "validate"}
  /\ \/ UNCHANGED passes
     \/ /\ tool(c).does = "validate"
        /\ passes' = passes \union {<<call[c].vendor, call[c].canonical>>}
  /\ End(c)
  /\ UNCHANGED <<envVars, cacheVars, lock, reloading, tokens, httpVars, started>>

(* Mutant: a pass counts for any vendor payload.                           *)
RequirePassOfCanonical(in) ==
  settings.strict /\ in.preset => \E p \in passes : p[2] = gate_key(in)[2]

require_pass(in) == settings.strict /\ in.preset => gate_key(in) \in passes

Submit(c) ==
  /\ pc[c] = "body" /\ tool(c).does = "submit"
  /\ \/ require_pass(call[c]) /\ Goto(c, "tenant") /\ UNCHANGED <<gate, call, wire>>
     \/ ~require_pass(call[c]) /\ End(c)
  /\ UNCHANGED <<envVars, cacheVars, lock, reloading, storeVars, httpVars, started>>

(* signal() and fraud() build their client under a lock of its own.        *)
Client(c) ==
  /\ pc[c] = "body" /\ tool(c).does \in {"ask", "mint", "principal"}
  /\ LET k == client_of(tool(c)) IN
     \/ /\ tool(c) \in Untenanted
        /\ Goto(c, "ask") /\ Ask(c, tool(c).route)
        /\ UNCHANGED lock
     \/ /\ tool(c) \notin Untenanted /\ k = None
        /\ Goto(c, "tenant")
        /\ UNCHANGED <<lock, wire>>
     \/ /\ k # None /\ lock[k] = None /\ k \in clients
        /\ Goto(c, "ask") /\ Ask(c, tool(c).route)
        /\ UNCHANGED lock
     \/ /\ k # None /\ lock[k] = None /\ k \notin clients
        /\ lock' = [lock EXCEPT ![k] = c]
        /\ Goto(c, "tenant")
        /\ UNCHANGED wire
  /\ UNCHANGED <<envVars, cacheVars, gateVars, storeVars, httpVars, call, started>>

(* tenant_id() has returned: the client exists, and the request is sent.   *)
Tenanted(c) ==
  /\ clients' = clients \union {k \in {"signal", "fraud"} : Holds(c, k)}
  /\ lock' = Released(c, lock)
  /\ \/ /\ tool(c).does = "principal"
        /\ End(c)
     \/ /\ tool(c).does # "principal"
        /\ Goto(c, AfterTenant(c))
        /\ Ask(c, IF AfterTenant(c) = "gate" THEN paybond_get_intent.route
                  ELSE tool(c).route)
        /\ UNCHANGED <<gate, call>>

TenantCached(c) ==
  /\ pc[c] = "tenant" /\ lock["principal"] = None /\ principal
  /\ Tenanted(c)
  /\ UNCHANGED <<envVars, principal, scope_context, reloading, storeVars, httpVars, started>>

TenantFetched(c) ==
  /\ pc[c] = "tenant_fetch"
  /\ \/ principal' = TRUE /\ Tenanted(c)
     \/ /\ outage
        /\ lock' = Released(c, lock)
        /\ End(c)
        /\ UNCHANGED <<principal, clients>>
  /\ UNCHANGED <<envVars, scope_context, reloading, storeVars, httpVars, started>>

(* The preload task: its failure is logged.                                *)
Preload ==
  /\ \/ pc[preload] = "tenant" /\ lock["principal"] = None /\ principal /\ UNCHANGED principal
     \/ pc[preload] = "tenant_fetch" /\ principal' = TRUE
     \/ pc[preload] = "tenant_fetch" /\ outage /\ UNCHANGED principal
  /\ lock' = Released(preload, lock)
  /\ Goto(preload, "idle")
  /\ Ask(preload, None)
  /\ UNCHANGED <<envVars, scope_context, clients, gateVars, storeVars, httpVars, call, started>>

(* assert_spend_gate, on the policy of this moment; agents name the        *)
(* operation as the tool.                                                  *)
assert_spend_gate(reg, allowed, in) ==
  LET kind == R(allowed)!resolve_tool(reg, in.operation) IN
  CASE kind = "passthrough" -> [operation |-> in.operation, cents |-> 0]
    [] kind = "side_effecting" /\ in.operation \in allowed ->
         [operation |-> R(allowed)!resolve_operation(reg, in.operation),
          cents |-> IF in.cents # None THEN in.cents
                    ELSE IF R(allowed)!resolve_spend_cents(reg, in.operation) = None THEN 0
                    ELSE R(allowed)!resolve_spend_cents(reg, in.operation)]
    [] OTHER -> None

(* Mutant: the digest stated is the one of the policy the gate opened with. *)
SpendGateOpenedDigest(c) ==
  /\ pc[c] = "gate"
  /\ LET v == assert_spend_gate(Policies[gate.version], AllowedBy[call[c].intent], call[c]) IN
     /\ v # None
     /\ gate' = [gate EXCEPT !.last_allowed = AllowedBy[call[c].intent]]
     /\ call' = [call EXCEPT ![c].verdict = [version |-> 1, result |-> v]]
     /\ Goto(c, "ask")
     /\ Ask(c, tool(c).route)
  /\ UNCHANGED <<envVars, cacheVars, lock, reloading, storeVars, httpVars, started>>

SpendGate(c) ==
  /\ pc[c] = "gate"
  /\ \/ LET v == assert_spend_gate(Policies[gate.version], AllowedBy[call[c].intent], call[c])
            g == [gate EXCEPT !.last_allowed = AllowedBy[call[c].intent]] IN
        \/ /\ v # None
           /\ gate' = g
           /\ call' = [call EXCEPT ![c].verdict = [version |-> gate.version, result |-> v]]
           /\ Goto(c, "ask")
           /\ Ask(c, tool(c).route)
        \/ /\ v = None
           /\ gate' = [g EXCEPT !.in_flight = max0(@ - 1)]
           /\ Goto(c, "idle")
           /\ call' = [call EXCEPT ![c] = None]
           /\ Ask(c, None)
     \/ outage /\ End(c)                                    \* get_intent failed
  /\ UNCHANGED <<envVars, cacheVars, lock, reloading, storeVars, httpVars, started>>

(* The tool's own request is answered; a response with a token is kept by  *)
(* prepare_tool_response.  Then the call ends, whatever the answer was.    *)
Answered(c) ==
  /\ pc[c] = "ask"
  /\ \/ UNCHANGED tokens
     \/ /\ tool(c).does = "mint"
        /\ tokens' = store(tokens, call[c].intent, "minted", now)
  /\ End(c)
  /\ UNCHANGED <<envVars, cacheVars, lock, reloading, passes, httpVars, started>>

(* The host cancels a call, at any await: locks are released on the way    *)
(* out, and the finally runs if the call had begun.                        *)
Begun(c) == pc[c] \in {"body", "tenant", "tenant_fetch", "gate", "ask"}
(* Mutant: a cancelled call does not run end_policy_tool_call.             *)
CancelWithoutFinally(c) ==
  /\ Begun(c)
  /\ lock' = Released(c, lock)
  /\ Refused(c) /\ Ask(c, None)
  /\ UNCHANGED <<envVars, cacheVars, gateVars, storeVars, httpVars, started>>

Cancel(c) ==
  /\ pc[c] \in {"scope", "scope_principal", "scope_fetch", "body", "tenant", "tenant_fetch",
                "gate", "ask"}
  /\ lock' = Released(c, lock)
  /\ IF Begun(c) THEN End(c) ELSE Refused(c) /\ Ask(c, None) /\ UNCHANGED gate
  /\ UNCHANGED <<envVars, cacheVars, reloading, storeVars, httpVars, started>>

(***************************************************************************)
(* reload_policy of the gate's controller: it starts when no call is in    *)
(* flight, and awaits the gateway's validation before it swaps the         *)
(* snapshot.  (PolicyReload has it in detail.)                             *)
(***************************************************************************)
ReloadBegin ==
  /\ gate # None /\ gate.in_flight = 0 /\ reloading = None
  /\ gate.version < Len(Policies)
  /\ reloading' = gate.version + 1
  /\ UNCHANGED <<envVars, cacheVars, lock, gate, storeVars, httpVars, pc, call, wire, started>>

ReloadEnd ==
  /\ reloading # None
  /\ \/ gate' = [gate EXCEPT !.version = reloading]
     \/ UNCHANGED gate
  /\ reloading' = None
  /\ UNCHANGED <<envVars, cacheVars, lock, storeVars, httpVars, pc, call, wire, started>>

Recover ==
  /\ outage
  /\ outage' = FALSE
  /\ UNCHANGED <<server, now, cacheVars, lock, gateVars, storeVars, httpVars, pc, call, wire, started>>

Tick ==
  /\ now < settings.horizon
  /\ now' = now + 1
  /\ UNCHANGED <<server, outage, cacheVars, lock, gateVars, storeVars, httpVars, pc, call, wire, started>>

CallStep(c) ==
  \/ HttpBody(c)
  \/ pc[c] = "admitted" /\ Start(c)
  \/ ScopeCached(c) \/ ScopeTake(c) \/ PrincipalFetch(c) \/ ScopePrincipal(c)
  \/ Begin(c) \/ ResolveToken(c) \/ Local(c) \/ Submit(c) \/ Client(c)
  \/ TenantCached(c) \/ TenantFetched(c) \/ SpendGate(c) \/ Answered(c)

Next ==
  \/ \E c \in Calls : CallStep(c) \/ HttpAccept(c) \/ (pc[c] = "idle" /\ Start(c)) \/ Cancel(c)
  \/ PrincipalFetch(preload) \/ Preload
  \/ HttpRefuse
  \/ ReloadBegin \/ ReloadEnd \/ Recover \/ Tick

(* The event loop runs what is ready, and httpx answers or times out.      *)
Fairness ==
  /\ \A c \in Calls : WF_vars(CallStep(c))
  /\ WF_vars(PrincipalFetch(preload) \/ Preload)

Spec == Init /\ [][Next]_vars /\ Fairness

(***************************************************************************)
(* Properties.                                                             *)
(***************************************************************************)
Steps ==
  {"idle", "reading", "admitted", "scope", "scope_principal", "scope_fetch", "begin", "body",
   "tenant", "tenant_fetch", "gate", "ask"}

McpTypeOK ==
  /\ principal \in BOOLEAN
  /\ scope_context \in ScopeContext \union {None}
  /\ lock \in [Lockable -> Tasks \union {None}]
  /\ clients \subseteq {"signal", "fraud"}
  /\ gate # None => gate.version \in 1..Len(Policies) /\ gate.in_flight \in 0..Cardinality(Calls)
  /\ DOMAIN tokens \subseteq Intents /\ Cardinality(DOMAIN tokens) <= max_entries
  /\ passes \subseteq Pass
  /\ pc \in [Tasks -> Steps]

(* in_flight_count, which a policy reload waits on, is the number of calls *)
(* between begin_policy_tool_call and the finally, whichever way calls     *)
(* were refused, failed or were cancelled.                                 *)
InFlightExact ==
  gate # None => gate.in_flight = Cardinality({c \in Calls : Begun(c)})

(* A restricted key sends only requests that the gateway's route table     *)
(* grants it: a tool that passed the scope check is not refused on a       *)
(* request it makes on the way (principal, intent read).                   *)
RequestsWithinGrant == \A t \in Tasks :
  settings.key = "restricted" /\ wire[t] # None
    => route_granted(settings.scopes, wire[t])

(* Under the readonly policy, and for a restricted key with read scopes    *)
(* only, no request is sent that changes state at the gateway.             *)
ReadersDoNotMutate == \A c \in Calls :
  /\ pc[c] = "ask" /\ Mutates(tool(c))
  => /\ settings.policy # "readonly"
     /\ settings.key = "restricted" => \E s \in settings.scopes : s[2] = "write"

(* In strict mode, evidence that names a preset is sent only after a       *)
(* validation of the same payloads had passed.                             *)
SubmittedWasValidated == \A c \in Calls :
  /\ settings.strict /\ pc[c] \in {"tenant", "tenant_fetch", "ask"}
  /\ tool(c).does = "submit" /\ call[c].preset
  => gate_key(call[c]) \in passes

(* A token that a call takes from the cache was stored for its intent no   *)
(* longer than the time to live ago, whatever was stored, used and evicted *)
(* before.                                                                 *)
TokenFresh == [][\A c \in Calls :
  /\ pc[c] = "body" /\ pc'[c] = "tenant"
  /\ tool(c).does = "spend" /\ call[c].token = None
  => now - call'[c].at <= ttl_sec]_vars

(* Operation, amount and policy digest of an authorization come from one   *)
(* policy, though the policy may be reloaded while the call waits for the  *)
(* intent, before that, or while the gateway verifies.                     *)
VerdictOfOnePolicy == \A c \in Calls :
  /\ pc[c] = "ask" /\ tool(c).does = "spend" /\ settings.gated
  => call[c].verdict.result =
       assert_spend_gate(Policies[call[c].verdict.version], AllowedBy[call[c].intent], call[c])

(* Every call ends, though calls wait for each other's locks, the gateway  *)
(* fails and hosts cancel.                                                 *)
CallsEnd == \A c \in Calls : pc[c] # "idle" ~> pc[c] = "idle"

(* The fixed windows let at most twice the limit pass in any period of one *)
(* window, wherever it begins: of the requests of one key that passed, no  *)
(* two that are 2 * limit apart in order lie within a window.              *)
RateBound == \A l \in Limiters : \A k \in Keys(l) :
  \A i, j \in DOMAIN admitted[l][k] :
    j >= i + 2 * Limit(l) => admitted[l][k][j] >= admitted[l][k][i] + window_sec

-----------------------------------------------------------------------------
(***************************************************************************)
(* The inductive invariant behind the safety properties other than         *)
(* RateBound, which has its own.                                           *)
(***************************************************************************)
CachedTokens == [token : {"minted"}, stored_at : Nat, idle : Nat]

StateInv ==
  /\ server \in DOMAIN Scenarios /\ outage \in BOOLEAN /\ now \in Nat
  /\ DOMAIN call = Tasks /\ DOMAIN wire = Tasks
  /\ gate \in Gates \union {None}
  /\ reloading \in 1..Len(Policies) \union {None}
  /\ reloading # None => gate # None
  /\ tokens \in [DOMAIN tokens -> CachedTokens]
  /\ \A i, j \in DOMAIN tokens : tokens[i].idle = tokens[j].idle => i = j

(* No gate, no call that end_policy_tool_call would count down.            *)
GateInv ==
  /\ InFlightExact
  /\ settings.gated /\ gate = None => \A c \in Calls : ~Begun(c)
  /\ gate # None => settings.gated
  /\ \A c \in Calls : pc[c] = "gate" => tool(c).does = "spend" /\ settings.gated

(* What a call was given, and what has been resolved for it since.         *)
Fits(in, t) ==
  /\ in.tool = t.name
  /\ t.does \in {"spend", "mint"} => in.intent \in Intents
  /\ t.does = "validate" => in.vendor \in Payloads /\ in.canonical \in Payloads
  /\ t.does = "spend" =>
       in = [tool |-> in.tool, intent |-> in.intent, token |-> in.token,
             operation |-> in.operation, cents |-> in.cents, at |-> in.at,
             verdict |-> in.verdict]

Scoped(c) == pc[c] = "begin" \/ Begun(c)

CallInv == \A c \in Calls :
  /\ pc[c] \in Steps \ {"idle", "reading", "admitted"} =>
       \E t \in Registered : Fits(call[c], t)
  /\ Scoped(c) /\ settings.key = "restricted" =>
       tool_allowed_by_scope(tool(c), settings.scopes)

(* For a restricted key the context is restricted, and its own.            *)
Own(context) ==
  settings.key = "restricted" =>
    context.restricted /\ (context.unresolved \/ context.scopes = settings.scopes)

ScopeInv == scope_context # None => Own(scope_context)

(* The routes of a request on the way, and of the tool's own.              *)
WireInv == \A t \in Tasks :
  \/ wire[t] \in {None, paybond_get_principal.route, paybond_get_intent.route}
  \/ t \in Calls /\ pc[t] = "ask" /\ wire[t] = tool(t).route

IInv ==
  /\ McpTypeOK /\ StateInv /\ GateInv /\ CallInv /\ ScopeInv /\ WireInv
  /\ SubmittedWasValidated /\ VerdictOfOnePolicy

(***************************************************************************)
(* The limiters.  A bucket counts the last requests of its key that        *)
(* passed; of those before it, at most the limit are less than a window    *)
(* older than its start, and a key without a bucket has had no more in the *)
(* window that ends now.                                                   *)
(***************************************************************************)
Sparse(times, n, limit, t) == n > limit => times[n - limit] + window_sec <= t

BucketInv(times, b, limit) ==
  /\ b.count \in 1..limit /\ b.count <= Len(times)
  /\ b.start \in 0..now
  /\ \A i \in 1..(Len(times) - b.count) : times[i] <= b.start
  /\ Sparse(times, Len(times) - b.count, limit, b.start)

KeyInv(times, buckets, k, limit) ==
  /\ times \in Seq(0..now)
  /\ \A i, j \in 1..Len(times) : i <= j => times[i] <= times[j]
  /\ \A i, j \in 1..Len(times) : j >= i + 2 * limit => times[j] >= times[i] + window_sec
  /\ IF k \in DOMAIN buckets THEN BucketInv(times, buckets[k], limit)
     ELSE Sparse(times, Len(times), limit, now)

RateInv ==
  /\ now \in Nat /\ server \in DOMAIN Scenarios
  /\ DOMAIN limiters = Limiters /\ DOMAIN admitted = Limiters
  /\ \A l \in Limiters : DOMAIN admitted[l] = Keys(l)
  /\ \A l \in Limiters : \A k \in Keys(l) :
       KeyInv(admitted[l][k], limiters[l].buckets, k, Limit(l))
=============================================================================
