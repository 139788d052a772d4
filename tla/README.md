# Verification of paybond-kit

TLA+ models, TLC runs and TLAPS proofs for `paybond_kit`: the agent middleware,
the clients and funding flows, the MCP server, policy layers, signed documents
and the command line of the Python SDK that puts a spend authorization service (Harbor,
reached through the Gateway) between an agent framework and its paid tools.
Paths below are relative to `src/paybond_kit/` of the repository.

## The system

### Inventory

| Component | State it keeps | Operations | Talks to | Hard behaviour | What makes it correct |
|---|---|---|---|---|---|
| Tool interceptor (`agent/interceptor.py`) | authorization cache, in-flight count, reference to the run binding | `authorize_tool_call`, `wrap_execute` | registry, spend guard, tool handler, evidence API, trace sink | overlapping activations of one tool call, lost answers, raising sinks, cancellation, policy swapped at an await | a grant backs one run of one handler; what is reported to Harbor and stated in receipts is what happened; the in-flight count is exact |
| Authorization cache (`agent/authorization_cache.py`) | entries by tool call and operation, with a TTL | evict, take | interceptor | stale or mismatching entries | an entry is used at most once and only for the call it was given for |
| Spend guard (`spend_guard.py`) | capability token | verify, assert, complete | Harbor client | deny, approval required, completion failure | refusals never reach the handler |
| Tool registry (`agent/registry.py`) | side-effecting entries, `default_deny` | resolve tool, operation, spend; validate for bind | interceptor, reload | defaults | one operation per tool, denied means denied |
| Policy documents (`policy/schema.py`, `registry.py`, `validate.py`, `snapshot.py`) | none | load, validate, build the registry | reload, bind | names versus operations | a document that loads gives a normalised registry |
| Policy hot-reload (`policy/reload.py`, `policy/watcher.py`, `agent/run.py`) | current snapshot, `_reload_in_flight`, last error, two tasks | `reload_policy`, watch, poll, start, stop | file, Gateway, interceptor's in-flight count, listeners | state read before an await and used after it, overlapping reloads, stop during a reload, edits during a reload | no unrequested loosening, swaps only between tool calls, no edit missed, silence after stop |
| Agent run bind (`agent/run.py`) | binding, approval tokens | bind, attach | Harbor, guardrails | partial bind | bound to one intent |
| MCP server (`mcp_server.py`, `mcp_http_server.py`, `mcp_policy_reload.py`, `mcp_capability_token_cache.py`, `mcp_evidence_policy.py`) | principal, scope context, clients, policy gate with its in-flight count, LRU token cache, validated evidence, rate windows | one handler per tool, behind scope check and gate | reload, Gateway | calls that wait for each other's locks, cancellation, an outage cached, a reload between two awaits, capacity and TTL together | a key sends only what it is granted, readers change nothing, a verdict comes from one policy, every call ends |
| Gateway retries (`gateway_retry.py`), clients (`harbor.py`, `signal.py`, `fraud.py`, `protocol.py`, `a2a.py`, `guardrails.py`, `audit/exports.py`, `plaid.py`) | attempt counters | one method per endpoint | HTTP | lost answer, repeated or late POST, Cloudflare edge bodies, a misdirected answer | one effect per key, once-only requests not repeated, a method returns only for work done |
| Funding (`x402_funding.py`, `mpp_funding.py`, `plaid.py`) | credential, poll attempt | fund, sign, poll | clients, payer's signer | second challenge, lost answer to the paid request, pending past the limit | one credential per flow, returns only when funded, ends |
| Policy merge and loading (`policy/schema.py`, `merge.py`, `load.py`) | none | parse, merge, load | reload, bind | three places a section can come from | an overlay never loosens the org policy |
| Receipts, mandates, transparency log (`agent_receipt*.py`, `agent_mandate.py`, `protocol_receipt.py`, ...) | none | issue, link, export, verify | Gateway's signer | chain with holes, unbalanced Merkle trees, a document re-labelled | what is accepted was signed, and is where it says it is |
| Command line (`cli/*.py`, `login.py`, `init.py`, ...) | config, env, run, trace and scaffold files | about a hundred commands | everything above | a write performed but unanswered, files half written, interrupts, polling past the deadline | consent before destruction, exit codes that can be trusted, every command ends |
| Trace reporter (`agent/gateway_trace_reporter.py`) | pending tasks | register, report, flush | Gateway | tasks scheduled during a flush | never blocks execution |
| Framework adapters, commerce payloads, catalogues, offline gateway | mostly none | | | | see *Not modelled* |

A tool call goes: framework adapter -> `authorize_tool_call` (optional; caches
Harbor's answer) -> `wrap_execute` (uses the cached answer or verifies inline,
runs the handler, completes the reservation, submits evidence, drafts a
receipt). Meanwhile a reload may replace the registry and the snapshot of the
same binding. The MCP server offers the same service to hosts that speak MCP; the
command line drives both, and sets up the files they read.

### Modules

| Module | Models | Remarks |
|---|---|---|
| `ToolRegistry` | `agent/registry.py` | operators only |
| `SpendInterceptor` | interceptor, cache, guard, and Harbor as they see it | EXTENDS `ToolRegistry` |
| `SpendLifecycle` | what the middleware promises for one grant | abstract specification, refined by `SpendInterceptor` |
| `PolicyDocument` | policy document, registry built from it, validation, loosening, rebind | EXTENDS `ToolRegistry` |
| `PolicyReload` | `reload_policy`, the controller, start and stop | EXTENDS `PolicyDocument` |
| `GatewayEndpoints` | the methods of the HTTP clients | how each treats its request |
| `GatewayClient` | retry loop, idempotency, answer checks, the connection | EXTENDS `GatewayEndpoints` |
| `IntentFunding` | single calls, x402, MPP and ACH flows; Harbor's fund endpoint | EXTENDS `GatewayClient` |
| `McpTools` | the tools: annotations, scope, requests | operators only |
| `CapabilityTokenCache`, `RateLimiter` | the LRU token cache, the fixed-window limiter | operators only |
| `McpRuntime` | the MCP server's calls over one runtime | composes the three above and `ToolRegistry` |
| `PolicyMerge`, `PolicyLayers` | parsing and merge of policy layers; loading them | pure algorithm, and its use |
| `Receipts`, `TransparencyLog`, `SignedDocuments` | verifiers, Merkle proofs, documents that are damaged | `TransparencyLog` holds the RFC 6962 reference as recursive functions |
| `CliSteps`, `CliCommands`, `CliAgentCommands`, `CliRouter` | every command of `paybond` as a sequence of steps | operators only |
| `Cli` | one run of a command, whatever its steps | `Plan` is a constant: `CliRouter`'s `CommandPlan` in the run |
| `Optional` | `None` and "the last that is given" | |
| `MC*` | instances for TLC | |
| `SpendInterceptorProofs`, `PolicyReloadProofs`, `IntentFundingProofs`, `McpRuntimeProofs`, `CliProofs`, `PolicyLayersProofs`, `SignedDocumentsProofs` | theorems | each EXTENDS the module it is about |

**`SpendInterceptor`.** A member of `Calls` is one activation of
`authorize_tool_call` or `wrap_execute`; `pc` says at which await it is
suspended, `call`, `digest` and `grant` are its locals, `reply` is an answer on
its way to it. `authorized_calls` is `_authorized_calls`, `in_flight_count` is
`_in_flight_count`, `policy` stands for `binding.registry` and
`binding.policy_snapshot`, which `apply_policy_snapshot` replaces together.
Everything between two awaits is one action, since the interceptor lives on one
event loop. `issued` and `reported` are Harbor's records, `handler` says what
really happened to the tool; only properties read them. Requests go through
the retry loop without a key, so the network keeps copies: `sent` holds the
outcomes that were posted for a grant, and with lost or rejected answers or
cancellation any of them may reach Harbor at any later time (`LateComplete`),
a consumed also after the released that followed it. A verify that is repeated
may leave a reservation that nobody holds (`HarborAllowUnheard`). The verdicts
`authorize_tool_call` returns are one final state, `returned`. The `Faults` constant
enables: a raising trace sink, lost answers, error answers, an evidence payload
that cannot be built, and cancellation. Requests keep tool, call id, operation
and spend; the other arguments pass through the code untouched and are left
out. A clock of `MaxTime` ticks ages cache entries.

**`PolicyReload`.** A reload (of the watch task, of the poll task, or of a
caller) is suspended at `waiting` (tool calls in flight), `resolving` (effective
policy asked of the Gateway) or `validating` (remote validation);
`previous[x]` and `snapshot[x]` are the locals it carries across the last one.
Loading a file suspends nothing. Documents are names, equal to their digests;
`Effective` gives the Gateway's merge of an overlay with each org policy.
`start_policy_reload` in the code first stops a running controller; in the model
that is a stop followed by a start. `Overlap` says whether the application calls
`reload_policy` beside a started controller or another caller.

**`GatewayClient`, `IntentFunding`.** A method is a record of how it sends
(`retried`, `plain`, `once`), whether it changes state, whether it takes a key,
which statuses answer it and what the answer has to repeat; methods that agree
are one record. The service is external: it honours keys as `harbor.py`
documents, may fail before or after the work, and a timed-out copy may arrive
late. `ReturnedIsDone` holds for every status a method accepts but two, which
`ReturnedUndone` names: `fund_intent` hands on a 402 with its challenge, and
`record_fraud_review_event` the body of a 429 (`fraud.py:504`), although nothing
was recorded; no document says what a caller may conclude from the latter. A flow is the loop of `execute_fund_with_x402`, `execute_fund_with_mpp` or
Plaid's `fund_ach_intent`, calling the same client.

**`McpRuntime`.** A call is a coroutine; a step ends where the code awaits a lock
or the Gateway. The state is the runtime's: principal and scope context (and the
lock that guards each), clients, policy gate, token cache, validated evidence.
`Scenarios` fixes a server's settings and which tools its calls may name; every
tool meets every policy and scope preset alone, and the tools that share state
meet each other. A principal that cannot be read is kept, as in the code. The
token cache is a function of intents with the order of their last use.
`admitted` records when each HTTP limiter let a request pass, by source before
authentication and by the bearer's key after it; only `RateBound` reads it.

**`PolicyMerge`, `PolicyLayers`.** `merge_paybond_policies` as a function of base
and overlay, giving the merged document and the set of denials. The property
`OverlayNeverLoosens` compares the result with the org base section by section,
not with what the merge code checks.

**`Receipts`, `TransparencyLog`, `SignedDocuments`.** Digests and signatures are
symbolic: a digest is the thing digested, a signature names key and content. A
document is issued, damaged (field, stated digest, key, signature, missing or
reordered links, another tree head or path) and verified. Verification of an
inclusion proof is checked against trees of every size up to `MaxLeaves`.
`AcceptedIsHistory` orders the links of a run as they were issued, not by
`sequence_number`: a link that continues a receipt without continuity is number 2
again (`continuity_from_prior`), so a number can occur twice in a run.

**`Cli`.** A command is a sequence of steps: checks, requests, file operations,
each with the exit codes it can end with and the try block that absorbs its
failure. `CliCommands` and `CliAgentCommands` give the sequence for each handler;
a command with a flag that changes its steps appears once per shape. `Cli` runs
one: a request may be refused, lost before or after its effect; an in-place write
is torn between its two steps; Ctrl-C comes at any point. The SDK clients
(`call`) may have sent before, so any exit code may follow their effect; only
`gateway_request` (`ask`) is sent once.

What a command checks before it writes is of three kinds. `Guard` refuses a file
that exists; `GuardEntry` merges into a file, and refuses one that is `taken`
(it already has a `PAYBOND_API_KEY`, or another `scripts.smoke`) or cannot be
parsed; `Prompt` is the question of `paybond init`, which names the policy file
alone while a yes forces every file of the scaffold (`MayOverwrite`; the files a
user was asked about are `agreed`). `init` of a TypeScript project also merges a
script into an existing `package.json`, without `--force`
(`_upsert_package_json_smoke_script`). `ConsentFirst` covers what is checked; it
does not cover files that the code writes unasked: the policy of the dev loop,
the host's MCP configuration, `.gitignore`, the rest of `package.json`, the
output of an imported receipt, the variables a run adds to the env file, and the
command line's own configuration, run and trace files.

Five commands cannot succeed in the code
and are modelled so (`Fails`): `audit exports list`, `create`, `get` and `delete`
call `asyncio.run` inside the running loop (`cli/commands.py:1374`), and
`shopify checkout smoke` passes the sandbox smoke two flags it takes for
conflicting (`cli/shopify.py:345`).

## The runs

| Run | Result | What it shows |
|---|---|---|
| `spend_interceptor` | pass | three activations of the same tool call, two grants, two policies, all faults, late copies of completions: `TypeOK`, `InFlightExact`, `SingleHolder`, `ExecutionAuthorized`, `ReceiptTruthful`, and the refinement `LifecycleSpec` |
| `spend_liveness` | pass | two activations, five kinds of requests, a sandbox cap, evidence mapper faults, reloads that leave the shape of a cached call alone: `FinalizedAsItHappened`, `DigestPinned`, `EndedExecutionFinalized`, `EndedExecutionReturns` |
| `released_after_run` | violation of `ReleasedMeansAborted` | the answer to complete(consumed) is lost; "released" is reported although the tool ran |
| `cancelled_execution` | violation of `EndedExecutionFinalized` | a cancelled execution never finalizes its reservation |
| `policy_reload` | pass | watch, poll and a caller, six kinds of documents and three org policies: `TypeOK`, `NeverLoosens`, `NoSwapUndone`, `StopSilences`, `WatchedEditLoaded`, `GivenUpEditCaughtUp` |
| `reload_race_loosens` | violation of `NeverLoosens` | a caller reloads while the poll is at the Gateway; the poll applies a policy looser than the one now in force |
| `reload_in_flight` | violation of `SwapsOnlyWhenIdle` | a tool call begins while a poll reload is at the Gateway and is in flight at the swap |
| `gateway` | pass | every treatment of a request over a bad connection, and the three funding flows: `OneEffectPerKey`, `OnceNotRepeated`, `ReturnedIsDone`, `ReturnedFunded`, `SignedOnce`, `FlowEnds` |
| `mcp_runtime` | pass | every tool, policy and scope preset, pairs of calls that share state, outages, reloads, cancellation, and the HTTP limiters: `InFlightExact`, `RequestsWithinGrant`, `ReadersDoNotMutate`, `SubmittedWasValidated`, `VerdictOfOnePolicy`, `RateBound`, `TokenFresh`, `CallsEnd` |
| `documents` | pass | policy layers one concern at a time, and every kind of signed document with one or two faults: `OverlayNeverLoosens`, `AcceptedIsHistory`, `AcceptedIsGenuine` |
| `org_budget` | violation of `OrgBudgetKept` | an override that states only a currency hides a raised cap in the overlay's own intent section, and the merged policy has it |
| `command_line` | pass | every command from every state of its files: `ConsentFirst`, `ExitZeroDone`, `RefusedMeansUntouched`, `CommandsEnd` |

`RateBound` says what fixed windows give: at most twice the limit in any period
of one window, not the limit, over the whole history of each source and key. `TokenFresh` and `OverlayNeverLoosens` leave out
what the code does not promise (that a token is the last one issued; the budget
cap, which is `org_budget`; which evidence preset a tool has, as long as it has one). `ExitZeroDone` is about writes whose failure no try
block absorbs: trace reports and telemetry are best-effort in the code.

**Bounds and why they are enough.** Three activations are the smallest number in
which one authorizes, one uses the cached grant and one races both for the same
cache key; more activations only repeat these roles, and the safety properties
are proved for any number. Two grants let an entry be overwritten; further
verify calls, and attempts whose answer was lost, then find Harbor without a
grant and are refused or lost. Copies of completions are not bounded. `Ttl = 0`
and `MaxTime = 1` make one tick the difference between a live and an expired
entry. Two policies differ in the spend of the tool, so a cached authorization
and the call can disagree; under the sandbox cap of `spend_liveness` both price it
alike, so there a cached authorization is used after a reload. Activations and grants are symmetric in the safety
run. For reload, three spend caps are needed for the race (lower, then raise in
between), one document each for the intent, validation, load and bind refusals,
and one call in flight is enough to block or not to block a reload.

Gateway: three retries are the code's; one late copy is enough for a copy to
arrive between or after attempts; two bodies give a key its conflict; one pending
poll has a before and an after. MCP: two calls, since a lock has one holder and
one waiter; a token cache of one entry and two intents make every store an
overflow; windows of two ticks over four ticks contain a full window at every
offset. Documents: two values per field distinguish kept, tightened and loosened;
trees up to five leaves contain the balanced, the nearly full and the odd case;
two faults where the combination matters. Command line: one run of one command;
two pending polls; each file absent, old, taken or torn at the start.

**Fairness.** `SpendInterceptor` assumes that Harbor answers or the HTTP client
times out, and that the event loop resumes an activation whose answer is there;
`httpx` timeouts and bounded retries give the first, asyncio the second. Nothing
is assumed of the framework, handlers or the clock. `PolicyReload` assumes that a
waiting reload proceeds or meets its 30 s deadline, that Gateway requests are
answered or time out, and that the two loops of the controller come round.
`IntentFunding` and `McpRuntime` assume that a request is answered or times out
and that the event loop resumes what is ready, not that the service ever succeeds
or that hosts call again. `Cli` assumes that the process takes its next step;
requests have timeouts and the device code expires.

`CHECK_DEADLOCK` is on where something always remains possible (`Terminated`
stands for a finished agent run) and off where the system stops: a command that
has exited, a document that was judged, a server without further calls.

## The proofs

`SpendInterceptorProofs` proves, for any sets of activations, tools, requests,
grants and policies, and any faults, from the named assumptions on the constants
in `ToolRegistry` and `SpendInterceptor`:

- `Inductive`: `Spec => []IInv`. The properties are not inductive by themselves:
  that a handler runs under a grant for its own call needs to know what a cache
  entry was given for (`CacheInv`), that an unreported grant stays unreported
  needs what each await knows (`CallInv`), and receipts need the fact that
  nobody holds their grant any more (`ReceiptInv`). `GrantInv` ties what was
  posted, and what Harbor has heard of it, to the handler: since any posted copy
  may arrive at any time, the argument is about what is ever posted and never
  about when it arrives.
- `TypeCorrect`, `CountExact`, `NoSharedGrant`, `Authorized`, `Truthful`: the
  invariants of the run, each from `IInv`.
- `DigestNeverDrifts`: `DigestPinned`, when every policy has a digest. Without
  that hypothesis it is false: a run bound from a bare registry and reloaded
  from a file between authorization and execution states the later digest
  (`or pinned_digest`).
- `Refinement`: `Spec` implements `SpendLifecycle`, which promises one run per
  grant, reports only of handlers that ended by themselves, "consumed" only of
  one that returned, and receipts that no later report contradicts. It promises
  no order of "consumed" and "released": the code posts both when the answer to
  the first is lost, and either may arrive last.

`PolicyReloadProofs` proves, for any documents, org policies, options and callers:

- `ReloadInductive`: `Spec => []RInv`, where `RInv` says what a suspended reload
  knows, that a task reloads only with `_reload_in_flight` set under a started
  controller, and, without `Overlap`, that a reload is alone and what it read as
  the previous document, and the digest it sent, are still those in force.
- `ReloadTypeCorrect`, `StoppedIsSilent`, and, without `Overlap`,
  `LooseningDenied` and `SwapsAreNotLost` (`NoSwapUndone`: a reload replaces the
  policy whose digest it sent and whose document it compared, so no other swap
  is undone): the action properties of the run.

`SpendInterceptorProofs` also has `ToldExactly`: `FinalizedAsItHappened`, when
nothing but the evidence mapper fails (`Reliable`). `FinalInv` strengthens `IInv`
with what an activation past its handler has already told Harbor. With other
faults it is false, as `released_after_run` and `cancelled_execution` show.

`IntentFundingProofs` proves for any sessions, methods, bodies and any sharing of
keys between them: `Inductive` (`Spec => []IInv`), `TypeCorrect`, `KeyedOnce`
(`OneEffectPerKey`), `SentOnce` (`OnceNotRepeated`), `ReturnsDone`
(`ReturnedIsDone`), `ReturnsFunded` (`ReturnedFunded`) and `SignsOnce`
(`SignedOnce`). The parts of `IInv`: copies on the wire are of the request being
made or of one without effect before it (`CopiesInv`); where a flow is tells how
many credentials it has asked for (`FlowInv`); how often the work of a request was
done (`WorkInv`); an answer about the session's own subject is true (`AnswerInv`),
and so is what the service remembers with a key (`KeptInv`).

`CliProofs` proves for every plan of steps that is orderly: `--yes` and `--force`
are asked for before the step that needs them, a prompt before anything is written, what can refuse comes before what
changes something, failures are reported (`PlanAssumption`, which TLC evaluates on
the plan of every command). `Inductive`, `TypeCorrect`, `Consent`
(`ConsentFirst`), `ExitZero` (`ExitZeroDone`) and `Refused`
(`RefusedMeansUntouched`). The invariant relates the place in the plan to the
consent that was checked (`PlaceInv`, `ConsentInv`), to the file that can be torn
(`TornInv`), to what is done (`DoneInv`) and to what cannot have been touched yet
(`UntouchedInv`).

`McpRuntimeProofs` proves for any finite sets of calls and intents and any
settings: `Inductive`, `TypeCorrect`, `InFlight`, `Validated`, `OnePolicy`,
`Readers`, `Fresh`, and `WithinGrant` for servers whose key may discover itself
(`Discovers`: scopes given by hand with `--scope` are arbitrary). `StateInv` types
the shared state, `GateInv` counts the calls inside the policy gate, `CallInv`
says what a call was given and that it passed the scope check, `ScopeInv` that
the cached scope context is the key's own, `WireInv` which request is on its way. `Rate` proves `RateBound` for every
limit and window from `RateInv`: a bucket counts the last admissions of its key,
those before it are already sparse (`Sparse`), and the sweep forgets only buckets
whose window is over.

`PolicyLayersProofs` proves `NeverLoosened` (`OverlayNeverLoosens`) for all pairs
of documents of the types the parser returns (`DocumentType`), over any tools and
labels; amounts are natural numbers, where the code has floats.

`SignedDocumentsProofs` proves, for `None` apart from every digest, key, link and
receipt (`NoneApart`):

- `History`: `AcceptedIsHistory` for chains of any length under any number of
  faults. `ChainInv` says that each receipt was the next of its run (`Issued`),
  that the holder has no signature of the Gateway that it did not make
  (`Unforged`), and that a run whose links all continue links is numbered without
  gaps (`Unbroken`). Soundness goes backwards along the chain: an accepted link
  other than the first has an accepted predecessor, whose digest is the one the
  Gateway linked to, so the first missing receipt of a run has no place.
  Completeness is `Unbroken`.
- `Genuine`: `AcceptedIsGenuine` for every kind of document but inclusion proofs,
  over the fields the module gives each kind and any number of faults, from
  `DocumentInv`: form and signature of what is held.

Proving `History` refuted an earlier statement of the property that went by
sequence numbers: with five receipts, a run can be continued from a receipt
without continuity and have two of number 2. `AcceptedIsHistory` now goes by the
order of issue, and was checked with five receipts and one fault beside the run.

Only model-checked: the liveness properties (`EndedExecutionFinalized`,
`EndedExecutionReturns`, `WatchedEditLoaded`, `GivenUpEditCaughtUp`, `FlowEnds`, `CallsEnd`,
`CommandsEnd`), which need fairness; and inclusion proofs, whose verifier recurses
over the audit path, so that a proof would be an induction over data.

## Not modelled

- Canonical bytes and cryptography (symbolic instead), YAML syntax, policy
  digests, wording and layout of output.
- The text of scaffolds, templates and generated code (a file is absent, old,
  taken, torn or new), catalogue data, the checklists of the payment rails and `doctor`, whose
  verdicts are in the answer and not in the exit code.
- Framework adapters: they call the interceptor in framework-specific orders, and
  the model lets any order happen. Commerce payload mappings are stateless.
- The offline gateway and the trace dashboard, which stand in for the Gateway and
  a browser; the tasks inside the trace reporter, whose outcome is absorbed.
- Threads: the interceptor is written for one event loop; adapters that drive it
  from several threads are outside the model. Two `paybond` processes on the same
  files: the code takes no lock, so the later write of a configuration or run file
  wins.
- The mtime fallback of the watcher, and a policy file that disappears.

## Plan

1. Done: interceptor, hot-reload and their proofs; retries, clients and funding;
   the MCP server; policy layers; signed documents; the command line.
2. Done: the safety properties of every passing run as theorems, except for
   inclusion proofs.
3. The tasks and `flush()` of the trace reporter; the adapters that keep state of
   their own over `SpendInterceptor`; two command-line processes on one run file.
