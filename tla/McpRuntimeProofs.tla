--------------------------- MODULE McpRuntimeProofs ---------------------------
(***************************************************************************)
(* Proofs about the MCP server, for any finite set of calls and intents,   *)
(* any settings, policies, allowed tools and limits, and any number of     *)
(* cache entries: the invariant IInv of McpRuntime is inductive, and       *)
(* implies the safety properties other than the bound on the request rate, *)
(* which follows from RateInv.                                             *)
(***************************************************************************)
EXTENDS McpRuntime, FiniteSetTheorems, WellFoundedInduction, TLAPS

-----------------------------------------------------------------------------
(* Facts about the tools. *)

(* No two tools have the same name. *)
LEMMA NamesUnique ==
  ASSUME NEW t \in AllTools, NEW u \in AllTools, t.name = u.name
  PROVE  t = u
BY DEF AllTools, Tool, paybond_get_principal, paybond_verify_capability, paybond_authorize_agent_spend,
     paybond_get_budget_remaining, paybond_explain_policy,
     paybond_bootstrap_sandbox_guardrail, paybond_validate_completion_evidence,
     paybond_submit_sandbox_guardrail_evidence, paybond_list_intents, paybond_get_intent,
     paybond_list_audit_exports, paybond_get_audit_export,
     paybond_get_reputation_receipt, paybond_get_portfolio_summary,
     paybond_get_signed_portfolio_artifact, paybond_get_fraud_assessment,
     paybond_get_fraud_metrics, paybond_get_a2a_agent_card,
     paybond_list_a2a_task_contracts, paybond_get_a2a_task_contract,
     paybond_verify_agent_mandate_v1, paybond_verify_agent_recognition_proof_v1,
     paybond_import_agent_mandate_v1, paybond_get_settlement_receipt_v1,
     paybond_get_agent_receipt_v1, paybond_verify_agent_receipt_v1,
     paybond_verify_protocol_receipt_v1, paybond_create_intent,
     paybond_create_spend_intent, paybond_fund_intent, paybond_submit_evidence,
     paybond_submit_spend_evidence, paybond_confirm_settlement

LEMMA CatalogFacts ==
  ASSUME NEW t \in AllTools
  PROVE  Catalog[t.name] = t
<1>1. Catalog[t.name] = CHOOSE u \in AllTools : u.name = t.name
  BY DEF Catalog
<1>2. Catalog[t.name] \in AllTools /\ Catalog[t.name].name = t.name
  BY <1>1
<1>3. QED
  BY <1>2, NamesUnique

Listed(route, scope) == [route |-> route, scope |-> scope] \in MCP_SCOPE_ROUTES

LEMMA RoutesListed ==
  /\ Listed("GET:/v1/auth/principal", <<"mcp.discovery", "read">>)
  /\ Listed("GET:/harbor/operator/v1/intents", <<"mcp.discovery", "read">>)
  /\ Listed("GET:/harbor/operator/v1/intents/:intent_id", <<"mcp.discovery", "read">>)
  /\ Listed("POST:/v1/spend/preflight", <<"mcp.discovery", "read">>)
  /\ Listed("GET:/reputation/:operator_did", <<"mcp.signal", "read">>)
  /\ Listed("GET:/signal/v1/portfolio/summary", <<"mcp.signal", "read">>)
  /\ Listed("GET:/signal/v1/portfolio/signed-export", <<"mcp.signal", "read">>)
  /\ Listed("GET:/signal/v1/operators/:operator_did/review-status", <<"mcp.signal", "read">>)
  /\ Listed("GET:/signal/v1/fraud/metrics", <<"mcp.signal", "read">>)
  /\ Listed("GET:/v1/compliance/audit-exports", <<"mcp.compliance", "read">>)
  /\ Listed("GET:/v1/compliance/audit-exports/:job_id", <<"mcp.compliance", "read">>)
  /\ Listed("GET:/.well-known/agent-card.json", <<"mcp.a2a", "read">>)
  /\ Listed("GET:/protocol/v2/a2a/task-contracts", <<"mcp.a2a", "read">>)
  /\ Listed("GET:/protocol/v2/a2a/task-contracts/:contract_id", <<"mcp.a2a", "read">>)
  /\ Listed("POST:/protocol/v2/mandates/verify", <<"mcp.a2a", "read">>)
  /\ Listed("POST:/protocol/v2/recognition/verify", <<"mcp.a2a", "read">>)
  /\ Listed("POST:/protocol/v2/mandates", <<"mcp.a2a", "write">>)
  /\ Listed("GET:/protocol/v2/receipts/:receipt_id", <<"mcp.receipts", "read">>)
  /\ Listed("POST:/protocol/v2/receipts/verify", <<"mcp.receipts", "read">>)
  /\ Listed("GET:/protocol/v2/agent-receipts", <<"mcp.receipts", "read">>)
  /\ Listed("GET:/protocol/v2/agent-receipts/:receipt_id", <<"mcp.receipts", "read">>)
  /\ Listed("POST:/protocol/v2/agent-receipts/verify", <<"mcp.receipts", "read">>)
  /\ Listed("POST:/harbor/intents/:intent_id/evidence", <<"mcp.evidence", "write">>)
  /\ Listed("POST:/verify", <<"mcp.spend", "write">>)
  /\ Listed("POST:/harbor/intents", <<"mcp.spend", "write">>)
  /\ Listed("POST:/harbor/intents/:intent_id/fund", <<"mcp.settlement", "write">>)
  /\ Listed("POST:/harbor/intents/:intent_id/settlement/confirm", <<"mcp.settlement", "write">>)
  /\ Listed("POST:/v1/sandbox/guardrails/bootstrap", <<"mcp.sandbox", "write">>)
  /\ Listed("POST:/v1/sandbox/guardrails/:intent_id/evidence", <<"mcp.sandbox", "write">>)
BY DEF Listed, MCP_SCOPE_ROUTES, Routes

(* The gateway asks on a tool's route for the scope the tool has.          *)
LEMMA ToolRoutes ==
  ASSUME NEW t \in AllTools, t.route # None
  PROVE  Listed(t.route, t.scope)
BY RoutesListed DEF AllTools, Tool, paybond_get_principal, paybond_verify_capability, paybond_authorize_agent_spend,
     paybond_get_budget_remaining, paybond_explain_policy,
     paybond_bootstrap_sandbox_guardrail, paybond_validate_completion_evidence,
     paybond_submit_sandbox_guardrail_evidence, paybond_list_intents, paybond_get_intent,
     paybond_list_audit_exports, paybond_get_audit_export,
     paybond_get_reputation_receipt, paybond_get_portfolio_summary,
     paybond_get_signed_portfolio_artifact, paybond_get_fraud_assessment,
     paybond_get_fraud_metrics, paybond_get_a2a_agent_card,
     paybond_list_a2a_task_contracts, paybond_get_a2a_task_contract,
     paybond_verify_agent_mandate_v1, paybond_verify_agent_recognition_proof_v1,
     paybond_import_agent_mandate_v1, paybond_get_settlement_receipt_v1,
     paybond_get_agent_receipt_v1, paybond_verify_agent_receipt_v1,
     paybond_verify_protocol_receipt_v1, paybond_create_intent,
     paybond_create_spend_intent, paybond_fund_intent, paybond_submit_evidence,
     paybond_submit_spend_evidence, paybond_confirm_settlement

LEMMA GrantedByScope ==
  ASSUME NEW t \in AllTools, t.route # None, NEW granted, tool_allowed_by_scope(t, granted)
  PROVE  route_granted(granted, t.route)
BY ToolRoutes DEF Listed, route_granted, tool_allowed_by_scope

(* The requests on the way need no more than the right to look around.     *)
Discovery == <<"mcp.discovery", "read">>

LEMMA GrantedOnTheWay ==
  ASSUME NEW granted, scope_satisfies(granted, Discovery)
  PROVE  /\ route_granted(granted, paybond_get_principal.route)
         /\ route_granted(granted, paybond_get_intent.route)
<1>1. /\ paybond_get_principal.route = "GET:/v1/auth/principal"
      /\ paybond_get_intent.route = "GET:/harbor/operator/v1/intents/:intent_id"
  BY DEF paybond_get_principal, paybond_get_intent, Tool
<1>2. QED
  BY <1>1, RoutesListed DEF Listed, route_granted, Discovery

Reads == {principal_get, list_intents, mcp_get_intent, list_audit_exports, get_audit_export,
          get_a2a_agent_card, get_a2a_task_contracts, get_a2a_task_contract, spend_preflight,
          verify_agent_mandate_v1, verify_agent_recognition_proof_v1,
          mcp_get_settlement_receipt_v1, mcp_verify_protocol_receipt_v1,
          mcp_get_agent_receipt_v1, get_reputation_receipt, get_portfolio_summary,
          get_signed_portfolio_artifact, get_fraud_assessment, get_fraud_metrics}

LEMMA ReadsChangeNothing ==
  \A op \in Reads : ~op.effect
<1>1. \A checks : ~Read(checks).effect /\ ~Lookup(checks).effect
  BY DEF Read, Lookup
<1>2. QED
  BY <1>1
  DEF Reads, principal_get, list_intents, mcp_get_intent, list_audit_exports, get_audit_export,
      get_a2a_agent_card, get_a2a_task_contracts, get_a2a_task_contract, spend_preflight,
      verify_agent_mandate_v1, verify_agent_recognition_proof_v1,
      mcp_get_settlement_receipt_v1, mcp_verify_protocol_receipt_v1,
      mcp_get_agent_receipt_v1, get_reputation_receipt, get_portfolio_summary,
      get_signed_portfolio_artifact, get_fraud_assessment, get_fraud_metrics

(* What changes state at the gateway needs a write scope, and is not       *)
(* annotated as reading only.                                              *)
LEMMA MutationsMarked ==
  ASSUME NEW t \in AllTools, Mutates(t)
  PROVE  t.scope[2] = "write" /\ <<t.name, "read_only">> \notin annotations
<1>1. t.scope[2] = "write" \/ t.asks \in Reads \union {None}
  BY DEF AllTools, Tool, Reads, paybond_get_principal, paybond_verify_capability, paybond_authorize_agent_spend,
     paybond_get_budget_remaining, paybond_explain_policy,
     paybond_bootstrap_sandbox_guardrail, paybond_validate_completion_evidence,
     paybond_submit_sandbox_guardrail_evidence, paybond_list_intents, paybond_get_intent,
     paybond_list_audit_exports, paybond_get_audit_export,
     paybond_get_reputation_receipt, paybond_get_portfolio_summary,
     paybond_get_signed_portfolio_artifact, paybond_get_fraud_assessment,
     paybond_get_fraud_metrics, paybond_get_a2a_agent_card,
     paybond_list_a2a_task_contracts, paybond_get_a2a_task_contract,
     paybond_verify_agent_mandate_v1, paybond_verify_agent_recognition_proof_v1,
     paybond_import_agent_mandate_v1, paybond_get_settlement_receipt_v1,
     paybond_get_agent_receipt_v1, paybond_verify_agent_receipt_v1,
     paybond_verify_protocol_receipt_v1, paybond_create_intent,
     paybond_create_spend_intent, paybond_fund_intent, paybond_submit_evidence,
     paybond_submit_spend_evidence, paybond_confirm_settlement
<1>2. t.scope[2] = "write"
  BY <1>1, ReadsChangeNothing DEF Mutates
<1>3. ASSUME <<t.name, "read_only">> \in annotations
      PROVE  t.scope[2] # "write"
  BY <1>3
  DEF annotations, Annotated, SpendAnnotations, SandboxAnnotations, StandingAnnotations,
      ReviewAnnotations, ProtocolAnnotations, ReceiptAnnotations, HarborAnnotations,
      AllTools, Tool, paybond_get_principal, paybond_verify_capability, paybond_authorize_agent_spend,
     paybond_get_budget_remaining, paybond_explain_policy,
     paybond_bootstrap_sandbox_guardrail, paybond_validate_completion_evidence,
     paybond_submit_sandbox_guardrail_evidence, paybond_list_intents, paybond_get_intent,
     paybond_list_audit_exports, paybond_get_audit_export,
     paybond_get_reputation_receipt, paybond_get_portfolio_summary,
     paybond_get_signed_portfolio_artifact, paybond_get_fraud_assessment,
     paybond_get_fraud_metrics, paybond_get_a2a_agent_card,
     paybond_list_a2a_task_contracts, paybond_get_a2a_task_contract,
     paybond_verify_agent_mandate_v1, paybond_verify_agent_recognition_proof_v1,
     paybond_import_agent_mandate_v1, paybond_get_settlement_receipt_v1,
     paybond_get_agent_receipt_v1, paybond_verify_agent_receipt_v1,
     paybond_verify_protocol_receipt_v1, paybond_create_intent,
     paybond_create_spend_intent, paybond_fund_intent, paybond_submit_evidence,
     paybond_submit_spend_evidence, paybond_confirm_settlement
<1>4. QED
  BY <1>2, <1>3

-----------------------------------------------------------------------------
(* Facts about the cache of capability tokens. *)

(* The entries are in a strict order. *)
Cache(entries) ==
  /\ entries \in [DOMAIN entries -> CachedTokens]
  /\ \A i, j \in DOMAIN entries : entries[i].idle = entries[j].idle => i = j

LEMMA EvictExpiredFacts ==
  ASSUME NEW entries, Cache(entries), NEW time \in Nat
  PROVE  /\ Cache(_evict_expired(entries, time))
         /\ DOMAIN _evict_expired(entries, time) \subseteq DOMAIN entries
         /\ \A i \in DOMAIN _evict_expired(entries, time) :
              time - _evict_expired(entries, time)[i].stored_at <= ttl_sec
<1> DEFINE D == {i \in DOMAIN entries : ~expired(entries[i], time)}
<1>1. _evict_expired(entries, time) = [i \in D |-> entries[i]]
  BY DEF _evict_expired, Restrict
<1>2. \A i \in D : time - entries[i].stored_at <= ttl_sec
  BY TtlAssumption DEF expired, Cache, CachedTokens
<1>3. QED
  BY <1>1, <1>2 DEF Cache

LEMMA MoveToEndFacts ==
  ASSUME NEW entries, Cache(entries), NEW intent \in DOMAIN entries
  PROVE  /\ Cache(move_to_end(entries, intent))
         /\ DOMAIN move_to_end(entries, intent) = DOMAIN entries
<1> DEFINE m == move_to_end(entries, intent)
<1>1. /\ DOMAIN m = DOMAIN entries
      /\ \A i \in DOMAIN entries :
           m[i] = [entries[i] EXCEPT !.idle = IF i = intent THEN 0 ELSE entries[i].idle + 1]
  BY DEF move_to_end
<1>2. ASSUME NEW i \in DOMAIN entries
      PROVE  m[i] \in CachedTokens /\ m[i].idle = IF i = intent THEN 0 ELSE entries[i].idle + 1
  BY <1>1 DEF Cache, CachedTokens
<1>3. m \in [DOMAIN entries -> CachedTokens]
  BY <1>2 DEF move_to_end
<1>4. ASSUME NEW i \in DOMAIN entries, NEW j \in DOMAIN entries, m[i].idle = m[j].idle
      PROVE  i = j
  <2>1. /\ entries[i].idle \in Nat /\ entries[j].idle \in Nat
        /\ entries[i].idle = entries[j].idle => i = j
    BY DEF Cache, CachedTokens
  <2>2. QED
    BY <1>2, <1>4, <2>1
<1>5. QED
  BY <1>1, <1>3, <1>4 DEF Cache

(* One entry has been idle longest: the sets of those that were idle       *)
(* longer are finite, and get smaller with every step up.                  *)
LEMMA OldestExists ==
  ASSUME NEW entries, Cache(entries), IsFiniteSet(DOMAIN entries), DOMAIN entries # {}
  PROVE  \E i \in DOMAIN entries : \A j \in DOMAIN entries : ~(entries[j].idle > entries[i].idle)
<1> DEFINE D == DOMAIN entries
           Longer(i) == {j \in D : entries[j].idle > entries[i].idle}
           T == {Longer(i) : i \in D}
           Rel == StrictSubsetOrdering(D)
<1>1. IsWellFoundedOn(Rel, SUBSET D)
  BY FS_StrictSubsetOrderingWellFounded, FS_FiniteSubsetsOfFinite
<1>2. T \subseteq SUBSET D /\ T # {}
  OBVIOUS
<1>3. \E x \in T : \A y \in T : ~(<<y, x>> \in Rel)
  <2> HIDE DEF T, Rel
  <2>1. QED
    BY <1>1, <1>2, WFMin
<1>4. PICK i \in D : \A k \in D : ~(<<Longer(k), Longer(i)>> \in Rel)
  BY <1>3
<1>5. ASSUME NEW j \in D, entries[j].idle > entries[i].idle
      PROVE  FALSE
  <2>1. \A k \in D : entries[k].idle \in Nat
    BY DEF Cache, CachedTokens
  <2>2. Longer(j) \subseteq Longer(i) /\ j \in Longer(i) /\ j \notin Longer(j)
    BY <1>5, <2>1
  <2>3. <<Longer(j), Longer(i)>> \in Rel
    BY <2>2 DEF StrictSubsetOrdering
  <2>4. QED
    BY <1>4, <2>3
<1>6. QED
  BY <1>5

LEMMA EvictOverflowFacts ==
  ASSUME NEW entries, Cache(entries), IsFiniteSet(DOMAIN entries),
         Cardinality(DOMAIN entries) <= max_entries + 1
  PROVE  /\ Cache(_evict_overflow(entries))
         /\ DOMAIN _evict_overflow(entries) \subseteq DOMAIN entries
         /\ Cardinality(DOMAIN _evict_overflow(entries)) <= max_entries
<1>1. Cardinality(DOMAIN entries) \in Nat
  BY FS_CardinalityType
<1>2. CASE Cardinality(DOMAIN entries) <= max_entries
  BY <1>1, <1>2, MaxEntriesAssumption DEF _evict_overflow
<1>3. CASE Cardinality(DOMAIN entries) > max_entries
  <2> DEFINE D == {i \in DOMAIN entries :
                     \E j \in DOMAIN entries : entries[j].idle > entries[i].idle}
  <2>1. _evict_overflow(entries) = [i \in D |-> entries[i]]
    BY <1>3 DEF _evict_overflow, WithoutOldest, Restrict
  <2>2. DOMAIN entries # {}
    BY <1>3, FS_EmptySet, MaxEntriesAssumption
  <2>3. PICK o \in DOMAIN entries : \A j \in DOMAIN entries : ~(entries[j].idle > entries[o].idle)
    BY <2>2, OldestExists
  <2>4. D \subseteq DOMAIN entries \ {o}
    BY <2>3
  <2>5. /\ IsFiniteSet(DOMAIN entries \ {o})
        /\ Cardinality(DOMAIN entries \ {o}) = Cardinality(DOMAIN entries) - 1
    BY FS_RemoveElement
  <2>6. Cardinality(D) <= Cardinality(DOMAIN entries) - 1 /\ Cardinality(D) \in Nat
    <3>1. D \in SUBSET (DOMAIN entries \ {o})
      BY <2>4
    <3> HIDE DEF D
    <3>2. QED
      BY <2>5, <3>1, FS_Subset, FS_CardinalityType
  <2>7. Cardinality(D) <= max_entries
    BY <1>1, <2>6, MaxEntriesAssumption
  <2>8. QED
    BY <2>1, <2>7 DEF Cache
<1>4. QED
  BY <1>1, <1>2, <1>3, MaxEntriesAssumption

(* A token that is stored is the only one that may push out another.       *)
LEMMA StoreFacts ==
  ASSUME NEW entries, Cache(entries), IsFiniteSet(DOMAIN entries),
         Cardinality(DOMAIN entries) <= max_entries,
         NEW intent, NEW token \in {"minted"}, NEW time \in Nat
  PROVE  /\ Cache(store(entries, intent, token, time))
         /\ DOMAIN store(entries, intent, token, time) \subseteq DOMAIN entries \union {intent}
         /\ Cardinality(DOMAIN store(entries, intent, token, time)) <= max_entries
<1> DEFINE live == _evict_expired(entries, time)
           new == [token |-> token, stored_at |-> time, idle |-> 0]
           kept == [i \in DOMAIN live \union {intent} |-> IF i = intent THEN new ELSE live[i]]
           moved == [i \in DOMAIN kept |->
                       [kept[i] EXCEPT !.idle = IF i = intent THEN 0 ELSE kept[i].idle + 1]]
<1>1. Cache(live) /\ DOMAIN live \subseteq DOMAIN entries
  BY EvictExpiredFacts
<1>2. store(entries, intent, token, time) = _evict_overflow(moved)
  BY DEF store, move_to_end
<1>3. DOMAIN moved = DOMAIN live \union {intent}
  OBVIOUS
<1>4. Cache(moved)
  <2> HIDE DEF live
  <2>1. \A i \in DOMAIN live : live[i] \in CachedTokens /\ live[i].idle \in Nat
    BY <1>1 DEF Cache, CachedTokens
  <2>2. ASSUME NEW i \in DOMAIN moved
        PROVE  /\ moved[i] \in CachedTokens
               /\ moved[i].idle = IF i = intent THEN 0 ELSE live[i].idle + 1
    <3>1. CASE i = intent
      BY <3>1 DEF CachedTokens
    <3>2. CASE i # intent
      <4>1. i \in DOMAIN live /\ moved[i] = [live[i] EXCEPT !.idle = live[i].idle + 1]
        BY <3>2
      <4> HIDE DEF moved
      <4>2. QED
        BY <2>1, <3>2, <4>1 DEF CachedTokens
    <3>3. QED
      BY <3>1, <3>2
  <2>3. ASSUME NEW i \in DOMAIN moved, NEW j \in DOMAIN moved, moved[i].idle = moved[j].idle
        PROVE  i = j
    BY <1>1, <1>3, <2>1, <2>2, <2>3 DEF Cache
  <2>4. moved \in [DOMAIN moved -> CachedTokens]
    BY <2>2
  <2> HIDE DEF moved
  <2>5. QED
    BY <2>3, <2>4 DEF Cache
<1>5. /\ IsFiniteSet(DOMAIN live) /\ Cardinality(DOMAIN live) <= max_entries
      /\ Cardinality(DOMAIN live) \in Nat
  BY <1>1, FS_Subset, FS_CardinalityType, MaxEntriesAssumption
<1>6. /\ IsFiniteSet(DOMAIN moved) /\ Cardinality(DOMAIN moved) <= max_entries + 1
  <2> DEFINE D == DOMAIN live
  <2> HIDE DEF D
  <2>1. IsFiniteSet(D) /\ Cardinality(D) <= max_entries /\ Cardinality(D) \in Nat
    BY <1>5 DEF D
  <2>2. /\ IsFiniteSet(D \union {intent})
        /\ Cardinality(D \union {intent}) = IF intent \in D THEN Cardinality(D) ELSE Cardinality(D) + 1
    BY <2>1, FS_AddElement
  <2>3. IsFiniteSet(D \union {intent}) /\ Cardinality(D \union {intent}) <= max_entries + 1
    BY <2>1, <2>2, MaxEntriesAssumption
  <2>4. QED
    BY <1>3, <2>3 DEF D
<1> HIDE DEF moved, live
<1>7. QED
  BY <1>1, <1>2, <1>3, <1>4, <1>6, EvictOverflowFacts

LEMMA ResolveFacts ==
  ASSUME NEW entries, Cache(entries), IsFiniteSet(DOMAIN entries),
         Cardinality(DOMAIN entries) <= max_entries, NEW intent, NEW time \in Nat
  PROVE  /\ Cache(resolve(entries, intent, time))
         /\ DOMAIN resolve(entries, intent, time) \subseteq DOMAIN entries
         /\ Cardinality(DOMAIN resolve(entries, intent, time)) <= max_entries
         /\ \A e \in cached(entries, intent, time) : time - e.stored_at <= ttl_sec
<1> DEFINE live == _evict_expired(entries, time)
<1>1. /\ Cache(live) /\ DOMAIN live \subseteq DOMAIN entries
      /\ \A i \in DOMAIN live : time - live[i].stored_at <= ttl_sec
  BY EvictExpiredFacts
<1>2. Cardinality(DOMAIN live) <= max_entries
  BY <1>1, FS_Subset, FS_CardinalityType, MaxEntriesAssumption
<1>3. /\ resolve(entries, intent, time) =
           IF intent \in DOMAIN live THEN move_to_end(live, intent) ELSE live
      /\ cached(entries, intent, time) = {live[i] : i \in DOMAIN live \intersect {intent}}
  BY DEF resolve, cached
<1> HIDE DEF live
<1>4. QED
  BY <1>1, <1>2, <1>3, MoveToEndFacts

-----------------------------------------------------------------------------
(* The invariant, sorted by what an action touches. *)

P == paybond_get_principal.route
I == paybond_get_intent.route

TokensOK ==
  Cache(tokens) /\ DOMAIN tokens \subseteq Intents /\ Cardinality(DOMAIN tokens) <= max_entries

Ground ==
  /\ server \in DOMAIN Scenarios /\ outage \in BOOLEAN /\ now \in Nat
  /\ DOMAIN call = Tasks /\ DOMAIN wire = Tasks
  /\ gate \in Gates \union {None}
  /\ reloading \in 1..Len(Policies) \union {None}
  /\ reloading # None => gate # None
  /\ principal \in BOOLEAN
  /\ scope_context \in ScopeContext \union {None}
  /\ lock \in [Lockable -> Tasks \union {None}]
  /\ clients \subseteq {"signal", "fraud"}
  /\ passes \subseteq Pass
  /\ pc \in [Tasks -> Steps]
  /\ wire[preload] \in {None, P, I}

Working == {c \in Calls : Begun(c)}

GateCount ==
  /\ gate # None => gate.in_flight = Cardinality(Working)
  /\ settings.gated /\ gate = None => Working = {}
  /\ gate # None => settings.gated

Running == Steps \ {"idle", "reading", "admitted"}

CallOK(c) ==
  /\ pc[c] \in Running => \E t \in Registered : Fits(call[c], t)
  /\ Scoped(c) /\ settings.key = "restricted" => tool_allowed_by_scope(tool(c), settings.scopes)
  /\ pc[c] = "gate" => tool(c).does = "spend" /\ settings.gated
  /\ wire[c] \in {None, P, I} \/ (pc[c] = "ask" /\ wire[c] = tool(c).route)
  /\ settings.strict /\ pc[c] \in {"tenant", "tenant_fetch", "ask"}
     /\ tool(c).does = "submit" /\ call[c].preset => gate_key(call[c]) \in passes
  /\ pc[c] = "ask" /\ tool(c).does = "spend" /\ settings.gated =>
       call[c].verdict.result =
         assert_spend_gate(Policies[call[c].verdict.version], AllowedBy[call[c].intent], call[c])

Inv == Ground /\ TokensOK /\ GateCount /\ (\A c \in Calls : CallOK(c)) /\ ScopeInv

LEMMA WorkingFinite ==
  IsFiniteSet(Working) /\ Cardinality(Working) \in 0..Cardinality(Calls) /\ Cardinality(Calls) \in Nat
<1>1. IsFiniteSet(Calls) /\ Working \in SUBSET Calls
  BY CallsAssumption DEF Working
<1>2. IsFiniteSet(Working) /\ Cardinality(Working) <= Cardinality(Calls)
  BY <1>1, FS_Subset
<1>3. QED
  BY <1>1, <1>2, FS_CardinalityType

LEMMA InvSame == IInv <=> Inv
<1>1. McpTypeOK /\ StateInv /\ WireInv /\ GateInv => Ground /\ TokensOK /\ GateCount
  <2> SUFFICES ASSUME McpTypeOK, StateInv, WireInv, GateInv
               PROVE  Ground /\ TokensOK /\ GateCount
    OBVIOUS
  <2>1. wire[preload] \in {None, P, I}
    BY CallsAssumption DEF WireInv, Tasks, P, I
  <2>2. Ground
    BY <2>1 DEF McpTypeOK, StateInv, Ground
  <2>3. TokensOK
    BY DEF McpTypeOK, StateInv, TokensOK, Cache
  <2>4. GateCount
    BY DEF GateInv, GateCount, InFlightExact, Working
  <2>5. QED
    BY <2>2, <2>3, <2>4
<1>2. IInv => Inv
  <2> SUFFICES ASSUME IInv
               PROVE  Inv
    OBVIOUS
  <2>1. \A c \in Calls : CallOK(c)
    BY DEF IInv, CallInv, WireInv, GateInv, SubmittedWasValidated, VerdictOfOnePolicy, CallOK,
           Running, P, I, Tasks
  <2>2. QED
    BY <1>1, <2>1 DEF IInv, Inv
<1>3. Inv => IInv
  <2> SUFFICES ASSUME Inv
               PROVE  IInv
    OBVIOUS
  <2>1. McpTypeOK
    <3>1. gate # None => gate.version \in 1..Len(Policies) /\ gate.in_flight \in 0..Cardinality(Calls)
      BY WorkingFinite DEF Inv, Ground, GateCount, Gates
    <3>2. QED
      BY <3>1 DEF Inv, Ground, TokensOK, McpTypeOK
  <2>2. StateInv
    BY DEF Inv, Ground, TokensOK, Cache, StateInv
  <2>3. GateInv
    BY DEF Inv, GateCount, CallOK, GateInv, InFlightExact, Working
  <2>4. CallInv
    BY DEF Inv, CallOK, CallInv, Running
  <2>5. WireInv
    BY DEF Inv, Ground, CallOK, WireInv, Tasks, P, I
  <2>6. SubmittedWasValidated /\ VerdictOfOnePolicy
    BY DEF Inv, CallOK, SubmittedWasValidated, VerdictOfOnePolicy
  <2>7. QED
    BY <2>1, <2>2, <2>3, <2>4, <2>5, <2>6 DEF Inv, IInv
<1>4. QED
  BY <1>2, <1>3

-----------------------------------------------------------------------------
(* Calls. *)

LEMMA RunningTool ==
  ASSUME NEW c, CallOK(c), pc[c] \in Running
  PROVE  tool(c) \in AllTools /\ tool(c) \in Registered /\ Fits(call[c], tool(c))
<1>1. PICK t \in Registered : Fits(call[c], t)
  BY DEF CallOK
<1>2. t \in AllTools /\ call[c].tool = t.name
  BY <1>1 DEF Registered, Fits
<1>3. tool(c) = t
  BY <1>2, CatalogFacts DEF tool
<1>4. QED
  BY <1>1, <1>2, <1>3

LEMMA SettingsKept ==
  ASSUME server' = server
  PROVE  settings' = settings /\ Registered' = Registered
BY DEF settings, Registered

(* The call of another task goes on unchanged. *)
LEMMA OtherCall ==
  ASSUME NEW d, CallOK(d), server' = server, passes \subseteq passes',
         pc'[d] = pc[d], call'[d] = call[d], wire'[d] = wire[d]
  PROVE  CallOK(d)'
<1>1. tool(d)' = tool(d) /\ (Scoped(d)' <=> Scoped(d))
  BY DEF tool, Scoped, Begun
<1>2. QED
  BY <1>1, SettingsKept DEF CallOK

(* A call that has ended, or has not started, owes nothing. *)
LEMMA RestingCall ==
  ASSUME NEW c, pc'[c] \in {"idle", "reading", "admitted"}, wire'[c] \in {None, P, I}
  PROVE  CallOK(c)'
<1>1. ~Scoped(c)' /\ pc'[c] \notin Running
  BY DEF Scoped, Begun, Running
<1>2. QED
  BY <1>1 DEF CallOK, P, I

(* A call goes on with the same input. *)
LEMMA MovingCall ==
  ASSUME NEW c, CallOK(c), server' = server, passes \subseteq passes', call'[c] = call[c],
         pc[c] \in Running,
         Scoped(c)' /\ ~Scoped(c) /\ settings.key = "restricted" =>
           tool_allowed_by_scope(tool(c), settings.scopes),
         pc'[c] = "gate" => tool(c).does = "spend" /\ settings.gated,
         wire'[c] \in {None, P, I} \/ (pc'[c] = "ask" /\ wire'[c] = tool(c).route),
         pc'[c] \in {"tenant", "tenant_fetch", "ask"} =>
           \/ pc[c] \in {"tenant", "tenant_fetch", "ask"}
           \/ tool(c).does # "submit"
           \/ require_pass(call[c]),
         pc'[c] = "ask" => tool(c).does # "spend" \/ ~settings.gated
  PROVE  CallOK(c)'
<1>1. tool(c)' = tool(c)
  BY DEF tool
<1>2. settings' = settings /\ Registered' = Registered /\ call'[c] = call[c]
  BY SettingsKept
<1>3. Scoped(c)' /\ settings.key = "restricted" => tool_allowed_by_scope(tool(c), settings.scopes)
  BY DEF CallOK
<1>4. settings.strict /\ pc'[c] \in {"tenant", "tenant_fetch", "ask"}
      /\ tool(c).does = "submit" /\ call[c].preset => gate_key(call[c]) \in passes'
  BY DEF CallOK, require_pass
<1>5. QED
  BY <1>1, <1>2, <1>3, <1>4 DEF CallOK, P, I

-----------------------------------------------------------------------------
(* The calls in flight. *)

BegunSteps == {"body", "tenant", "tenant_fetch", "gate", "ask"}

LEMMA WorkingMoves ==
  ASSUME pc \in [Tasks -> Steps], NEW c \in Calls, NEW s, pc' = [pc EXCEPT ![c] = s]
  PROVE  Working' = IF s \in BegunSteps THEN Working \union {c} ELSE Working \ {c}
BY DEF Working, Begun, BegunSteps, Tasks

LEMMA CountSame ==
  ASSUME GateCount, server' = server, Working' = Working,
         (gate' = None) <=> (gate = None), gate # None => gate'.in_flight = gate.in_flight
  PROVE  GateCount'
BY SettingsKept DEF GateCount

LEMMA CountEnds ==
  ASSUME Ground, GateCount, server' = server, NEW c \in Working, Working' = Working \ {c},
         (gate' = None) <=> (gate = None),
         gate # None => gate'.in_flight = max0(gate.in_flight - 1)
  PROVE  GateCount'
<1>1. Cardinality(Working \ {c}) = Cardinality(Working) - 1
  BY WorkingFinite, FS_RemoveElement
<1>2. Cardinality(Working \ {c}) \in Nat
  BY WorkingFinite, FS_RemoveElement, FS_CardinalityType
<1>3. gate # None => gate'.in_flight = Cardinality(Working')
  BY <1>1, <1>2, WorkingFinite DEF GateCount, max0
<1>4. QED
  BY <1>3, SettingsKept DEF GateCount

LEMMA CountBegins ==
  ASSUME Ground, GateCount, server' = server, NEW c \in Calls, c \notin Working,
         Working' = Working \union {c}, settings.gated,
         gate' # None, gate'.in_flight = IF gate = None THEN 1 ELSE gate.in_flight + 1
  PROVE  GateCount'
<1>1. Cardinality(Working \union {c}) = Cardinality(Working) + 1
  BY WorkingFinite, FS_AddElement
<1>2. gate = None => Cardinality(Working) = 0
  BY FS_EmptySet DEF GateCount
<1>3. gate'.in_flight = Cardinality(Working')
  BY <1>1, <1>2 DEF GateCount
<1>4. QED
  BY <1>3, SettingsKept DEF GateCount

(* The finally of a call. *)
LEMMA EndGate ==
  ASSUME Ground, gate' = end_tool_call
  PROVE  /\ gate' \in Gates \union {None}
         /\ (gate' = None) <=> (gate = None)
         /\ gate # None => gate'.in_flight = max0(gate.in_flight - 1)
<1>1. ASSUME gate # None
      PROVE  gate' \in Gates /\ gate'.in_flight = max0(gate.in_flight - 1)
  <2>1. gate \in Gates
    BY <1>1 DEF Ground
  <2>2. gate' = [gate EXCEPT !.in_flight = max0(gate.in_flight - 1)]
    BY <1>1 DEF end_tool_call
  <2>3. max0(gate.in_flight - 1) \in Nat
    BY <2>1 DEF Gates, max0
  <2>4. QED
    BY <2>1, <2>2, <2>3 DEF Gates
<1>2. gate = None => gate' = None
  BY DEF end_tool_call
<1>3. None \notin Gates
  BY NoneAssumption
<1>4. QED
  BY <1>1, <1>2, <1>3

-----------------------------------------------------------------------------
(* The ways in which a step of a call changes the state. *)

(* What the step leaves of all that is not the call's own, and the gate's. *)
Frame ==
  /\ server' = server /\ outage' = outage /\ now' = now /\ reloading' = reloading
  /\ scope_context' \in ScopeContext \union {None} /\ ScopeInv'
  /\ principal' \in BOOLEAN
  /\ lock' \in [Lockable -> Tasks \union {None}]
  /\ clients' \subseteq {"signal", "fraud"}
  /\ passes \subseteq passes' /\ passes' \subseteq Pass
  /\ TokensOK'

LEMMA TokensSame ==
  ASSUME TokensOK, tokens' = tokens
  PROVE  TokensOK'
BY DEF TokensOK, Cache

LEMMA ScopeSame ==
  ASSUME ScopeInv, scope_context' = scope_context, server' = server
  PROVE  ScopeInv'
BY SettingsKept DEF ScopeInv, Own

LEMMA ReleasedType ==
  ASSUME NEW c, lock \in [Lockable -> Tasks \union {None}]
  PROVE  Released(c, lock) \in [Lockable -> Tasks \union {None}]
BY DEF Released

(* Only the call c moves. *)
Only(c, s) ==
  /\ pc' = [pc EXCEPT ![c] = s]
  /\ call' = call \/ \E in : call' = [call EXCEPT ![c] = in]
  /\ wire' = wire \/ \E w : wire' = [wire EXCEPT ![c] = w]

LEMMA StepInv ==
  ASSUME Inv, Frame, NEW c \in Calls, NEW s \in Steps, Only(c, s),
         gate' \in Gates \union {None}, gate # None => gate' # None, GateCount', CallOK(c)'
  PROVE  Inv'
<1>1. /\ c \in Tasks /\ c # preload /\ preload \in Tasks
  BY CallsAssumption DEF Tasks
<1>2. /\ pc' \in [Tasks -> Steps] /\ DOMAIN call' = Tasks /\ DOMAIN wire' = Tasks
      /\ wire'[preload] = wire[preload]
  BY <1>1 DEF Only, Inv, Ground
<1>3. Ground'
  BY <1>2 DEF Inv, Ground, Frame, P, I
<1>4. ASSUME NEW d \in Calls
      PROVE  CallOK(d)'
  <2>1. CASE d = c
    BY <2>1
  <2>2. CASE d # c
    <3>1. pc'[d] = pc[d] /\ call'[d] = call[d] /\ wire'[d] = wire[d]
      BY <1>1, <2>2 DEF Only, Inv, Ground, Tasks
    <3>2. QED
      BY <3>1, OtherCall DEF Inv, Frame
  <2>3. QED
    BY <2>1, <2>2
<1>5. QED
  BY <1>3, <1>4 DEF Inv, Frame

(* A call that was begun ends. *)
LEMMA EndInv ==
  ASSUME Inv, Frame, NEW c \in Calls, Begun(c), End(c)
  PROVE  Inv'
<1>1. c \in Tasks
  BY DEF Tasks
<1>2. Only(c, "idle") /\ "idle" \in Steps
  BY DEF End, Goto, Ask, Only, Steps
<1>3. pc'[c] = "idle" /\ wire'[c] = None
  BY <1>1 DEF End, Goto, Ask, Inv, Ground
<1>4. CallOK(c)'
  BY <1>3, RestingCall
<1>5. c \in Working /\ Working' = Working \ {c}
  BY <1>2, WorkingMoves DEF Only, Working, BegunSteps, Inv, Ground
<1>6. /\ gate' \in Gates \union {None}
      /\ (gate' = None) <=> (gate = None)
      /\ gate # None => gate'.in_flight = max0(gate.in_flight - 1)
  BY EndGate DEF End, Inv
<1>7. GateCount'
  BY <1>5, <1>6, CountEnds DEF Inv, Frame
<1>8. QED
  BY <1>2, <1>4, <1>6, <1>7, StepInv

(* A call goes on with the same input, begun or not as before. *)
LEMMA MoveInv ==
  ASSUME Inv, Frame, NEW c \in Calls, NEW s \in Steps, pc' = [pc EXCEPT ![c] = s],
         call' = call, wire' = wire \/ \E w : wire' = [wire EXCEPT ![c] = w], gate' = gate,
         s \in BegunSteps <=> Begun(c), CallOK(c)'
  PROVE  Inv'
<1>1. Only(c, s)
  BY DEF Only
<1>2. Working' = Working
  <2>1. Working' = IF s \in BegunSteps THEN Working \union {c} ELSE Working \ {c}
    BY WorkingMoves DEF Inv, Ground
  <2>2. c \in Working <=> s \in BegunSteps
    BY DEF Working
  <2>3. QED
    BY <2>1, <2>2
<1>3. GateCount'
  BY <1>2, CountSame DEF Inv, Frame
<1>4. QED
  BY <1>1, <1>3, StepInv DEF Inv, Ground

(* A call that was not begun is refused. *)
LEMMA RefusedInv ==
  ASSUME Inv, Frame, NEW c \in Calls, ~Begun(c), Refused(c), gate' = gate,
         (wire' = wire /\ pc[c] # "ask") \/ wire' = [wire EXCEPT ![c] = None]
  PROVE  Inv'
<1>1. c \in Tasks
  BY DEF Tasks
<1>2. Only(c, "idle") /\ "idle" \in Steps
  BY DEF Refused, Goto, Only, Steps
<1>3. pc'[c] = "idle" /\ wire'[c] \in {None, P, I}
  BY <1>1 DEF Refused, Goto, Inv, Ground, CallOK
<1>4. CallOK(c)'
  BY <1>3, RestingCall
<1>5. Working' = Working
  <2>1. Working' = Working \ {c}
    BY <1>2, WorkingMoves DEF Only, BegunSteps, Inv, Ground
  <2>2. c \notin Working
    BY DEF Working
  <2>3. QED
    BY <2>1, <2>2
<1>6. GateCount'
  BY <1>5, CountSame DEF Inv, Frame
<1>7. QED
  BY <1>2, <1>4, <1>6, StepInv DEF Inv, Ground

LEMMA FrameSame ==
  ASSUME Inv, server' = server, outage' = outage, now' = now, reloading' = reloading,
         scope_context' = scope_context, principal' \in BOOLEAN,
         clients' \subseteq {"signal", "fraud"},
         lock' \in [Lockable -> Tasks \union {None}], passes' = passes, tokens' = tokens
  PROVE  Frame
BY TokensSame, ScopeSame DEF Frame, Inv, Ground

LEMMA FrameQuiet ==
  ASSUME Inv, server' = server, outage' = outage, now' = now, reloading' = reloading,
         scope_context' = scope_context, principal' = principal, clients' = clients,
         lock' = lock, passes' = passes, tokens' = tokens
  PROVE  Frame
BY FrameSame DEF Inv, Ground

-----------------------------------------------------------------------------
(* The HTTP gate and the scope check. *)

LEMMA HttpAcceptInv ==
  ASSUME Inv, NEW c \in Calls, HttpAccept(c)
  PROVE  Inv'
<1>1. Frame
  BY FrameQuiet DEF HttpAccept, envVars, cacheVars, gateVars, storeVars
<1>2. c \in Tasks /\ pc \in [Tasks -> Steps] /\ {"idle", "reading"} \subseteq Steps
  BY DEF Tasks, Inv, Ground, Steps
<1>3. PICK s \in {"idle", "reading"} : pc' = [pc EXCEPT ![c] = s]
  <2>1. pc' = [pc EXCEPT ![c] = "reading"] \/ pc' = [pc EXCEPT ![c] = "idle"]
    BY <1>2 DEF HttpAccept, Goto
  <2>2. QED
    BY <2>1
<1>4. pc[c] = "idle" /\ ~Begun(c) /\ call' = call /\ wire' = wire /\ gate' = gate
  BY DEF HttpAccept, Begun, gateVars
<1>5. pc'[c] \in {"idle", "reading", "admitted"} /\ wire'[c] \in {None, P, I}
  BY <1>2, <1>3, <1>4 DEF Inv, CallOK
<1>6. CallOK(c)'
  BY <1>5, RestingCall
<1>7. s \in Steps /\ (s \in BegunSteps <=> Begun(c))
  BY <1>2, <1>4 DEF BegunSteps
<1>8. QED
  BY <1>1, <1>3, <1>4, <1>6, <1>7, MoveInv

LEMMA HttpBodyInv ==
  ASSUME Inv, NEW c \in Calls, HttpBody(c)
  PROVE  Inv'
<1>1. Frame
  BY FrameQuiet DEF HttpBody, envVars, cacheVars, gateVars, storeVars
<1>2. c \in Tasks /\ pc \in [Tasks -> Steps] /\ {"idle", "admitted"} \subseteq Steps
  BY DEF Tasks, Inv, Ground, Steps
<1>3. PICK s \in {"idle", "admitted"} : pc' = [pc EXCEPT ![c] = s]
  BY DEF HttpBody, Goto
<1>4. pc[c] = "reading" /\ ~Begun(c) /\ call' = call /\ wire' = wire /\ gate' = gate
  BY DEF HttpBody, Begun, gateVars
<1>5. pc'[c] \in {"idle", "reading", "admitted"} /\ wire'[c] \in {None, P, I}
  BY <1>2, <1>3, <1>4 DEF Inv, CallOK
<1>6. CallOK(c)'
  BY <1>5, RestingCall
<1>7. s \in Steps /\ (s \in BegunSteps <=> Begun(c))
  BY <1>2, <1>4 DEF BegunSteps
<1>8. QED
  BY <1>1, <1>3, <1>4, <1>6, <1>7, MoveInv

(* What a call is given fits its tool. *)
LEMMA InputsFit ==
  ASSUME NEW t, NEW in \in Inputs(t)
  PROVE  Fits(in, t)
<1>1. CASE t.does = "spend"
  <2>1. in \in [tool : {t.name}, intent : Intents, token : {None, "explicit"},
                operation : SpendTools, cents : {None, 7}, at : {None}, verdict : {None}]
    BY <1>1 DEF Inputs
  <2>2. QED
    BY <1>1, <2>1 DEF Fits
<1>2. CASE t.does = "mint"
  BY <1>2 DEF Inputs, Fits
<1>3. CASE t.does = "validate"
  BY <1>3 DEF Inputs, Fits
<1>4. CASE t.does = "submit"
  BY <1>4 DEF Inputs, Fits
<1>5. CASE t.does \notin {"spend", "mint", "validate", "submit"}
  BY <1>5 DEF Inputs, Fits
<1>6. QED
  BY <1>1, <1>2, <1>3, <1>4, <1>5

LEMMA StartInv ==
  ASSUME Inv, NEW c \in Calls, Start(c)
  PROVE  Inv'
<1>1. Frame
  BY FrameQuiet DEF Start, envVars, cacheVars, gateVars, storeVars
<1>2. PICK t \in Registered : \E in \in Inputs(t) : call' = [call EXCEPT ![c] = in]
  BY DEF Start
<1>3. PICK in \in Inputs(t) : call' = [call EXCEPT ![c] = in]
  BY <1>2
<1>4. /\ pc' = [pc EXCEPT ![c] = "scope"] /\ wire' = wire /\ gate' = gate
      /\ pc[c] \in {"idle", "admitted"} /\ "scope" \in Steps /\ c \in Tasks
  BY DEF Start, Goto, gateVars, Steps, Tasks
<1>5. pc'[c] = "scope" /\ call'[c] = in /\ wire'[c] \in {None, P, I}
  BY <1>3, <1>4 DEF Inv, Ground, CallOK
<1>6. CallOK(c)'
  <2>1. Fits(call'[c], t) /\ t \in Registered'
    BY <1>1, <1>3, <1>5, InputsFit, SettingsKept DEF Frame
  <2>2. ~Scoped(c)'
    BY <1>5 DEF Scoped, Begun
  <2>3. QED
    BY <1>5, <2>1, <2>2 DEF CallOK, P, I
<1>7. Only(c, "scope")
  BY <1>3, <1>4 DEF Only
<1>8. Working' = Working
  <2>1. Working' = Working \ {c}
    BY <1>4, WorkingMoves DEF BegunSteps, Inv, Ground
  <2>2. c \notin Working
    BY <1>4 DEF Working, Begun
  <2>3. QED
    BY <2>1, <2>2
<1>9. GateCount'
  BY <1>1, <1>4, <1>8, CountSame DEF Inv, Frame
<1>10. QED
  BY <1>1, <1>4, <1>6, <1>7, <1>9, StepInv DEF Inv, Ground

(* A call that passes the scope check holds the tool's scope. *)
LEMMA ScopeChecked ==
  ASSUME NEW t, NEW context, Own(context), ~denied(t, context), settings.key = "restricted"
  PROVE  tool_allowed_by_scope(t, settings.scopes)
BY DEF Own, denied

LEMMA AfterScopeInv ==
  ASSUME Inv, Frame, NEW c \in Calls, pc[c] \in {"scope", "scope_principal", "scope_fetch"},
         NEW context, Own(context), AfterScope(c, context), gate' = gate,
         wire' = wire \/ wire' = [wire EXCEPT ![c] = None]
  PROVE  Inv'
<1>1. ~Begun(c) /\ pc[c] \in Running /\ c \in Tasks /\ "begin" \in Steps /\ ~Scoped(c)
  BY DEF Begun, Running, Steps, Tasks, Scoped
<1>2. CASE denied(tool(c), context)
  BY <1>1, <1>2, RefusedInv DEF AfterScope
<1>3. CASE ~denied(tool(c), context)
  <2>1. pc' = [pc EXCEPT ![c] = "begin"] /\ call' = call
    BY <1>3 DEF AfterScope, Goto
  <2>2. pc'[c] = "begin" /\ wire'[c] \in {None, P, I}
    BY <1>1, <2>1 DEF Inv, Ground, CallOK
  <2>3. settings.key = "restricted" => tool_allowed_by_scope(tool(c), settings.scopes)
    BY <1>3, ScopeChecked
  <2>4. CallOK(c)'
    BY <1>1, <2>1, <2>2, <2>3, MovingCall DEF Inv, Frame
  <2>5. QED
    BY <1>1, <2>1, <2>4, MoveInv DEF BegunSteps
<1>4. QED
  BY <1>2, <1>3

LEMMA ScopeCachedInv ==
  ASSUME Inv, NEW c \in Calls, ScopeCached(c)
  PROVE  Inv'
<1>1. Frame /\ gate' = gate
  BY FrameQuiet DEF ScopeCached, envVars, cacheVars, gateVars, storeVars
<1>2. Own(scope_context)
  BY DEF ScopeCached, Inv, ScopeInv
<1>3. QED
  BY <1>1, <1>2, AfterScopeInv DEF ScopeCached

LEMMA ScopeTakeInv ==
  ASSUME Inv, NEW c \in Calls, ScopeTake(c)
  PROVE  Inv'
<1>1. c \in Tasks /\ "scope_principal" \in Steps /\ pc[c] = "scope" /\ pc[c] \in Running /\ ~Begun(c)
  BY DEF Tasks, Steps, ScopeTake, Running, Begun
<1>2. lock' \in [Lockable -> Tasks \union {None}]
  BY <1>1 DEF ScopeTake, Inv, Ground
<1>3. Frame /\ gate' = gate /\ call' = call /\ wire' = wire
  BY <1>2, FrameSame DEF ScopeTake, envVars, cacheVars, gateVars, storeVars, Inv, Ground
<1>4. pc' = [pc EXCEPT ![c] = "scope_principal"]
  BY DEF ScopeTake, Goto
<1>5. pc'[c] = "scope_principal" /\ wire'[c] \in {None, P, I} /\ ~Scoped(c)'
  BY <1>1, <1>3, <1>4 DEF Inv, Ground, CallOK, Scoped, Begun
<1>6. CallOK(c)'
  BY <1>1, <1>3, <1>5, MovingCall DEF Inv, Frame
<1>7. QED
  BY <1>1, <1>3, <1>4, <1>6, MoveInv DEF BegunSteps

LEMMA PrincipalFetchInv ==
  ASSUME Inv, NEW c \in Calls, PrincipalFetch(c)
  PROVE  Inv'
<1>1. c \in Tasks /\ {"tenant_fetch", "scope_fetch"} \subseteq Steps
      /\ pc[c] \in {"tenant", "scope_principal"} /\ pc[c] \in Running
  BY DEF Tasks, Steps, PrincipalFetch, WantsPrincipal, Running
<1>2. lock' \in [Lockable -> Tasks \union {None}]
  BY <1>1 DEF PrincipalFetch, Inv, Ground
<1>3. Frame /\ gate' = gate /\ call' = call /\ wire' = [wire EXCEPT ![c] = P]
  BY <1>2, FrameSame
  DEF PrincipalFetch, Ask, envVars, cacheVars, gateVars, storeVars, Inv, Ground, P
<1> DEFINE s == IF pc[c] = "tenant" THEN "tenant_fetch" ELSE "scope_fetch"
<1>4. pc' = [pc EXCEPT ![c] = s] /\ s \in Steps /\ (s \in BegunSteps <=> Begun(c))
  BY <1>1 DEF PrincipalFetch, Goto, BegunSteps, Begun
<1>5. pc'[c] = s /\ wire'[c] = P
  BY <1>1, <1>3, <1>4 DEF Inv, Ground
<1>6. CallOK(c)'
  BY <1>1, <1>3, <1>5, MovingCall DEF Inv, Frame, Scoped, Begun
<1> HIDE DEF s
<1>7. QED
  BY <1>3, <1>4, <1>6, MoveInv

LEMMA ContextFacts ==
  ASSUME NEW ok, server \in DOMAIN Scenarios
  PROVE  scope_context_of(ok) \in ScopeContext /\ Own(scope_context_of(ok))
<1>1. settings.scopes \in SUBSET (UNION {Scenarios[s].scopes : s \in DOMAIN Scenarios})
  BY DEF settings
<1>2. QED
  BY <1>1 DEF scope_context_of, ScopeContext, Own

LEMMA ScopePrincipalInv ==
  ASSUME Inv, NEW c \in Calls, ScopePrincipal(c)
  PROVE  Inv'
<1>1. PICK ok : /\ ScopeResolved(c, ok)
                /\ principal' \in BOOLEAN
                /\ pc[c] \in {"scope_principal", "scope_fetch"}
                /\ wire' = wire \/ wire' = [wire EXCEPT ![c] = None]
  <2>1. CASE /\ pc[c] = "scope_principal" /\ lock["principal"] = None /\ principal
             /\ ScopeResolved(c, TRUE)
             /\ UNCHANGED <<principal, wire>>
    BY <2>1 DEF Inv, Ground
  <2>2. CASE /\ pc[c] = "scope_fetch"
             /\ \E ok \in {TRUE} \union {~outage} : ScopeResolved(c, ok) /\ principal' = ok
             /\ Ask(c, None)
    <3>1. PICK ok \in {TRUE} \union {~outage} : ScopeResolved(c, ok) /\ principal' = ok
      BY <2>2
    <3>2. ok \in BOOLEAN
      OBVIOUS
    <3>3. QED
      BY <2>2, <3>1, <3>2 DEF Ask
  <2>3. QED
    BY <2>1, <2>2 DEF ScopePrincipal
<1> DEFINE context == scope_context_of(ok)
<1>2. /\ scope_context' = context /\ AfterScope(c, context) /\ lock' = Released(c, lock)
      /\ clients' = clients
  BY <1>1 DEF ScopeResolved
<1>3. context \in ScopeContext /\ Own(context)
  BY ContextFacts DEF Inv, Ground
<1>4. /\ server' = server /\ outage' = outage /\ now' = now /\ reloading' = reloading
      /\ passes' = passes /\ tokens' = tokens /\ gate' = gate
  BY DEF ScopePrincipal, envVars, gateVars, storeVars
<1>5. ScopeInv'
  <2>1. Own(context)' <=> Own(context)
    BY <1>4, SettingsKept DEF Own, scope_context_of
  <2> HIDE DEF context
  <2>2. Own(scope_context)'
    BY <1>2, <1>3, <1>4, SettingsKept DEF Own
  <2>3. QED
    BY <2>2 DEF ScopeInv
<1>6. lock' \in [Lockable -> Tasks \union {None}]
  BY <1>2, ReleasedType DEF Inv, Ground
<1> HIDE DEF context
<1>7. Frame
  BY <1>1, <1>2, <1>3, <1>4, <1>5, <1>6, TokensSame DEF Frame, Inv, Ground
<1>8. QED
  BY <1>1, <1>2, <1>3, <1>4, <1>7, AfterScopeInv

-----------------------------------------------------------------------------
(* The handler, from begin_policy_tool_call to the finally. *)

LEMMA BeginInv ==
  ASSUME Inv, NEW c \in Calls, Begin(c)
  PROVE  Inv'
<1>1. /\ c \in Tasks /\ pc[c] = "begin" /\ pc[c] \in Running /\ ~Begun(c) /\ Scoped(c)
      /\ "body" \in Steps
  BY DEF Begin, Tasks, Running, Begun, Scoped, Steps
<1>2. Frame /\ wire' = wire
  BY FrameQuiet DEF Begin, envVars, cacheVars, storeVars
<1>3. CASE Refused(c) /\ gate' = gate
  BY <1>1, <1>2, <1>3, RefusedInv
<1>4. CASE Goto(c, "body") /\ call' = call
           /\ ((~settings.gated /\ gate' = gate) \/ (settings.gated
                /\ gate' = [(IF gate = None THEN NewGate ELSE gate) EXCEPT !.in_flight = @ + 1]))
  <2>1. pc' = [pc EXCEPT ![c] = "body"] /\ pc'[c] = "body" /\ wire'[c] \in {None, P, I}
    BY <1>1, <1>2, <1>4 DEF Goto, Inv, Ground, CallOK
  <2>2. CallOK(c)' /\ Only(c, "body")
    BY <1>1, <1>2, <1>4, <2>1, MovingCall DEF Inv, Frame, Only
  <2>3. c \notin Working /\ Working' = Working \union {c}
    BY <1>1, <2>1, WorkingMoves DEF Inv, Ground, Working, BegunSteps
  <2>4. CASE ~settings.gated /\ gate' = gate
    <3>1. gate = None
      BY <2>4 DEF Inv, GateCount
    <3>2. GateCount'
      BY <1>2, <2>4, <3>1, SettingsKept DEF Frame, GateCount
    <3>3. QED
      BY <1>1, <1>2, <2>2, <2>4, <3>2, StepInv DEF Inv, Ground
  <2>5. CASE settings.gated
             /\ gate' = [(IF gate = None THEN NewGate ELSE gate) EXCEPT !.in_flight = @ + 1]
    <3> DEFINE g == IF gate = None THEN NewGate ELSE gate
    <3>1. g \in Gates
      BY PoliciesAssumption DEF NewGate, Gates, Inv, Ground
    <3>2. gate' = [g EXCEPT !.in_flight = g.in_flight + 1]
      BY <2>5
    <3>3. g.in_flight = IF gate = None THEN 0 ELSE gate.in_flight
      BY DEF NewGate
    <3> HIDE DEF g
    <3>4. gate' \in Gates /\ gate'.in_flight = g.in_flight + 1 /\ gate' # None
      BY <3>1, <3>2, NoneAssumption DEF Gates
    <3>5. gate'.in_flight = IF gate = None THEN 1 ELSE gate.in_flight + 1
      BY <3>3, <3>4
    <3>6. GateCount'
      BY <1>2, <2>3, <2>5, <3>4, <3>5, CountBegins DEF Inv, Frame
    <3>7. QED
      BY <1>1, <1>2, <2>2, <3>4, <3>6, StepInv
  <2>6. QED
    BY <1>4, <2>4, <2>5
<1>5. QED
  BY <1>3, <1>4 DEF Begin

LEMMA BodyFacts ==
  ASSUME Inv, NEW c \in Calls, pc[c] = "body"
  PROVE  /\ c \in Tasks /\ pc[c] \in Running /\ Begun(c) /\ Scoped(c)
         /\ {"tenant", "ask"} \subseteq Steps /\ {"tenant", "ask"} \subseteq BegunSteps
         /\ tool(c) \in AllTools /\ Fits(call[c], tool(c)) /\ wire[c] \in {None, P, I}
<1>1. pc[c] \in Running
  BY DEF Running, Steps
<1>2. QED
  BY <1>1, RunningTool DEF Inv, Tasks, Begun, Scoped, Steps, BegunSteps, CallOK

LEMMA ResolvedTokens ==
  ASSUME Inv, NEW intent
  PROVE  /\ tokens' = resolve(tokens, intent, now) => TokensOK'
         /\ \A e \in cached(tokens, intent, now) : now - e.stored_at <= ttl_sec
<1>1. /\ Cache(tokens) /\ IsFiniteSet(DOMAIN tokens) /\ now \in Nat
      /\ Cardinality(DOMAIN tokens) <= max_entries /\ DOMAIN tokens \subseteq Intents
  BY IntentsAssumption, FS_Subset DEF Inv, Ground, TokensOK
<1>2. /\ Cache(resolve(tokens, intent, now))
      /\ DOMAIN resolve(tokens, intent, now) \subseteq DOMAIN tokens
      /\ Cardinality(DOMAIN resolve(tokens, intent, now)) <= max_entries
      /\ \A e \in cached(tokens, intent, now) : now - e.stored_at <= ttl_sec
  BY <1>1, ResolveFacts
<1>3. ASSUME tokens' = resolve(tokens, intent, now)
      PROVE  TokensOK'
  BY <1>1, <1>2, <1>3 DEF TokensOK, Cache
<1>4. QED
  BY <1>2, <1>3

LEMMA ResolveTokenInv ==
  ASSUME Inv, NEW c \in Calls, ResolveToken(c)
  PROVE  Inv'
<1>1. pc[c] = "body" /\ tool(c).does = "spend"
  BY DEF ResolveToken
<1>2. TokensOK'
  <2>1. tokens' = tokens \/ tokens' = resolve(tokens, call[c].intent, now)
    BY DEF ResolveToken
  <2>2. QED
    BY <2>1, ResolvedTokens, TokensSame DEF Inv
<1>3. Frame
  BY <1>2, ScopeSame DEF ResolveToken, envVars, cacheVars, Frame, Inv, Ground
<1>4. CASE call[c].token = "explicit" /\ Goto(c, "tenant") /\ UNCHANGED <<tokens, call, gate, wire>>
  <2>1. pc' = [pc EXCEPT ![c] = "tenant"] /\ pc'[c] = "tenant"
    BY <1>1, <1>4, BodyFacts DEF Goto, Inv, Ground
  <2>2. CallOK(c)'
    BY <1>1, <1>3, <1>4, <2>1, BodyFacts, MovingCall DEF Inv, Frame
  <2>3. QED
    BY <1>1, <1>3, <1>4, <2>1, <2>2, BodyFacts, MoveInv
<1>5. CASE \E e \in cached(tokens, call[c].intent, now) :
             /\ call' = [call EXCEPT ![c].token = e.token, ![c].at = e.stored_at]
             /\ Goto(c, "tenant")
             /\ UNCHANGED <<gate, wire>>
  <2>1. PICK e : /\ call' = [call EXCEPT ![c].token = e.token, ![c].at = e.stored_at]
                 /\ pc' = [pc EXCEPT ![c] = "tenant"] /\ gate' = gate /\ wire' = wire
    BY <1>5 DEF Goto
  <2>2. /\ pc'[c] = "tenant" /\ wire'[c] \in {None, P, I}
        /\ call'[c] = [call[c] EXCEPT !.token = e.token, !.at = e.stored_at]
    BY <1>1, <2>1, BodyFacts DEF Inv, Ground
  <2>3. Fits(call'[c], tool(c)) /\ call'[c].tool = call[c].tool
    <3> DEFINE in == call[c]
               out == call'[c]
    <3>1. /\ in.tool = tool(c).name /\ in.intent \in Intents
          /\ in = [tool |-> in.tool, intent |-> in.intent, token |-> in.token,
                   operation |-> in.operation, cents |-> in.cents, at |-> in.at,
                   verdict |-> in.verdict]
      BY <1>1, BodyFacts DEF Fits
    <3>2. out = [tool |-> in.tool, intent |-> in.intent, token |-> e.token,
                 operation |-> in.operation, cents |-> in.cents, at |-> e.stored_at,
                 verdict |-> in.verdict]
      <4> HIDE DEF in, out
      <4>1. out = [in EXCEPT !.token = e.token, !.at = e.stored_at]
        BY <2>2 DEF in, out
      <4>2. QED
        BY <3>1, <4>1
    <3>3. QED
      BY <1>1, <3>1, <3>2 DEF Fits
  <2>4. tool(c)' = tool(c)
    BY <2>3 DEF tool
  <2>5. CallOK(c)'
    <3>1. tool(c) \in Registered' /\ settings' = settings
      BY <1>1, <1>3, SettingsKept, RunningTool, BodyFacts DEF Inv, Frame
    <3>2. settings.key = "restricted" => tool_allowed_by_scope(tool(c), settings.scopes)
      BY <1>1, BodyFacts DEF Inv, CallOK
    <3>3. QED
      BY <1>1, <2>2, <2>3, <2>4, <3>1, <3>2 DEF CallOK, P, I
  <2>6. Only(c, "tenant")
    <3>1. \E in : call' = [call EXCEPT ![c] = in]
      BY <2>1
    <3>2. QED
      BY <2>1, <3>1 DEF Only
  <2>7. Working' = Working
    <3>1. Working' = Working \union {c} /\ c \in Working
      BY <1>1, <2>1, WorkingMoves, BodyFacts DEF Inv, Ground, Working
    <3>2. QED
      BY <3>1
  <2>8. GateCount'
    BY <1>3, <2>1, <2>7, CountSame DEF Inv, Frame
  <2>9. QED
    BY <1>1, <1>3, <2>1, <2>5, <2>6, <2>8, BodyFacts, StepInv DEF Inv, Ground
<1>6. CASE End(c)
  BY <1>1, <1>3, <1>6, BodyFacts, EndInv
<1>7. QED
  BY <1>4, <1>5, <1>6 DEF ResolveToken

LEMMA LocalInv ==
  ASSUME Inv, NEW c \in Calls, Local(c)
  PROVE  Inv'
<1>1. pc[c] = "body" /\ End(c)
  BY DEF Local
<1>2. passes \subseteq passes' /\ passes' \subseteq Pass
  <2>1. CASE passes' = passes
    BY <2>1 DEF Inv, Ground
  <2>2. CASE /\ tool(c).does = "validate"
             /\ passes' = passes \union {<<call[c].vendor, call[c].canonical>>}
    <3>1. call[c].vendor \in Payloads /\ call[c].canonical \in Payloads
      BY <1>1, <2>2, BodyFacts DEF Fits
    <3>2. QED
      BY <2>2, <3>1 DEF Inv, Ground, Pass
  <2>3. QED
    BY <2>1, <2>2 DEF Local
<1>3. Frame
  BY <1>2, TokensSame, ScopeSame DEF Local, envVars, cacheVars, Frame, Inv, Ground
<1>4. QED
  BY <1>1, <1>3, BodyFacts, EndInv

LEMMA SubmitInv ==
  ASSUME Inv, NEW c \in Calls, Submit(c)
  PROVE  Inv'
<1>1. pc[c] = "body" /\ tool(c).does = "submit"
  BY DEF Submit
<1>2. Frame
  BY FrameQuiet DEF Submit, envVars, cacheVars, storeVars
<1>3. CASE require_pass(call[c]) /\ Goto(c, "tenant") /\ UNCHANGED <<gate, call, wire>>
  <2>1. pc' = [pc EXCEPT ![c] = "tenant"] /\ pc'[c] = "tenant"
    BY <1>1, <1>3, BodyFacts DEF Goto, Inv, Ground
  <2>2. CallOK(c)'
    BY <1>1, <1>2, <1>3, <2>1, BodyFacts, MovingCall DEF Inv, Frame
  <2>3. QED
    BY <1>1, <1>2, <1>3, <2>1, <2>2, BodyFacts, MoveInv
<1>4. CASE End(c)
  BY <1>1, <1>2, <1>4, BodyFacts, EndInv
<1>5. QED
  BY <1>3, <1>4 DEF Submit

LEMMA ClientInv ==
  ASSUME Inv, NEW c \in Calls, Client(c)
  PROVE  Inv'
<1>1. pc[c] = "body" /\ tool(c).does \notin {"spend", "submit"}
  BY DEF Client
<1>2. lock' \in [Lockable -> Tasks \union {None}]
  <2>1. lock' = lock \/ \E k : lock' = [lock EXCEPT ![k] = c]
    BY DEF Client
  <2>2. QED
    BY <1>1, <2>1, BodyFacts DEF Inv, Ground
<1>3. Frame /\ gate' = gate /\ call' = call
  BY <1>2, FrameSame DEF Client, envVars, cacheVars, gateVars, storeVars, Inv, Ground
<1>4. PICK s \in {"tenant", "ask"} :
        /\ pc' = [pc EXCEPT ![c] = s]
        /\ \/ wire' = wire
           \/ s = "ask" /\ wire' = [wire EXCEPT ![c] = tool(c).route]
  BY DEF Client, Goto, Ask
<1>5. s \in Steps /\ s \in BegunSteps /\ Begun(c)
  BY <1>1, BodyFacts
<1>6. /\ pc'[c] = s
      /\ wire'[c] \in {None, P, I} \/ (pc'[c] = "ask" /\ wire'[c] = tool(c).route)
  BY <1>1, <1>4, BodyFacts DEF Inv, Ground
<1>7. CallOK(c)'
  BY <1>1, <1>3, <1>6, BodyFacts, MovingCall DEF Inv, Frame
<1>8. QED
  BY <1>3, <1>4, <1>5, <1>7, MoveInv

(* A call that has waited for the tenant ends, looks at the policy, or asks. *)
LEMMA TenantedInv ==
  ASSUME Inv, Frame, NEW c \in Calls, pc[c] \in {"tenant", "tenant_fetch"}, Tenanted(c)
  PROVE  Inv'
<1>1. /\ c \in Tasks /\ pc[c] \in Running /\ Begun(c) /\ Scoped(c)
      /\ {"gate", "ask"} \subseteq Steps /\ {"gate", "ask"} \subseteq BegunSteps
  BY DEF Tasks, Running, Steps, Begun, Scoped, BegunSteps
<1>2. CASE End(c)
  BY <1>1, <1>2, EndInv
<1>3. CASE /\ Goto(c, AfterTenant(c))
           /\ Ask(c, IF AfterTenant(c) = "gate" THEN paybond_get_intent.route ELSE tool(c).route)
           /\ UNCHANGED <<gate, call>>
  <2>1. PICK s \in {"gate", "ask"} :
          /\ pc' = [pc EXCEPT ![c] = s]
          /\ s = "gate" <=> tool(c).does = "spend" /\ settings.gated
          /\ wire' = [wire EXCEPT ![c] = IF s = "gate" THEN I ELSE tool(c).route]
    BY <1>3 DEF Goto, Ask, AfterTenant, I
  <2>2. pc'[c] = s /\ wire'[c] = IF s = "gate" THEN I ELSE tool(c).route
    BY <1>1, <2>1 DEF Inv, Ground
  <2>3. CallOK(c)'
    BY <1>1, <1>3, <2>1, <2>2, MovingCall DEF Inv, Frame
  <2>4. s \in Steps /\ (s \in BegunSteps <=> Begun(c))
    BY <1>1
  <2>5. QED
    BY <1>3, <2>1, <2>3, <2>4, MoveInv
<1>4. QED
  BY <1>2, <1>3 DEF Tenanted

LEMMA TenantedFrame ==
  ASSUME Inv, NEW c \in Calls, server' = server, outage' = outage, now' = now,
         reloading' = reloading, scope_context' = scope_context, passes' = passes,
         tokens' = tokens, principal' \in BOOLEAN, lock' = Released(c, lock),
         clients' \subseteq clients \union {"signal", "fraud"}
  PROVE  Frame
BY ReleasedType, FrameSame DEF Inv, Ground

LEMMA TenantCachedInv ==
  ASSUME Inv, NEW c \in Calls, TenantCached(c)
  PROVE  Inv'
<1>1. Frame
  BY TenantedFrame DEF TenantCached, Tenanted, envVars, storeVars, Inv, Ground
<1>2. QED
  BY <1>1, TenantedInv DEF TenantCached

LEMMA TenantFetchedInv ==
  ASSUME Inv, NEW c \in Calls, TenantFetched(c)
  PROVE  Inv'
<1>1. Frame
  BY TenantedFrame DEF TenantFetched, Tenanted, envVars, storeVars, Inv, Ground
<1>2. pc[c] = "tenant_fetch" /\ Begun(c)
  BY DEF TenantFetched, Begun
<1>3. CASE Tenanted(c)
  BY <1>1, <1>2, <1>3, TenantedInv
<1>4. CASE End(c)
  BY <1>1, <1>2, <1>4, EndInv
<1>5. QED
  BY <1>3, <1>4 DEF TenantFetched

(* What the gate decides depends on the operation and the amount asked for. *)
LEMMA VerdictInputs ==
  ASSUME NEW reg, NEW allowed, NEW in, NEW out, out.operation = in.operation, out.cents = in.cents
  PROVE  assert_spend_gate(reg, allowed, out) = assert_spend_gate(reg, allowed, in)
BY Zenon DEF assert_spend_gate

LEMMA SpendGateInv ==
  ASSUME Inv, NEW c \in Calls, SpendGate(c)
  PROVE  Inv'
<1>1. /\ c \in Tasks /\ pc[c] = "gate" /\ pc[c] \in Running /\ Begun(c) /\ Scoped(c)
      /\ {"ask", "idle"} \subseteq Steps /\ "ask" \in BegunSteps /\ "idle" \notin BegunSteps
  BY DEF SpendGate, Tasks, Running, Steps, Begun, Scoped, BegunSteps
<1>2. Frame
  BY FrameQuiet DEF SpendGate, envVars, cacheVars, storeVars
<1>3. tool(c) \in Registered /\ Fits(call[c], tool(c)) /\ tool(c).does = "spend" /\ settings.gated
  BY <1>1, RunningTool DEF Inv, CallOK
<1>4. gate \in Gates /\ gate # None
  BY <1>1, <1>3 DEF Inv, Ground, GateCount, Working
<1>5. AllowedBy[call[c].intent] \in SUBSET SpendTools
  BY <1>3, IntentsAssumption DEF Fits
<1> DEFINE v == assert_spend_gate(Policies[gate.version], AllowedBy[call[c].intent], call[c])
           g == [gate EXCEPT !.last_allowed = AllowedBy[call[c].intent]]
<1>6. g \in Gates /\ g.in_flight = gate.in_flight /\ g # None
  BY <1>4, <1>5, NoneAssumption DEF Gates
<1>7. CASE outage /\ End(c)
  BY <1>1, <1>2, <1>7, EndInv
<1>8. CASE /\ v = None
           /\ gate' = [g EXCEPT !.in_flight = max0(@ - 1)]
           /\ Goto(c, "idle")
           /\ call' = [call EXCEPT ![c] = None]
           /\ Ask(c, None)
  <2> HIDE DEF v, g
  <2>1. pc' = [pc EXCEPT ![c] = "idle"] /\ pc'[c] = "idle" /\ wire'[c] = None /\ Only(c, "idle")
    BY <1>1, <1>8 DEF Goto, Ask, Only, Inv, Ground
  <2>2. CallOK(c)'
    BY <2>1, RestingCall
  <2>3. c \in Working /\ Working' = Working \ {c}
    BY <1>1, <2>1, WorkingMoves DEF Working, Inv, Ground
  <2>4. gate' \in Gates /\ gate' # None /\ gate'.in_flight = max0(gate.in_flight - 1)
    <3>1. max0(g.in_flight - 1) \in Nat
      BY <1>6 DEF Gates, max0
    <3>2. gate' \in Gates /\ gate'.in_flight = max0(g.in_flight - 1)
      BY <1>6, <1>8, <3>1 DEF Gates
    <3>3. QED
      BY <1>6, <3>2, NoneAssumption
  <2>5. GateCount'
    BY <1>2, <1>4, <2>3, <2>4, CountEnds DEF Inv, Frame
  <2>6. QED
    BY <1>1, <1>2, <2>1, <2>2, <2>4, <2>5, StepInv
<1>9. CASE /\ v # None
           /\ gate' = g
           /\ call' = [call EXCEPT ![c].verdict = [version |-> gate.version, result |-> v]]
           /\ Goto(c, "ask")
           /\ Ask(c, tool(c).route)
  <2> HIDE DEF v, g
  <2>1. /\ pc' = [pc EXCEPT ![c] = "ask"] /\ pc'[c] = "ask"
        /\ wire' = [wire EXCEPT ![c] = tool(c).route] /\ wire'[c] = tool(c).route
    BY <1>1, <1>9 DEF Goto, Ask, Inv, Ground
  <2>2. call'[c] = [call[c] EXCEPT !.verdict = [version |-> gate.version, result |-> v]]
    BY <1>1, <1>9 DEF Inv, Ground
  <2>3. /\ call'[c].verdict = [version |-> gate.version, result |-> v]
        /\ call'[c].intent = call[c].intent /\ call'[c].operation = call[c].operation
        /\ call'[c].cents = call[c].cents /\ call'[c].tool = call[c].tool
        /\ Fits(call'[c], tool(c))
    <3> DEFINE in == call[c]
               out == call'[c]
               r == [version |-> gate.version, result |-> v]
    <3>1. /\ in.tool = tool(c).name /\ in.intent \in Intents
          /\ in = [tool |-> in.tool, intent |-> in.intent, token |-> in.token,
                   operation |-> in.operation, cents |-> in.cents, at |-> in.at,
                   verdict |-> in.verdict]
      BY <1>3 DEF Fits
    <3>2. out = [tool |-> in.tool, intent |-> in.intent, token |-> in.token,
                 operation |-> in.operation, cents |-> in.cents, at |-> in.at,
                 verdict |-> r]
      <4>1. out = [in EXCEPT !.verdict = r]
        BY <2>2
      <4> HIDE DEF in, out, r
      <4>2. QED
        BY <3>1, <4>1
    <3> HIDE DEF r
    <3>3. out.verdict = r /\ Fits(out, tool(c)) /\ out.intent = in.intent
          /\ out.operation = in.operation /\ out.cents = in.cents /\ out.tool = in.tool
      BY <1>3, <3>1, <3>2 DEF Fits
    <3>4. QED
      BY <3>3 DEF r
  <2>4. tool(c)' = tool(c)
    BY <2>3 DEF tool
  <2>5. call'[c].verdict.result =
          assert_spend_gate(Policies[call'[c].verdict.version], AllowedBy[call'[c].intent], call'[c])
    <3>1. call'[c].verdict.version = gate.version /\ call'[c].verdict.result = v
      BY <2>3
    <3>2. assert_spend_gate(Policies[gate.version], AllowedBy[call[c].intent], call'[c]) = v
      BY <2>3, VerdictInputs DEF v
    <3>3. QED
      BY <2>3, <3>1, <3>2
  <2>6. CallOK(c)'
    <3>1. tool(c) \in Registered' /\ settings' = settings
      BY <1>2, <1>3, SettingsKept DEF Frame
    <3>2. settings.key = "restricted" => tool_allowed_by_scope(tool(c), settings.scopes)
      BY <1>1 DEF Inv, CallOK
    <3>3. QED
      BY <1>3, <2>1, <2>3, <2>4, <2>5, <3>1, <3>2 DEF CallOK
  <2>7. Only(c, "ask")
    <3>1. \E in : call' = [call EXCEPT ![c] = in]
      BY <1>9
    <3>2. QED
      BY <2>1, <3>1 DEF Only
  <2>8. Working' = Working
    <3>1. Working' = Working \union {c} /\ c \in Working
      BY <1>1, <2>1, WorkingMoves DEF Inv, Ground, Working
    <3>2. QED
      BY <3>1
  <2>9. GateCount'
    BY <1>2, <1>4, <1>6, <1>9, <2>8, CountSame DEF Inv, Frame
  <2>10. QED
    BY <1>1, <1>2, <1>6, <1>9, <2>6, <2>7, <2>9, StepInv
<1>10. QED
  BY <1>7, <1>8, <1>9 DEF SpendGate

LEMMA AnsweredInv ==
  ASSUME Inv, NEW c \in Calls, Answered(c)
  PROVE  Inv'
<1>1. pc[c] = "ask" /\ pc[c] \in Running /\ Begun(c) /\ End(c)
  BY DEF Answered, Running, Steps, Begun
<1>2. TokensOK'
  <2>1. CASE tokens' = tokens
    BY <2>1, TokensSame DEF Inv
  <2>2. CASE /\ tool(c).does = "mint"
             /\ tokens' = store(tokens, call[c].intent, "minted", now)
    <3>1. call[c].intent \in Intents
      BY <1>1, <2>2, RunningTool DEF Fits, Inv
    <3>2. /\ Cache(tokens) /\ IsFiniteSet(DOMAIN tokens) /\ now \in Nat
          /\ Cardinality(DOMAIN tokens) <= max_entries /\ DOMAIN tokens \subseteq Intents
      BY IntentsAssumption, FS_Subset DEF Inv, Ground, TokensOK
    <3>3. /\ Cache(store(tokens, call[c].intent, "minted", now))
          /\ DOMAIN store(tokens, call[c].intent, "minted", now) \subseteq DOMAIN tokens \union {call[c].intent}
          /\ Cardinality(DOMAIN store(tokens, call[c].intent, "minted", now)) <= max_entries
      <4>1. "minted" \in {"minted"}
        OBVIOUS
      <4>2. QED
        BY <3>2, <4>1, StoreFacts
    <3>4. QED
      BY <2>2, <3>1, <3>2, <3>3 DEF TokensOK, Cache
  <2>3. QED
    BY <2>1, <2>2 DEF Answered
<1>3. Frame
  BY <1>2, ScopeSame DEF Answered, envVars, cacheVars, Frame, Inv, Ground
<1>4. QED
  BY <1>1, <1>3, EndInv

LEMMA CancelInv ==
  ASSUME Inv, NEW c \in Calls, Cancel(c)
  PROVE  Inv'
<1>1. Frame
  BY TenantedFrame DEF Cancel, envVars, cacheVars, storeVars, Inv, Ground
<1>2. CASE Begun(c)
  BY <1>1, <1>2, EndInv DEF Cancel
<1>3. CASE ~Begun(c)
  BY <1>1, <1>3, RefusedInv DEF Cancel, Ask
<1>4. QED
  BY <1>2, <1>3

-----------------------------------------------------------------------------
(* The preload task, the reload of the policy, and the surroundings. *)

(* No call moves, and the gate counts as before. *)
LEMMA QuietInv ==
  ASSUME Inv, Ground', TokensOK', ScopeInv', server' = server, passes' = passes, call' = call,
         \A c \in Calls : pc'[c] = pc[c] /\ wire'[c] = wire[c],
         (gate' = None) <=> (gate = None), gate # None => gate'.in_flight = gate.in_flight
  PROVE  Inv'
<1>1. Working' = Working
  BY DEF Working, Begun
<1>2. GateCount'
  BY <1>1, CountSame DEF Inv
<1>3. \A c \in Calls : CallOK(c)'
  BY OtherCall DEF Inv
<1>4. QED
  BY <1>2, <1>3 DEF Inv

(* The task that warms the principal has no call. *)
LEMMA PreloadMoves ==
  ASSUME Inv, NEW s \in Steps, NEW w \in {None, P, I}, Goto(preload, s), Ask(preload, w),
         server' = server, outage' = outage, now' = now, gate' = gate, reloading' = reloading,
         scope_context' = scope_context, clients' = clients, passes' = passes,
         tokens' = tokens, call' = call, principal' \in BOOLEAN,
         lock' \in [Lockable -> Tasks \union {None}]
  PROVE  Inv'
<1>1. preload \in Tasks /\ preload \notin Calls /\ Calls \subseteq Tasks
  BY CallsAssumption DEF Tasks
<1>2. /\ pc' = [pc EXCEPT ![preload] = s] /\ wire' = [wire EXCEPT ![preload] = w]
      /\ pc \in [Tasks -> Steps] /\ DOMAIN wire = Tasks
  BY DEF Goto, Ask, Inv, Ground
<1>3. /\ pc' \in [Tasks -> Steps] /\ DOMAIN wire' = Tasks /\ wire'[preload] = w
      /\ \A c \in Calls : pc'[c] = pc[c] /\ wire'[c] = wire[c]
  BY <1>1, <1>2
<1>4. Ground'
  BY <1>3 DEF Inv, Ground, P, I
<1>5. TokensOK' /\ ScopeInv'
  BY TokensSame, ScopeSame DEF Inv
<1>6. QED
  BY <1>3, <1>4, <1>5, QuietInv

LEMMA PreloadFetchInv ==
  ASSUME Inv, PrincipalFetch(preload)
  PROVE  Inv'
<1>1. preload \in Tasks /\ {"tenant_fetch", "scope_fetch"} \subseteq Steps
  BY DEF Tasks, Steps
<1>2. lock' \in [Lockable -> Tasks \union {None}]
  BY <1>1 DEF PrincipalFetch, Inv, Ground
<1>3. PICK s \in Steps : Goto(preload, s)
  BY <1>1 DEF PrincipalFetch
<1>4. Ask(preload, P) /\ P \in {None, P, I}
  BY DEF PrincipalFetch, P
<1>5. principal' \in BOOLEAN
  BY DEF PrincipalFetch, cacheVars, Inv, Ground
<1>6. QED
  BY <1>2, <1>3, <1>4, <1>5, PreloadMoves
  DEF PrincipalFetch, envVars, cacheVars, gateVars, storeVars

LEMMA PreloadInv ==
  ASSUME Inv, Preload
  PROVE  Inv'
<1>1. lock' \in [Lockable -> Tasks \union {None}]
  BY ReleasedType DEF Preload, Inv, Ground
<1>2. principal' \in BOOLEAN
  BY DEF Preload, Inv, Ground
<1>3. /\ Goto(preload, "idle") /\ Ask(preload, None)
      /\ "idle" \in Steps /\ None \in {None, P, I}
  BY DEF Preload, Steps
<1>4. QED
  BY <1>1, <1>2, <1>3, PreloadMoves DEF Preload, envVars, gateVars, storeVars

(* A step of none of the tasks. *)
LEMMA OutsideInv ==
  ASSUME Inv, server' = server, outage' \in BOOLEAN, now' \in Nat,
         principal' = principal, scope_context' = scope_context, clients' = clients,
         lock' = lock, passes' = passes, tokens' = tokens, pc' = pc, call' = call, wire' = wire,
         gate' \in Gates \union {None}, reloading' \in 1..Len(Policies) \union {None},
         reloading' # None => gate' # None,
         (gate' = None) <=> (gate = None), gate # None => gate'.in_flight = gate.in_flight
  PROVE  Inv'
<1>1. Ground'
  BY DEF Inv, Ground, P, I
<1>2. TokensOK' /\ ScopeInv'
  BY TokensSame, ScopeSame DEF Inv
<1>3. QED
  BY <1>1, <1>2, QuietInv

LEMMA ReloadBeginInv ==
  ASSUME Inv, ReloadBegin
  PROVE  Inv'
<1>1. gate \in Gates /\ gate # None /\ gate' = gate
  BY DEF ReloadBegin, Inv, Ground
<1>2. reloading' \in 1..Len(Policies)
  BY <1>1, PoliciesAssumption DEF ReloadBegin, Gates
<1>3. QED
  BY <1>1, <1>2, OutsideInv
  DEF ReloadBegin, envVars, cacheVars, storeVars, Inv, Ground

LEMMA ReloadEndInv ==
  ASSUME Inv, ReloadEnd
  PROVE  Inv'
<1>1. gate \in Gates /\ gate # None /\ reloading \in 1..Len(Policies)
  BY DEF ReloadEnd, Inv, Ground
<1>2. gate' \in Gates /\ gate' # None /\ gate'.in_flight = gate.in_flight
  <2>1. CASE gate' = gate
    BY <1>1, <2>1
  <2>2. CASE gate' = [gate EXCEPT !.version = reloading]
    <3>1. gate' \in Gates /\ gate'.in_flight = gate.in_flight
      BY <1>1, <2>2 DEF Gates
    <3>2. QED
      BY <3>1, NoneAssumption
  <2>3. QED
    BY <2>1, <2>2 DEF ReloadEnd
<1>3. reloading' = None
  BY DEF ReloadEnd
<1>4. QED
  BY <1>1, <1>2, <1>3, OutsideInv
  DEF ReloadEnd, envVars, cacheVars, storeVars, Inv, Ground

LEMMA SurroundingsInv ==
  ASSUME Inv, HttpRefuse \/ Recover \/ Tick \/ UNCHANGED vars
  PROVE  Inv'
<1>1. /\ server' = server /\ principal' = principal /\ scope_context' = scope_context
      /\ clients' = clients /\ lock' = lock /\ passes' = passes /\ tokens' = tokens
      /\ pc' = pc /\ call' = call /\ wire' = wire /\ gate' = gate /\ reloading' = reloading
  BY DEF HttpRefuse, Recover, Tick, vars, envVars, cacheVars, gateVars, storeVars
<1>2. outage' \in BOOLEAN /\ now' \in Nat
  <2>1. outage \in BOOLEAN /\ now \in Nat
    BY DEF Inv, Ground
  <2>2. CASE HttpRefuse \/ UNCHANGED vars
    BY <2>1, <2>2 DEF HttpRefuse, vars, envVars
  <2>3. CASE Recover
    BY <2>1, <2>3 DEF Recover
  <2>4. CASE Tick
    BY <2>1, <2>4 DEF Tick
  <2>5. QED
    BY <2>2, <2>3, <2>4
<1>3. QED
  BY <1>1, <1>2, OutsideInv DEF Inv, Ground

-----------------------------------------------------------------------------
(* Every step keeps the invariant. *)

LEMMA InitInv ==
  ASSUME Init
  PROVE  Inv
<1>1. Working = {}
  BY CallsAssumption DEF Init, Working, Begun, Tasks
<1>2. /\ TokensOK
  <2>1. tokens = NoEntries /\ DOMAIN tokens = {}
    BY DEF Init, NoEntries
  <2>2. Cardinality(DOMAIN tokens) = 0 /\ max_entries \in Nat
    BY <2>1, FS_EmptySet, MaxEntriesAssumption
  <2>3. Cache(tokens)
    BY <2>1 DEF Cache, NoEntries
  <2>4. QED
    BY <2>1, <2>2, <2>3 DEF TokensOK
<1>3. GateCount
  BY <1>1 DEF Init, GateCount
<1>4. Ground
  <2>1. /\ server \in DOMAIN Scenarios /\ outage \in BOOLEAN /\ now \in Nat
        /\ gate = None /\ reloading = None /\ principal \in BOOLEAN /\ scope_context = None
        /\ clients = {} /\ passes = {}
    BY ScenariosAssumption DEF Init, settings
  <2>2. /\ DOMAIN call = Tasks /\ DOMAIN wire = Tasks /\ wire[preload] = None
        /\ lock \in [Lockable -> Tasks \union {None}] /\ pc \in [Tasks -> Steps]
    BY DEF Init, Tasks, Steps
  <2>3. QED
    BY <2>1, <2>2 DEF Ground
<1>5. ASSUME NEW c \in Calls
      PROVE  CallOK(c)
  <2>1. pc[c] = "idle" /\ wire[c] = None
    BY CallsAssumption DEF Init, Tasks
  <2>2. ~Scoped(c) /\ pc[c] \notin Running
    BY <2>1 DEF Scoped, Begun, Running
  <2>3. QED
    BY <2>1, <2>2 DEF CallOK
<1>6. ScopeInv
  BY DEF Init, ScopeInv
<1>7. QED
  BY <1>2, <1>3, <1>4, <1>5, <1>6 DEF Inv

LEMMA NextInv ==
  ASSUME Inv, [Next]_vars
  PROVE  Inv'
<1>1. ASSUME NEW c \in Calls, CallStep(c) \/ HttpAccept(c) \/ (pc[c] = "idle" /\ Start(c)) \/ Cancel(c)
      PROVE  Inv'
  BY <1>1, HttpBodyInv, StartInv, ScopeCachedInv, ScopeTakeInv, PrincipalFetchInv,
     ScopePrincipalInv, BeginInv, ResolveTokenInv, LocalInv, SubmitInv, ClientInv,
     TenantCachedInv, TenantFetchedInv, SpendGateInv, AnsweredInv, HttpAcceptInv, CancelInv
  DEF CallStep
<1>2. QED
  BY <1>1, PreloadFetchInv, PreloadInv, ReloadBeginInv, ReloadEndInv, SurroundingsInv DEF Next

-----------------------------------------------------------------------------
(* The theorems. *)

(* The invariant holds in every state of every behaviour.                  *)
THEOREM Inductive == Spec => []IInv
<1>1. Init => Inv
  BY InitInv
<1>2. Inv /\ [Next]_vars => Inv'
  BY NextInv
<1>3. QED
  BY <1>1, <1>2, InvSame, PTL DEF Spec

(* The runtime's state has its type, and the cache of capability tokens    *)
(* never holds more than max_entries.                                      *)
THEOREM TypeCorrect == Spec => []McpTypeOK
<1>1. IInv => McpTypeOK
  BY DEF IInv
<1>2. QED
  BY <1>1, Inductive, PTL

(* in_flight_count is the number of calls between begin_policy_tool_call   *)
(* and the finally.                                                        *)
THEOREM InFlight == Spec => []InFlightExact
<1>1. IInv => InFlightExact
  BY DEF IInv, GateInv
<1>2. QED
  BY <1>1, Inductive, PTL

(* Strict mode submits evidence for a preset only after a validation of    *)
(* the same payloads passed.                                               *)
THEOREM Validated == Spec => []SubmittedWasValidated
<1>1. IInv => SubmittedWasValidated
  BY DEF IInv
<1>2. QED
  BY <1>1, Inductive, PTL

(* An authorization states the verdict of one policy, and which one.       *)
THEOREM OnePolicy == Spec => []VerdictOfOnePolicy
<1>1. IInv => VerdictOfOnePolicy
  BY DEF IInv
<1>2. QED
  BY <1>1, Inductive, PTL

(* A call that asks the gateway has passed policy and scope.               *)
LEMMA AskingCall ==
  ASSUME Inv, NEW c \in Calls, pc[c] = "ask"
  PROVE  /\ tool(c) \in AllTools /\ tool(c) \in Registered
         /\ settings.key = "restricted" => tool_allowed_by_scope(tool(c), settings.scopes)
<1>1. pc[c] \in Running /\ Scoped(c)
  BY DEF Running, Steps, Scoped, Begun
<1>2. QED
  BY <1>1, RunningTool DEF Inv, CallOK

(* Under the readonly policy, and with read scopes only, nothing that      *)
(* changes state at the gateway is sent: annotations, scopes and what the  *)
(* operations behind the tools do agree.                                   *)
THEOREM Readers == Spec => []ReadersDoNotMutate
<1>1. IInv => ReadersDoNotMutate
  <2> SUFFICES ASSUME IInv, NEW c \in Calls, pc[c] = "ask", Mutates(tool(c))
               PROVE  /\ settings.policy # "readonly"
                      /\ settings.key = "restricted" => \E s \in settings.scopes : s[2] = "write"
    BY DEF ReadersDoNotMutate
  <2>1. /\ tool(c) \in AllTools /\ tool(c) \in Registered
        /\ settings.key = "restricted" => tool_allowed_by_scope(tool(c), settings.scopes)
    BY AskingCall, InvSame
  <2>2. /\ tool(c).scope[2] = "write"
        /\ <<tool(c).name, "read_only">> \notin annotations
    BY <2>1, MutationsMarked
  <2>3. settings.policy # "readonly"
    BY <2>1, <2>2 DEF Registered, tool_allowed_by_policy
  <2>4. ASSUME settings.key = "restricted"
        PROVE  \E s \in settings.scopes : s[2] = "write"
    <3>1. PICK s \in settings.scopes : _level_rank(s[2]) >= _level_rank(tool(c).scope[2])
      BY <2>1, <2>4 DEF tool_allowed_by_scope, scope_satisfies
    <3>2. s[2] = "write"
      BY <2>2, <3>1 DEF _level_rank
    <3>3. QED
      BY <3>2
  <2>5. QED
    BY <2>3, <2>4
<1>2. QED
  BY <1>1, Inductive, PTL

(* A grant given with --scope may lack the right to look around, which     *)
(* every preset grants.                                                    *)
Discovers == settings.key = "restricted" => scope_satisfies(settings.scopes, Discovery)

(* A restricted key with the right to look around sends only requests that *)
(* the gateway's route table grants it.                                    *)
THEOREM WithinGrant == Spec => [](Discovers => RequestsWithinGrant)
<1>1. IInv => (Discovers => RequestsWithinGrant)
  <2> SUFFICES ASSUME IInv, Discovers, NEW t \in Tasks, settings.key = "restricted", wire[t] # None
               PROVE  route_granted(settings.scopes, wire[t])
    BY DEF RequestsWithinGrant
  <2>1. CASE wire[t] \in {None, P, I}
    BY <2>1, GrantedOnTheWay DEF Discovers, P, I
  <2>2. CASE t \in Calls /\ pc[t] = "ask" /\ wire[t] = tool(t).route
    BY <2>2, AskingCall, InvSame, GrantedByScope
  <2>3. QED
    BY <2>1, <2>2 DEF IInv, WireInv, P, I
<1>2. QED
  BY <1>1, Inductive, PTL

(* A token that a call takes from the cache is no older than the time to   *)
(* live.                                                                   *)
LEMMA FreshStep ==
  ASSUME Inv, [Next]_vars, NEW c \in Calls, pc[c] = "body", pc'[c] = "tenant",
         tool(c).does = "spend", call[c].token = None
  PROVE  now - call'[c].at <= ttl_sec
<1>1. c \in Tasks /\ pc \in [Tasks -> Steps] /\ preload \notin Calls
  BY CallsAssumption DEF Tasks, Inv, Ground
<1>2. ASSUME NEW d \in Tasks, NEW s, Goto(d, s)
      PROVE  d = c
  BY <1>1, <1>2 DEF Goto
<1>3. ASSUME pc' = pc
      PROVE  FALSE
  BY <1>3
<1>4. ResolveToken(c)
  <2>1. ASSUME NEW d \in Calls, CallStep(d) \/ HttpAccept(d) \/ (pc[d] = "idle" /\ Start(d)) \/ Cancel(d)
        PROVE  ResolveToken(c)
    <3>1. \E s : Goto(d, s)
      BY <2>1, <1>3
      DEF CallStep, HttpBody, HttpAccept, Start, ScopeCached, ScopeTake, PrincipalFetch,
          ScopePrincipal, ScopeResolved, AfterScope, Refused, Begin, ResolveToken, Local, Submit,
          Client, TenantCached, TenantFetched, Tenanted, SpendGate, Answered, Cancel, End
    <3>2. d = c
      BY <1>2, <3>1 DEF Tasks
    <3>3. ASSUME pc' = [pc EXCEPT ![c] = "idle"]
          PROVE  FALSE
      BY <1>1, <3>3
    <3>4. CallStep(c)
      BY <2>1, <3>2, <3>3 DEF HttpAccept, Cancel, End, Refused, Goto
    <3>5. QED
      BY <3>3, <3>4
      DEF CallStep, HttpBody, Start, ScopeCached, ScopeTake, PrincipalFetch, WantsPrincipal,
          ScopePrincipal, Begin, Local, Submit, Client, TenantCached, TenantFetched, SpendGate,
          Answered, End, Goto
  <2>2. CASE PrincipalFetch(preload) \/ Preload
    <3>1. \E s : Goto(preload, s)
      BY <2>2 DEF PrincipalFetch, Preload
    <3>2. QED
      BY <1>1, <1>2, <3>1 DEF Tasks
  <2>3. CASE HttpRefuse \/ ReloadBegin \/ ReloadEnd \/ Recover \/ Tick \/ UNCHANGED vars
    BY <1>3, <2>3 DEF HttpRefuse, ReloadBegin, ReloadEnd, Recover, Tick, vars
  <2>4. QED
    BY <2>1, <2>2, <2>3 DEF Next
<1>5. PICK e \in cached(tokens, call[c].intent, now) :
        call' = [call EXCEPT ![c].token = e.token, ![c].at = e.stored_at]
  <2>1. ASSUME End(c)
        PROVE  FALSE
    BY <1>1, <2>1 DEF End, Goto
  <2>2. QED
    BY <1>4, <2>1, NoneAssumption DEF ResolveToken
<1>6. call'[c].at = e.stored_at
  <2>1. call'[c] = [call[c] EXCEPT !.token = e.token, !.at = e.stored_at]
    BY <1>1, <1>5 DEF Inv, Ground
  <2>2. Fits(call[c], tool(c))
    BY BodyFacts
  <2>3. QED
    BY <2>1, <2>2 DEF Fits
<1>7. QED
  BY <1>5, <1>6, ResolvedTokens

(* A token taken from the cache was stored no longer than ttl_sec ago.     *)
THEOREM Fresh == Spec => TokenFresh
<1>1. IInv /\ [Next]_vars =>
        [\A c \in Calls :
           /\ pc[c] = "body" /\ pc'[c] = "tenant"
           /\ tool(c).does = "spend" /\ call[c].token = None
           => now - call'[c].at <= ttl_sec]_vars
  BY FreshStep, InvSame
<1>2. QED
  BY <1>1, Inductive, PTL DEF Spec, TokenFresh

-----------------------------------------------------------------------------
(* The limiters of the HTTP gate. *)

LEMMA LimitPositive ==
  ASSUME NEW l \in Limiters
  PROVE  Limit(l) \in Nat \ {0}
BY LimitsAssumption DEF Limit

(* A sweep forgets only buckets whose window is over.                      *)
LEMMA SweepFacts ==
  ASSUME NEW limiter, NEW t, NEW k
  PROVE  LET old == limiter.buckets
             new == _maybe_sweep(limiter, t).buckets IN
         /\ k \in DOMAIN new => k \in DOMAIN old /\ new[k] = old[k]
         /\ k \in DOMAIN old /\ k \notin DOMAIN new => ~(t - old[k].start < window_sec)
<1>1. CASE t - limiter.last_sweep < SweepWindows * window_sec
  BY <1>1 DEF _maybe_sweep
<1>2. CASE ~(t - limiter.last_sweep < SweepWindows * window_sec)
  <2>1. _maybe_sweep(limiter, t).buckets =
          [j \in {i \in DOMAIN limiter.buckets : t - limiter.buckets[i].start < window_sec} |->
             limiter.buckets[j]]
    BY <1>2 DEF _maybe_sweep, Restrict
  <2>2. QED
    BY <2>1
<1>3. QED
  BY <1>1, <1>2

(* What a sweep forgets is no longer in the window.                        *)
LEMMA SweepInv ==
  ASSUME now \in Nat, NEW limiter, NEW k, NEW times, NEW limit \in Nat,
         KeyInv(times, limiter.buckets, k, limit)
  PROVE  KeyInv(times, _maybe_sweep(limiter, now).buckets, k, limit)
<1> DEFINE old == limiter.buckets
           new == _maybe_sweep(limiter, now).buckets
<1>1. /\ k \in DOMAIN new => k \in DOMAIN old /\ new[k] = old[k]
      /\ k \in DOMAIN old /\ k \notin DOMAIN new => ~(now - old[k].start < window_sec)
  BY SweepFacts
<1> SUFFICES KeyInv(times, new, k, limit)
  OBVIOUS
<1> HIDE DEF new
<1>2. CASE k \in DOMAIN new \/ k \notin DOMAIN old
  BY <1>1, <1>2 DEF KeyInv
<1>3. CASE k \in DOMAIN old /\ k \notin DOMAIN new
  <2>1. BucketInv(times, old[k], limit) /\ times \in Seq(0..now)
    BY <1>3 DEF KeyInv
  <2>2. ASSUME Len(times) > limit
        PROVE  times[Len(times) - limit] + window_sec <= now
    <3>1. Len(times) - limit \in 1..(Len(times) - old[k].count)
      BY <2>1, <2>2 DEF BucketInv
    <3>2. times[Len(times) - limit] <= old[k].start
      BY <2>1, <3>1 DEF BucketInv
    <3>3. times[Len(times) - limit] \in 0..now /\ old[k].start \in 0..now
      BY <2>1, <3>1 DEF BucketInv
    <3>4. QED
      BY <1>1, <1>3, <3>2, <3>3, WindowAssumption
  <2>3. QED
    BY <1>3, <2>2 DEF KeyInv, Sparse
<1>4. QED
  BY <1>2, <1>3

LEMMA SetBucketFacts ==
  ASSUME NEW limiter, NEW key, NEW b, NEW k
  PROVE  LET new == SetBucket(limiter, key, b).buckets IN
         /\ key \in DOMAIN new /\ new[key] = b
         /\ k # key => /\ k \in DOMAIN new <=> k \in DOMAIN limiter.buckets
                       /\ k \in DOMAIN new => new[k] = limiter.buckets[k]
BY DEF SetBucket

LEMMA WindowsAdd ==
  ASSUME NEW a \in Nat, NEW b \in Nat, NEW s \in Nat, NEW t \in Nat, NEW w \in Nat,
         a <= b, b + w <= s, s <= t
  PROVE  t >= a + w
OBVIOUS

LEMMA OneMore ==
  ASSUME NEW c \in Nat, NEW n \in Nat, NEW limit \in Nat, c < limit, n - c \in 0..n
  PROVE  c + 1 \in 1..limit /\ c + 1 <= n + 1
OBVIOUS

LEMMA Back ==
  ASSUME NEW n \in Nat, NEW limit \in Nat \ {0}, n > limit
  PROVE  n - limit \in 1..n
OBVIOUS

(* A request that passes, counted by a bucket that goes on or begins.      *)
LEMMA CountedInv ==
  ASSUME now \in Nat, NEW buckets, NEW k, NEW times, NEW limit \in Nat \ {0}, NEW new,
         KeyInv(times, buckets, k, limit), k \in DOMAIN new,
         \/ k \notin DOMAIN buckets /\ new[k] = [count |-> 1, start |-> now]
         \/ /\ k \in DOMAIN buckets /\ now - buckets[k].start >= window_sec
            /\ new[k] = [count |-> 1, start |-> now]
         \/ /\ k \in DOMAIN buckets /\ buckets[k].count < limit
            /\ new[k] = [count |-> buckets[k].count + 1, start |-> buckets[k].start]
  PROVE  KeyInv(Append(times, now), new, k, limit)
<1> DEFINE more == Append(times, now)
           n == Len(times)
<1> SUFFICES KeyInv(more, new, k, limit)
  OBVIOUS
<1>1. /\ times \in Seq(0..now) /\ n \in Nat
      /\ \A i \in 1..n : times[i] \in 0..now
  BY DEF KeyInv
<1>2. /\ more \in Seq(0..now) /\ Len(more) = n + 1 /\ more[n + 1] = now
      /\ \A i \in 1..n : more[i] = times[i]
  BY <1>1
<1>3. \A i, j \in 1..n : i <= j => times[i] <= times[j]
  BY DEF KeyInv
<1>4. \A i, j \in 1..n : j >= i + 2 * limit => times[j] >= times[i] + window_sec
  BY DEF KeyInv
<1>5. ASSUME \A i \in 1..n : n + 1 >= i + 2 * limit => now >= times[i] + window_sec,
             BucketInv(more, new[k], limit)
      PROVE  KeyInv(more, new, k, limit)
  <2> HIDE DEF more, n
  <2>1. ASSUME NEW i \in 1..(n + 1), NEW j \in 1..(n + 1)
        PROVE  /\ i <= j => more[i] <= more[j]
               /\ j >= i + 2 * limit => more[j] >= more[i] + window_sec
    <3>1. CASE i \in 1..n /\ j \in 1..n
      BY <1>2, <1>3, <1>4, <3>1
    <3>2. CASE j = n + 1 /\ i \in 1..n
      <4>1. more[j] = now /\ more[i] = times[i] /\ times[i] <= now
        BY <1>1, <1>2, <3>2
      <4>2. n + 1 >= i + 2 * limit => now >= times[i] + window_sec
        BY <1>5, <3>2
      <4>3. QED
        BY <3>2, <4>1, <4>2
    <3>3. CASE i = n + 1
      <4>1. i <= j => j = n + 1
        BY <1>1, <3>3
      <4>2. ~(j >= i + 2 * limit)
        BY <1>1, <3>3
      <4>3. QED
        BY <1>2, <3>3, <4>1, <4>2
    <3>4. QED
      BY <1>1, <3>1, <3>2, <3>3
  <2>2. QED
    BY <1>2, <1>5, <2>1 DEF KeyInv
<1>6. ASSUME Sparse(times, n, limit, now), new[k] = [count |-> 1, start |-> now]
      PROVE  KeyInv(more, new, k, limit)
  <2> HIDE DEF more, n
  <2>1. ASSUME NEW i \in 1..n, n + 1 >= i + 2 * limit
        PROVE  now >= times[i] + window_sec
    <3>1. n - limit \in 1..n /\ i <= n - limit /\ n > limit
      BY <1>1, <2>1
    <3>2. times[i] <= times[n - limit] /\ times[n - limit] + window_sec <= now
      BY <1>3, <1>6, <3>1 DEF Sparse
    <3>3. times[i] \in Nat /\ times[n - limit] \in Nat
      BY <1>1, <3>1
    <3>4. QED
      BY <3>2, <3>3, WindowsAdd, WindowAssumption
  <2>2. n > limit => n - limit \in 1..n /\ more[n - limit] = times[n - limit]
    <3>1. SUFFICES ASSUME n > limit
                   PROVE  n - limit \in 1..n /\ more[n - limit] = times[n - limit]
      OBVIOUS
    <3>2. n - limit \in 1..n
      BY <1>1, <3>1, Back
    <3>3. QED
      BY <1>2, <3>2
  <2>3. BucketInv(more, new[k], limit)
    BY <1>1, <1>2, <1>6, <2>2 DEF BucketInv, Sparse
  <2>4. QED
    BY <1>5, <2>1, <2>3
<1>7. CASE k \notin DOMAIN buckets
  BY <1>6, <1>7 DEF KeyInv
<1>8. CASE k \in DOMAIN buckets /\ now - buckets[k].start >= window_sec
            /\ new[k] = [count |-> 1, start |-> now]
  <2>1. BucketInv(times, buckets[k], limit)
    BY <1>8 DEF KeyInv
  <2>2. ASSUME n > limit
        PROVE  times[n - limit] + window_sec <= now
    <3>1. n - limit \in 1..(n - buckets[k].count) /\ n - limit \in 1..n
      BY <1>1, <2>1, <2>2 DEF BucketInv
    <3>2. times[n - limit] <= buckets[k].start
      BY <2>1, <3>1 DEF BucketInv
    <3>3. times[n - limit] \in 0..now /\ buckets[k].start \in 0..now
      BY <1>1, <2>1, <3>1 DEF BucketInv
    <3>4. QED
      BY <1>8, <3>2, <3>3, WindowAssumption
  <2>3. QED
    BY <1>6, <1>8, <2>2 DEF Sparse
<1>9. CASE k \in DOMAIN buckets /\ buckets[k].count < limit
            /\ new[k] = [count |-> buckets[k].count + 1, start |-> buckets[k].start]
  <2> DEFINE b == buckets[k]
             m == n - b.count
  <2>1. /\ b.count \in 1..limit /\ b.start \in 0..now /\ m \in 0..n
        /\ \A i \in 1..m : times[i] <= b.start
        /\ m > limit => times[m - limit] + window_sec <= b.start
    BY <1>1, <1>9 DEF KeyInv, BucketInv, Sparse
  <2>2. /\ new[k].count = b.count + 1 /\ new[k].start = b.start
        /\ Len(more) - new[k].count = m
    BY <1>2, <1>9, <2>1
  <2>3. b.count < limit
    BY <1>9
  <2> HIDE DEF more, n, b, m
  <2>4. ASSUME NEW i \in 1..n, n + 1 >= i + 2 * limit
        PROVE  now >= times[i] + window_sec
    <3>1. n = m + b.count
      BY <1>1, <2>1 DEF m
    <3>2. m - limit \in 1..n /\ i <= m - limit /\ m > limit
      BY <1>1, <2>1, <2>3, <2>4, <3>1
    <3>3. times[i] <= times[m - limit] /\ times[m - limit] + window_sec <= b.start
      BY <1>3, <2>1, <3>2
    <3>4. times[i] \in Nat /\ times[m - limit] \in Nat
      BY <1>1, <3>2
    <3>5. b.start \in Nat /\ b.start <= now
      BY <2>1
    <3>6. QED
      BY <3>3, <3>4, <3>5, WindowsAdd, WindowAssumption
  <2>5. \A i \in 1..m : more[i] = times[i]
    BY <1>1, <1>2, <2>1
  <2>6. m > limit => m - limit \in 1..m
    BY <2>1
  <2>7. BucketInv(more, new[k], limit)
    <3>1. new[k].count \in 1..limit /\ new[k].count <= Len(more)
      <4>1. b.count \in Nat /\ n - b.count \in 0..n
        BY <2>1 DEF m
      <4>2. b.count + 1 \in 1..limit /\ b.count + 1 <= n + 1
        BY <1>1, <2>3, <4>1, OneMore
      <4>3. QED
        BY <1>2, <2>2, <4>2
    <3>2. QED
      BY <2>1, <2>2, <2>5, <2>6, <3>1 DEF BucketInv, Sparse
  <2>8. QED
    BY <1>5, <2>4, <2>7
<1>10. QED
  <2> HIDE DEF more
  <2>1. QED
    BY <1>7, <1>8, <1>9

(* allow() for a key of a limiter, whether it lets the request pass or not. *)
LEMMA LimitedKey ==
  ASSUME now \in Nat, NEW limiter, NEW key, NEW times, NEW limit \in Nat \ {0},
         KeyInv(times, limiter.buckets, key, limit)
  PROVE  KeyInv(IF allows(limiter, key, limit, now) THEN Append(times, now) ELSE times,
                allow(limiter, key, limit, now).buckets, key, limit)
<1> DEFINE swept == _maybe_sweep(limiter, now)
           b == bucket(swept, key, now)
           after == allow(limiter, key, limit, now)
<1>1. KeyInv(times, swept.buckets, key, limit)
  BY SweepInv
<1>2. /\ allows(limiter, key, limit, now) <=> fresh_window(b, now) \/ b.count < limit
      /\ after = IF fresh_window(b, now) THEN SetBucket(swept, key, [count |-> 1, start |-> now])
                 ELSE IF allows(limiter, key, limit, now)
                 THEN SetBucket(swept, key, [count |-> b.count + 1, start |-> b.start])
                 ELSE swept
  BY DEF allow, allows
<1> HIDE DEF swept, after
<1>3. CASE ~allows(limiter, key, limit, now)
  BY <1>1, <1>2, <1>3 DEF after
<1>4. CASE allows(limiter, key, limit, now)
  <2>1. CASE key \notin DOMAIN swept.buckets
    <3>1. b = [count |-> 0, start |-> now]
      BY <2>1 DEF bucket
    <3>2. ~fresh_window(b, now)
      BY <3>1, WindowAssumption DEF fresh_window
    <3>3. after = SetBucket(swept, key, [count |-> 1, start |-> now])
      BY <1>2, <1>4, <3>1, <3>2
    <3>4. key \in DOMAIN after.buckets /\ after.buckets[key] = [count |-> 1, start |-> now]
      BY <3>3, SetBucketFacts
    <3>5. QED
      BY <1>1, <1>4, <2>1, <3>4, CountedInv DEF after
  <2>2. CASE key \in DOMAIN swept.buckets
    <3>1. b = swept.buckets[key]
      BY <2>2 DEF bucket
    <3>2. CASE fresh_window(b, now)
      <4>1. key \in DOMAIN after.buckets /\ after.buckets[key] = [count |-> 1, start |-> now]
        BY <1>2, <3>2, SetBucketFacts
      <4>2. now - swept.buckets[key].start >= window_sec
        BY <3>1, <3>2 DEF fresh_window
      <4>3. QED
        BY <1>1, <1>4, <2>2, <4>1, <4>2, CountedInv DEF after
    <3>3. CASE ~fresh_window(b, now)
      <4>1. /\ key \in DOMAIN after.buckets
            /\ after.buckets[key] = [count |-> b.count + 1, start |-> b.start]
        BY <1>2, <1>4, <3>3, SetBucketFacts
      <4>2. swept.buckets[key].count < limit
        BY <1>2, <1>4, <3>1, <3>3
      <4>3. QED
        BY <1>1, <1>4, <2>2, <3>1, <4>1, <4>2, CountedInv DEF after
    <3>4. QED
      BY <3>2, <3>3
  <2>3. QED
    BY <2>1, <2>2
<1>5. QED
  BY <1>3, <1>4

(* It leaves the other keys what they have in the window.                  *)
LEMMA OtherKey ==
  ASSUME now \in Nat, NEW limiter, NEW key, NEW k, k # key, NEW times, NEW limit \in Nat,
         KeyInv(times, limiter.buckets, k, limit)
  PROVE  KeyInv(times, allow(limiter, key, limit, now).buckets, k, limit)
<1> DEFINE swept == _maybe_sweep(limiter, now)
           after == allow(limiter, key, limit, now)
<1>1. KeyInv(times, swept.buckets, k, limit)
  BY SweepInv
<1>2. after = swept \/ \E b : after = SetBucket(swept, key, b)
  BY DEF allow
<1> HIDE DEF swept, after
<1>3. /\ k \in DOMAIN after.buckets <=> k \in DOMAIN swept.buckets
      /\ k \in DOMAIN after.buckets => after.buckets[k] = swept.buckets[k]
  BY <1>2, SetBucketFacts
<1>4. KeyInv(times, after.buckets, k, limit)
  BY <1>1, <1>3 DEF KeyInv
<1>5. QED
  BY <1>4 DEF after

LEMMA LimitedInv ==
  ASSUME RateInv, NEW l \in Limiters, NEW key \in Keys(l), Limited(l, key),
         now' = now, server' = server
  PROVE  RateInv'
<1> DEFINE through == allows(limiters[l], key, Limit(l), now)
<1>1. now \in Nat /\ Limit(l) \in Nat \ {0}
  BY LimitPositive DEF RateInv
<1>2. /\ limiters'[l] = allow(limiters[l], key, Limit(l), now)
      /\ \A m \in Limiters \ {l} : limiters'[m] = limiters[m]
      /\ DOMAIN limiters' = Limiters
  BY DEF Limited, RateInv
<1>3. /\ admitted'[l][key] = IF through THEN Append(admitted[l][key], now) ELSE admitted[l][key]
      /\ \A k \in Keys(l) \ {key} : admitted'[l][k] = admitted[l][k]
      /\ \A m \in Limiters \ {l} : admitted'[m] = admitted[m]
      /\ DOMAIN admitted' = Limiters
      /\ \A m \in Limiters : DOMAIN admitted'[m] = Keys(m)
  BY DEF Limited, RateInv
<1>4. ASSUME NEW m \in Limiters, NEW k \in Keys(m)
      PROVE  KeyInv(admitted'[m][k], limiters'[m].buckets, k, Limit(m))
  <2>1. KeyInv(admitted[m][k], limiters[m].buckets, k, Limit(m))
    BY DEF RateInv
  <2>2. CASE m # l
    BY <1>2, <1>3, <2>1, <2>2
  <2>3. CASE m = l /\ k = key
    BY <1>1, <1>2, <1>3, <2>1, <2>3, LimitedKey
  <2>4. CASE m = l /\ k # key
    BY <1>1, <1>2, <1>3, <2>1, <2>4, OtherKey
  <2>5. QED
    BY <2>2, <2>3, <2>4
<1>5. ASSUME NEW m \in Limiters, NEW k \in Keys(m)
      PROVE  KeyInv(admitted[m][k], limiters[m].buckets, k, Limit(m))'
  BY <1>4 DEF KeyInv, BucketInv
<1>6. QED
  BY <1>1, <1>2, <1>3, <1>5 DEF RateInv

LEMMA RateNext ==
  ASSUME RateInv, [Next]_vars
  PROVE  RateInv'
<1>1. ASSUME NEW c \in Calls, HttpAccept(c)
      PROVE  RateInv'
  BY <1>1, LimitedInv DEF HttpAccept, envVars, Limiters, Keys
<1>2. CASE HttpRefuse
  <2>1. PICK ip \in settings.sources : Limited("unauth", ip)
    BY <1>2 DEF HttpRefuse
  <2>2. ip \in Keys("unauth")
    BY <2>1 DEF RateInv, Keys, settings
  <2>3. QED
    BY <1>2, <2>1, <2>2, LimitedInv DEF HttpRefuse, envVars, Limiters
<1>3. CASE Tick
  <2>1. now \in Nat /\ now' = now + 1 /\ server' = server /\ UNCHANGED httpVars
    BY <1>3 DEF Tick, RateInv
  <2>2. ASSUME NEW l \in Limiters, NEW k \in Keys(l)
        PROVE  KeyInv(admitted[l][k], limiters[l].buckets, k, Limit(l))'
    <3> DEFINE times == admitted[l][k]
               buckets == limiters[l].buckets
    <3>1. KeyInv(times, buckets, k, Limit(l))
      BY DEF RateInv
    <3>2. times' = times /\ buckets' = buckets
      BY <2>1 DEF httpVars
    <3>3. times \in Seq(0..now') /\ Limit(l) \in Nat
      BY <2>1, <3>1, LimitPositive DEF KeyInv
    <3>4. k \in DOMAIN buckets => BucketInv(times, buckets[k], Limit(l))'
      BY <2>1, <3>1, <3>2 DEF KeyInv, BucketInv, Sparse
    <3>5. k \notin DOMAIN buckets => Sparse(times, Len(times), Limit(l), now)'
      <4>1. ASSUME k \notin DOMAIN buckets, Len(times) > Limit(l)
            PROVE  times[Len(times) - Limit(l)] + window_sec <= now'
        <5>1. times[Len(times) - Limit(l)] + window_sec <= now
          BY <3>1, <4>1 DEF KeyInv, Sparse
        <5>2. Len(times) - Limit(l) \in 1..Len(times) /\ times \in Seq(Nat)
          BY <2>1, <3>3, <4>1
        <5>3. times[Len(times) - Limit(l)] \in Nat
          BY <5>2
        <5>4. QED
          BY <2>1, <5>1, <5>3, WindowAssumption
      <4>2. QED
        BY <3>2, <4>1 DEF Sparse
    <3>6. QED
      BY <3>1, <3>2, <3>3, <3>4, <3>5 DEF KeyInv
  <2>3. QED
    BY <2>1, <2>2 DEF RateInv, httpVars
<1>4. CASE UNCHANGED <<now, server, httpVars>>
  BY <1>4 DEF RateInv, KeyInv, BucketInv, Sparse, httpVars
<1>5. QED
  BY <1>1, <1>2, <1>3, <1>4
  DEF Next, CallStep, HttpBody, Start, ScopeCached, ScopeTake, PrincipalFetch, ScopePrincipal, Begin,
      ResolveToken, Local, Submit, Client, TenantCached, TenantFetched, SpendGate, Answered, Cancel,
      Preload, ReloadBegin, ReloadEnd, Recover, envVars, httpVars, vars

(* However the requests of a source or of the bearer's holder fall, with   *)
(* the sweeps in between, at most twice the limit pass in any period of    *)
(* one window.                                                             *)
THEOREM Rate == Spec => []RateBound
<1>1. Init => RateInv
  <2> SUFFICES ASSUME Init PROVE RateInv
    OBVIOUS
  <2>1. ASSUME NEW l \in Limiters, NEW k \in Keys(l)
        PROVE  KeyInv(admitted[l][k], limiters[l].buckets, k, Limit(l))
    <3>1. admitted[l][k] = <<>> /\ k \notin DOMAIN limiters[l].buckets /\ Limit(l) \in Nat
      BY LimitPositive DEF Init, NewLimiter, NoBuckets
    <3>2. QED
      BY <3>1 DEF KeyInv, Sparse
  <2>2. QED
    BY <2>1 DEF Init, RateInv
<1>2. RateInv /\ [Next]_vars => RateInv'
  BY RateNext
<1>3. RateInv => RateBound
  <2> SUFFICES ASSUME RateInv, NEW l \in Limiters, NEW k \in Keys(l)
               PROVE  \A i, j \in DOMAIN admitted[l][k] :
                        j >= i + 2 * Limit(l) => admitted[l][k][j] >= admitted[l][k][i] + window_sec
    BY DEF RateBound
  <2>1. KeyInv(admitted[l][k], limiters[l].buckets, k, Limit(l))
    BY DEF RateInv
  <2>2. admitted[l][k] \in Seq(0..now) /\ DOMAIN admitted[l][k] = 1..Len(admitted[l][k])
    BY <2>1 DEF KeyInv
  <2>3. QED
    BY <2>1, <2>2 DEF KeyInv
<1>4. QED
  BY <1>1, <1>2, <1>3, PTL DEF Spec
=============================================================================
