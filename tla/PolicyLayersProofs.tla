-------------------------- MODULE PolicyLayersProofs --------------------------
(***************************************************************************)
(* A tenant's overlay never loosens the org's policy: for any documents of *)
(* the parser's types, any tools and any list of approved presets.         *)
(***************************************************************************)
EXTENDS PolicyLayers, TLAPS

(* One tool of the org, changed by an override nobody denied.              *)
LEMMA ToolMerged ==
  ASSUME NEW base \in EntryType(BOOLEAN), NEW patch \in EntryType(Switch),
         parse_tool_entry(base), merge_tool_denials(base, patch) = {}
  PROVE  LET merged == merged_tool(base, patch) IN
         merged # None /\ ToolKept(base, merged) /\ parse_tool_entry(merged)
<1> DEFINE merged == merged_tool(base, patch)
<1>1. /\ ~disables(base, patch) /\ ~raises_cap(base, patch) /\ ~replaces_cap(base, patch)
      /\ ~(merged.side_effecting /\ merged.evidence_preset = None)
      /\ one_spend_field(merged)
  <2> HIDE DEF merged
  <2>1. merge_tool_denials(base, patch) =
          {d \in {"disable", "raise_cap", "spend_mode", "missing_preset", "conflicting_spend"} :
             \/ d = "disable" /\ disables(base, patch)
             \/ d = "raise_cap" /\ raises_cap(base, patch)
             \/ d = "spend_mode" /\ replaces_cap(base, patch)
             \/ d = "missing_preset" /\ merged.side_effecting /\ merged.evidence_preset = None
             \/ d = "conflicting_spend" /\ ~one_spend_field(merged)}
    BY DEF merge_tool_denials, merged
  <2>2. QED
    BY <2>1
<1>2. merged.side_effecting \in BOOLEAN /\ (base.side_effecting => merged.side_effecting)
  BY <1>1 DEF merged_tool, EntryType, Switch, disables
<1>3. /\ merged.max_spend_cents \in Cents /\ merged.spend_from_args \in Label
      /\ base.max_spend_cents # None =>
           /\ merged.spend_from_args = None
           /\ merged.max_spend_cents \in 0..base.max_spend_cents
  <2>1. CASE patch.max_spend_cents # None
    <3>1. merged.max_spend_cents = patch.max_spend_cents /\ merged.spend_from_args = None
      BY <1>1, <2>1 DEF merged_tool
    <3>2. QED
      BY <1>1, <2>1, <3>1, NoneAssumption DEF EntryType, Cents, Label, raises_cap
  <2>2. CASE patch.max_spend_cents = None /\ patch.spend_from_args # None
    <3>1. merged.max_spend_cents = None /\ merged.spend_from_args = patch.spend_from_args
      BY <1>1, <2>2 DEF merged_tool
    <3>2. base.max_spend_cents = None
      BY <1>1, <2>2 DEF replaces_cap
    <3>3. QED
      BY <3>1, <3>2 DEF EntryType, Cents
  <2>3. CASE patch.max_spend_cents = None /\ patch.spend_from_args = None
    <3>1. merged.max_spend_cents = base.max_spend_cents /\ merged.spend_from_args = base.spend_from_args
      BY <2>3 DEF merged_tool
    <3>2. QED
      BY <3>1, NoneAssumption DEF EntryType, Cents, parse_tool_entry, one_spend_field
  <2>4. QED
    BY <2>1, <2>2, <2>3
<1>4. merged \in EntryType(BOOLEAN)
  <2>1. merged = [side_effecting |-> merged.side_effecting, max_spend_cents |-> merged.max_spend_cents,
                  spend_from_args |-> merged.spend_from_args, evidence_preset |-> merged.evidence_preset,
                  vendor_pack |-> merged.vendor_pack, operation |-> merged.operation]
    BY DEF merged_tool
  <2>2. merged.evidence_preset \in Label /\ merged.vendor_pack \in Label /\ merged.operation \in Label
    BY DEF merged_tool, first_of, EntryType
  <2> HIDE DEF merged
  <2>3. QED
    BY <1>2, <1>3, <2>1, <2>2 DEF EntryType
<1>5. merged # None
  <2> HIDE DEF merged
  <2>1. QED
    BY <1>4, NoneAssumption
<1> HIDE DEF merged
<1>6. ToolKept(base, merged) /\ parse_tool_entry(merged)
  BY <1>1, <1>2, <1>3, <1>5 DEF ToolKept, parse_tool_entry
<1>7. QED
  BY <1>5, <1>6 DEF merged

(* A tool that nothing is laid over.                                       *)
LEMMA ToolSame ==
  ASSUME NEW base \in EntryType(BOOLEAN), parse_tool_entry(base)
  PROVE  ToolKept(base, base)
BY NoneAssumption DEF ToolKept, parse_tool_entry, one_spend_field, EntryType, Cents

LEMMA ToolsKept ==
  ASSUME NEW base \in DocumentType, NEW overlay \in DocumentType,
         parse_policy_document(base), parse_policy_document(overlay),
         is_policy_overlay(overlay), tools_denials(base, overlay) = {}
  PROVE  LET tools == merge_tools(base, overlay) IN
         /\ \A t \in declared_tools(base.tools) : ToolKept(base.tools[t], tools[t])
         /\ \A t \in declared_tools(tools) : parse_tool_entry(tools[t])
<1> DEFINE tools == merge_tools(base, overlay)
<1>1. /\ \A t \in declared_tools(base.tools) : parse_tool_entry(base.tools[t])
      /\ \A t \in declared_tools(overlay.tools) : parse_tool_entry(overlay.tools[t])
  BY DEF parse_policy_document, parse_policy_document_v1, parse_policy_document_v2, parse_tools_map,
         is_policy_overlay
<1>2. ASSUME NEW t \in declared_tools(base.tools), overlay.overrides.tools[t] # None
      PROVE  merge_tool_denials(base.tools[t], overlay.overrides.tools[t]) = {}
  <2>1. t \in declared_tools(base.tools) \intersect declared_tools(overlay.overrides.tools)
    BY <1>2 DEF declared_tools
  <2>2. QED
    BY <2>1 DEF tools_denials
<1>3. ASSUME NEW t \in Tools, base.tools[t] # None
      PROVE  ToolKept(base.tools[t], tools[t]) /\ parse_tool_entry(tools[t])
  <2>1. t \in declared_tools(base.tools) /\ base.tools[t] \in EntryType(BOOLEAN)
    BY <1>3 DEF declared_tools, DocumentType
  <2>2. CASE overlay.overrides.tools[t] = None
    <3>1. tools[t] = base.tools[t]
      BY <1>3, <2>2 DEF merge_tools
    <3>2. QED
      BY <1>1, <2>1, <3>1, ToolSame
  <2>3. CASE overlay.overrides.tools[t] # None
    <3>1. tools[t] = merged_tool(base.tools[t], overlay.overrides.tools[t])
      BY <1>3, <2>3 DEF merge_tools
    <3>2. overlay.overrides.tools[t] \in EntryType(Switch)
      BY <2>3 DEF DocumentType, OverridesType
    <3>3. QED
      BY <1>1, <1>2, <2>1, <2>3, <3>1, <3>2, ToolMerged
  <2>4. QED
    BY <2>2, <2>3
<1>4. ASSUME NEW t \in Tools, base.tools[t] = None, tools[t] # None
      PROVE  parse_tool_entry(tools[t])
  BY <1>1, <1>4 DEF merge_tools, declared_tools
<1> HIDE DEF tools
<1>5. QED
  BY <1>3, <1>4 DEF declared_tools, tools

LEMMA BindingMerged ==
  ASSUME NEW base \in BindingType(Labels) \union {None}, NEW overlay \in BindingType(Labels) \union {None},
         NEW override \in BindingType(Label) \union {None}
  PROVE  LET merged == merge_policy_binding(base, overlay, override) IN
         /\ merged \in BindingType(Labels) \union {None}
         /\ binding_denials(base, overlay, override) = {} => BindingKept(base, merged)
<1> DEFINE merged == merge_policy_binding(base, overlay, override)
           template == later(base, overlay, override, "template_id")
           version == later(base, overlay, override, "version_seq")
           head == later(base, overlay, override, "head_digest")
<1>1. /\ template \in Label /\ (base # None => template # None)
      /\ version \in Cents /\ (base # None /\ base.version_seq # None => version # None)
      /\ head \in Label
  BY NoneAssumption DEF later, part, first_of, BindingType, Label, Cents
<1>2. merged = IF template = None THEN None
               ELSE [template_id |-> template, version_seq |-> version, head_digest |-> head]
  BY DEF merge_policy_binding
<1> HIDE DEF template, version, head, merged
<1>3. template # None => /\ merged \in BindingType(Labels) /\ merged # None
                         /\ merged.template_id = template /\ merged.version_seq = version
                         /\ merged.head_digest = head
  BY <1>1, <1>2, NoneAssumption DEF BindingType, Label
<1>4. ASSUME binding_denials(base, overlay, override) = {}, base # None
      PROVE  BindingKept(base, merged)
  <2>1. binding_denials(base, overlay, override) =
          {d \in {"template", "version", "head"} :
             /\ base # None /\ merged # None
             /\ \/ d = "template" /\ merged.template_id # base.template_id
                \/ /\ d = "version" /\ base.version_seq # None
                   /\ merged.version_seq < base.version_seq
                \/ /\ d = "head" /\ base.head_digest # None
                   /\ merged.head_digest # base.head_digest}
    BY DEF binding_denials, merged
  <2>2. /\ merged # None /\ merged.template_id = base.template_id
        /\ base.version_seq # None => ~(merged.version_seq < base.version_seq)
        /\ base.head_digest # None => merged.head_digest = base.head_digest
    BY <1>1, <1>3, <1>4, <2>1
  <2>3. base.version_seq # None => base.version_seq \in Nat /\ merged.version_seq \in Nat
    BY <1>1, <1>3, <1>4 DEF BindingType, Cents
  <2>4. QED
    BY <2>2, <2>3 DEF BindingKept
<1>5. QED
  BY <1>2, <1>3, <1>4 DEF BindingKept, merged

(* The intent section: the org's allowed tools and its template pin.       *)
LEMMA IntentKept ==
  ASSUME NEW base \in DocumentType, NEW overlay \in DocumentType, intent_denials(base, overlay) = {}
  PROVE  LET merged == merge_intent(base, overlay) IN
         /\ allowed(base.intent) # {} =>
              allowed(merged) # {} /\ allowed(merged) \subseteq allowed(base.intent)
         /\ BindingKept(part(base.intent, "policy_binding"), part(merged, "policy_binding"))
<1> DEFINE patch == overlay.overrides.intent
           owned == allowed(base.intent)
           tenant == tenant_allowed(overlay)
           tools == intersect_allowed_tools(owned, tenant)
           b == part(base.intent, "policy_binding")
           o == part(overlay.intent, "policy_binding")
           p == part(patch, "policy_binding")
           binding == merge_policy_binding(b, o, p)
           budget == merge_budget(part(base.intent, "budget"), part(overlay.intent, "budget"),
                                  part(patch, "budget"))
           merged == merge_intent(base, overlay)
<1>1. /\ base.intent \in IntentType(Labels) \union {None}
      /\ overlay.intent \in IntentType(Labels) \union {None}
      /\ patch \in IntentType(Label) \union {None}
  BY DEF DocumentType, OverridesType
<1>2. /\ b \in BindingType(Labels) \union {None} /\ o \in BindingType(Labels) \union {None}
      /\ p \in BindingType(Label) \union {None}
  BY <1>1 DEF part, IntentType
<1>3. /\ owned \in SUBSET (Tools \union Labels) /\ tenant \in SUBSET (Tools \union Labels)
  BY <1>1 DEF allowed, tenant_allowed, IntentType
<1>4. ~(owned # {} /\ tenant \ owned # {})
  BY DEF intent_denials, allowed_denials
<1>5. owned # {} => tools # {} /\ tools \subseteq owned
  BY <1>4 DEF intersect_allowed_tools
<1>6. CASE merged = base.intent
  <2>1. BindingKept(b, b)
    <3>1. b # None /\ b.version_seq # None => b.version_seq \in Nat
      BY <1>2 DEF BindingType, Cents
    <3>2. QED
      BY <3>1 DEF BindingKept
  <2>2. QED
    BY <1>6, <2>1
<1>7. CASE merged # base.intent
  <2>1. /\ ~(overlay.intent = None /\ patch = None)
        /\ merged = [policy_binding |-> binding, budget |-> budget, allowed_tools |-> tools]
    BY <1>7 DEF merge_intent
  <2>2. binding \in BindingType(Labels) \union {None} /\ BindingKept(b, binding)
    <3>1. binding_denials(b, o, p) = {}
      BY <2>1 DEF intent_denials
    <3>2. QED
      BY <1>2, <3>1, BindingMerged
  <2>3. budget \in BudgetType \union {None}
    <3>1. /\ part(base.intent, "budget") \in BudgetType \union {None}
          /\ part(overlay.intent, "budget") \in BudgetType \union {None}
          /\ part(patch, "budget") \in BudgetType \union {None}
      BY <1>1 DEF part, IntentType
    <3>2. ASSUME NEW x \in BudgetType \union {None}, NEW y \in BudgetType \union {None},
                 NEW z \in BudgetType \union {None}
          PROVE  merge_budget(x, y, z) \in BudgetType \union {None}
      BY DEF merge_budget, later, part, first_of, BudgetType, Label, Cents
    <3>3. QED
      BY <3>1, <3>2
  <2>4. tools \in SUBSET (Tools \union Labels)
    BY <1>3 DEF intersect_allowed_tools
  <2> HIDE DEF merged, binding, budget, tools, b, o, p, owned, tenant, patch
  <2>5. merged \in IntentType(Labels) /\ merged.policy_binding = binding /\ merged.allowed_tools = tools
    BY <2>1, <2>2, <2>3, <2>4 DEF IntentType
  <2>6. merged # None
    BY <2>5, NoneAssumption
  <2>7. allowed(merged) = tools /\ part(merged, "policy_binding") = binding
    BY <2>5, <2>6 DEF allowed, part
  <2>8. QED
    BY <1>5, <2>2, <2>7 DEF owned, b, merged
<1>8. QED
  BY <1>6, <1>7

(* Layers that no rule denies.                                             *)
LEMMA MergeKeeps ==
  ASSUME org \in DocumentType, document \in DocumentType, NEW approved,
         parse_policy_document(org), parse_policy_document(document),
         effective = merge_paybond_policies(org, document, approved)
  PROVE  OverlayNeverLoosens
<1> SUFFICES ASSUME InForce
             PROVE  /\ \A t \in declared_tools(org.tools) : ToolKept(org.tools[t], effective.tools[t])
                    /\ \A t \in declared_tools(effective.tools) : parse_tool_entry(effective.tools[t])
                    /\ org.default_deny => effective.default_deny
                    /\ org.adapter = TRUE => effective.adapter = TRUE
                    /\ allowed(org.intent) # {} =>
                         /\ allowed(effective.intent) # {}
                         /\ allowed(effective.intent) \subseteq allowed(org.intent)
                    /\ BindingKept(part(org.intent, "policy_binding"),
                                   part(effective.intent, "policy_binding"))
  BY DEF OverlayNeverLoosens
<1>1. is_policy_overlay(document) /\ denials(org, document, approved) = {}
  BY DEF InForce, merge_paybond_policies
<1>2. /\ effective.default_deny =
           merge_stricter_default_deny(
             {org.default_deny, document.default_deny, document.overrides.default_deny})
      /\ effective.tools = merge_tools(org, document)
      /\ effective.intent = merge_intent(org, document)
      /\ effective.adapter = merge_adapter_section(org, document)
  BY <1>1 DEF merge_paybond_policies
<1>3. tools_denials(org, document) = {} /\ intent_denials(org, document) = {}
  BY <1>1 DEF denials
<1>4. org.default_deny \in BOOLEAN
  BY DEF DocumentType
<1>5. org.default_deny => effective.default_deny
  BY <1>2, <1>4 DEF merge_stricter_default_deny
<1>6. org.adapter = TRUE => effective.adapter = TRUE
  BY <1>2, NoneAssumption DEF merge_adapter_section, adapter_layers, merge_stricter_default_deny
<1>7. QED
  BY <1>1, <1>2, <1>3, <1>5, <1>6, ToolsKept, IntentKept

(* What has been loaded, and from what.                                    *)
Loaded ==
  /\ org \in DocumentType /\ document \in DocumentType
  /\ \/ effective = None
     \/ effective = load_policy(document, org)
     \/ \E approved : effective = merge_local(org, document, approved)

LEMMA LoadedKeeps == Loaded => OverlayNeverLoosens
<1> SUFFICES ASSUME Loaded, InForce
             PROVE  OverlayNeverLoosens
  BY DEF OverlayNeverLoosens
<1>1. CASE effective = load_policy(document, org)
  BY <1>1, MergeKeeps
  DEF Loaded, InForce, load_policy, resolve_effective_document, to_effective_policy_document
<1>2. CASE \E approved : effective = merge_local(org, document, approved)
  BY <1>2, MergeKeeps DEF Loaded, InForce, merge_local
<1>3. QED
  BY <1>1, <1>2 DEF Loaded, InForce

(* A tenant's overlay leaves no restriction of the org weaker.             *)
THEOREM NeverLoosened == LayersSpec => []OverlayNeverLoosens
<1>1. LayersInit => Loaded
  BY DEF LayersInit, Loaded
<1>2. Loaded /\ [LayersNext]_layerVars => Loaded'
  BY DEF Loaded, LayersNext, LoadPolicy, MergeLocal, layerVars
<1>3. QED
  BY <1>1, <1>2, LoadedKeeps, PTL DEF LayersSpec
=============================================================================
