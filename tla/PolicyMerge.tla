---------------------------- MODULE PolicyMerge ----------------------------
(***************************************************************************)
(* Policy documents in layers: what the parser of policy/schema.py accepts *)
(* and how policy/merge.py lays a tenant overlay over an org base.  A key  *)
(* that is absent is None; an empty allowed_tools is the empty set.        *)
(***************************************************************************)
EXTENDS Integers, FiniteSets, Optional

CONSTANTS
  Refused,    \* PaybondPolicyValidationError instead of a document
  Tools,      \* the tool names of the documents
  Labels      \* the other strings in them: presets, packs, operations, templates, digests

(* What the type checks of the parser (_expect_int and its like) leave.    *)
Cents == Nat \union {None}
Label == Labels \union {None}
Switch == BOOLEAN \union {None}

EntryType(flags) ==
  [side_effecting : flags, max_spend_cents : Cents, spend_from_args : Label,
   evidence_preset : Label, vendor_pack : Label, operation : Label]

BindingType(templates) ==
  [template_id : templates, version_seq : Cents, head_digest : Label]

BudgetType == [currency : Label, max_spend_usd : Cents]

IntentType(templates) ==
  [policy_binding : BindingType(templates) \union {None}, budget : BudgetType \union {None},
   allowed_tools : SUBSET (Tools \union Labels)]

OverridesType ==
  [default_deny : Switch, tools : [Tools -> EntryType(Switch) \union {None}],
   intent : IntentType(Label) \union {None}, adapter : Switch]

(* A binding of a document names its template, one of an override need not. *)
DocumentType ==
  [version : {1, 2}, default_deny : BOOLEAN, tools : [Tools -> EntryType(BOOLEAN) \union {None}],
   intent : IntentType(Labels) \union {None}, adapter : Switch,
   extends : {None, "base_policy", "org_policy"}, overrides : OverridesType]

ASSUME NoneAssumption ==
  None \notin Nat \union BOOLEAN \union Labels \union EntryType(BOOLEAN) \union BindingType(Labels)
             \union IntentType(Labels)

NoTools == [t \in Tools |-> None]

NoOverrides == [default_deny |-> None, tools |-> NoTools, intent |-> None, adapter |-> None]

declared_tools(tools) == {t \in Tools : tools[t] # None}

(***************************************************************************)
(* Parsing.                                                                *)
(***************************************************************************)
one_spend_field(e) == e.max_spend_cents = None \/ e.spend_from_args = None

parse_tool_entry(e) ==
  one_spend_field(e) /\ (e.side_effecting => e.evidence_preset # None)

(* An override that makes a tool side-effecting names the preset itself,   *)
(* whatever the org entry says.                                            *)
parse_tool_override_entry(e) ==
  /\ one_spend_field(e)
  /\ e.side_effecting = TRUE => e.evidence_preset # None
  /\ \E field \in DOMAIN e : e[field] # None

parse_binding_override(b) == \E field \in DOMAIN b : b[field] # None

parse_intent_override(i) ==
  /\ i.policy_binding # None \/ i.budget # None \/ i.allowed_tools # {}
  /\ i.policy_binding # None => parse_binding_override(i.policy_binding)

parse_tools_map(tools, min_entries) ==
  /\ Cardinality(declared_tools(tools)) >= min_entries
  /\ \A t \in declared_tools(tools) : parse_tool_entry(tools[t])

parse_overrides(o) ==
  /\ \A t \in declared_tools(o.tools) : parse_tool_override_entry(o.tools[t])
  /\ o.intent # None => parse_intent_override(o.intent)

parse_policy_document_v1(doc) == parse_tools_map(doc.tools, 1)

parse_policy_document_v2(doc) ==
  /\ parse_tools_map(doc.tools, IF doc.extends # None THEN 0 ELSE 1)
  /\ parse_overrides(doc.overrides)

parse_policy_document(doc) ==
  IF doc.version = 1 THEN parse_policy_document_v1(doc) ELSE parse_policy_document_v2(doc)

is_policy_overlay(doc) == doc.version = 2 /\ doc.extends # None

(***************************************************************************)
(* One tool: the fields of the override that tighten it are applied, the   *)
(* others are denied.                                                      *)
(***************************************************************************)
disables(base, patch) == base.side_effecting /\ patch.side_effecting = FALSE

raises_cap(base, patch) ==
  /\ base.max_spend_cents # None /\ patch.max_spend_cents # None
  /\ patch.max_spend_cents > base.max_spend_cents

(* Faulty variant of replaces_cap: a cap may be traded for an argument.   *)
TradesCap(base, patch) == FALSE

replaces_cap(base, patch) == base.max_spend_cents # None /\ patch.spend_from_args # None

merged_tool(base, patch) ==
  LET spend ==
        IF patch.max_spend_cents # None /\ ~raises_cap(base, patch)
        THEN <<patch.max_spend_cents, None>>
        ELSE IF patch.spend_from_args # None /\ ~replaces_cap(base, patch)
        THEN <<None, patch.spend_from_args>>
        ELSE <<base.max_spend_cents, base.spend_from_args>>
  IN [side_effecting  |-> IF patch.side_effecting = None \/ disables(base, patch)
                          THEN base.side_effecting ELSE patch.side_effecting,
      max_spend_cents |-> spend[1],
      spend_from_args |-> spend[2],
      evidence_preset |-> first_of(patch.evidence_preset, base.evidence_preset),
      vendor_pack     |-> first_of(patch.vendor_pack, base.vendor_pack),
      operation       |-> first_of(patch.operation, base.operation)]

merge_tool_denials(base, patch) ==
  LET merged == merged_tool(base, patch) IN
  {d \in {"disable", "raise_cap", "spend_mode", "missing_preset", "conflicting_spend"} :
     \/ d = "disable" /\ disables(base, patch)
     \/ d = "raise_cap" /\ raises_cap(base, patch)
     \/ d = "spend_mode" /\ replaces_cap(base, patch)
     \/ d = "missing_preset" /\ merged.side_effecting /\ merged.evidence_preset = None
     \/ d = "conflicting_spend" /\ ~one_spend_field(merged)}

(* Overrides change org tools; the overlay's own tools may only be new.    *)
merge_tools(base, overlay) ==
  [t \in Tools |->
     IF base.tools[t] = None THEN overlay.tools[t]
     ELSE IF overlay.overrides.tools[t] = None THEN base.tools[t]
     ELSE merged_tool(base.tools[t], overlay.overrides.tools[t])]

tools_denials(base, overlay) ==
  LET org == declared_tools(base.tools)
      patched == declared_tools(overlay.overrides.tools)
  IN (UNION {merge_tool_denials(base.tools[t], overlay.overrides.tools[t]) : t \in org \intersect patched})
     \union {"unknown_tool" : t \in patched \ org}
     \union {"replace_tool" : t \in org \intersect declared_tools(overlay.tools)}

(***************************************************************************)
(* The intent section: template binding, budget, allowed tools.  base,     *)
(* overlay and override are sections or None.                              *)
(***************************************************************************)
part(section, field) == IF section = None THEN None ELSE section[field]

allowed(section) == IF section = None THEN {} ELSE section.allowed_tools

later(base, overlay, override, field) ==
  first_of(part(override, field), first_of(part(overlay, field), part(base, field)))

merge_policy_binding(base, overlay, override) ==
  IF later(base, overlay, override, "template_id") = None THEN None
  ELSE [template_id |-> later(base, overlay, override, "template_id"),
        version_seq |-> later(base, overlay, override, "version_seq"),
        head_digest |-> later(base, overlay, override, "head_digest")]

binding_denials(base, overlay, override) ==
  LET merged == merge_policy_binding(base, overlay, override) IN
  {d \in {"template", "version", "head"} :
     /\ base # None /\ merged # None
     /\ \/ d = "template" /\ merged.template_id # base.template_id
        \/ /\ d = "version" /\ base.version_seq # None
           /\ merged.version_seq < base.version_seq
        \/ /\ d = "head" /\ base.head_digest # None
           /\ merged.head_digest # base.head_digest}

merge_budget(base, overlay, override) ==
  IF base = None /\ overlay = None /\ override = None THEN None
  ELSE [currency |-> later(base, overlay, override, "currency"),
        max_spend_usd |-> later(base, overlay, override, "max_spend_usd")]

(* Of the two tenant layers only the last that has a budget is asked for   *)
(* its cap.                                                                *)
budget_denials(base, overlay, override) ==
  LET org_max == part(base, "max_spend_usd")
      tenant_max == part(first_of(override, overlay), "max_spend_usd")
  IN IF org_max # None /\ tenant_max # None /\ tenant_max > org_max THEN {"raise_budget"} ELSE {}

tenant_allowed(overlay) ==
  IF allowed(overlay.overrides.intent) # {} THEN allowed(overlay.overrides.intent)
  ELSE allowed(overlay.intent)

intersect_allowed_tools(org, tenant) ==
  IF tenant = {} THEN org ELSE IF org = {} THEN tenant ELSE tenant \intersect org

allowed_denials(org, tenant) ==
  IF org # {} /\ tenant \ org # {} THEN {"widen_allowed_tools"} ELSE {}

merge_intent(base, overlay) ==
  LET patch == overlay.overrides.intent
      merged_allowed == intersect_allowed_tools(allowed(base.intent), tenant_allowed(overlay))
      binding == merge_policy_binding(part(base.intent, "policy_binding"),
                   part(overlay.intent, "policy_binding"), part(patch, "policy_binding"))
      budget == merge_budget(part(base.intent, "budget"), part(overlay.intent, "budget"),
                   part(patch, "budget"))
  IN IF overlay.intent = None /\ patch = None THEN base.intent
     ELSE IF binding = None /\ budget = None /\ merged_allowed = {} THEN base.intent
     ELSE [policy_binding |-> binding, budget |-> budget, allowed_tools |-> merged_allowed]

intent_denials(base, overlay) ==
  LET patch == overlay.overrides.intent IN
  allowed_denials(allowed(base.intent), tenant_allowed(overlay))
  \union
  (IF overlay.intent = None /\ patch = None THEN {}
   ELSE binding_denials(part(base.intent, "policy_binding"),
          part(overlay.intent, "policy_binding"), part(patch, "policy_binding"))
        \union
        budget_denials(part(base.intent, "budget"), part(overlay.intent, "budget"),
          part(patch, "budget")))

(***************************************************************************)
(* The two switches: the stricter value wins, and the adapter's may not be *)
(* relaxed at all.                                                         *)
(***************************************************************************)
merge_stricter_default_deny(values) == TRUE \in values

adapter_layers(base, overlay) == {base.adapter, overlay.adapter, overlay.overrides.adapter}

merge_adapter_section(base, overlay) ==
  IF adapter_layers(base, overlay) = {None} THEN None
  ELSE merge_stricter_default_deny(adapter_layers(base, overlay))

adapter_denials(base, overlay) ==
  IF base.adapter = TRUE /\ FALSE \in {overlay.adapter, overlay.overrides.adapter}
  THEN {"relax_adapter"} ELSE {}

(* With an approved list, an org preset may only be changed to a member.   *)
preset_denials(base, tools, approved) ==
  {"preset_not_approved" : t \in
     {u \in declared_tools(tools) \intersect declared_tools(base.tools) :
        /\ approved # {} /\ tools[u].side_effecting
        /\ base.tools[u].evidence_preset # None
        /\ tools[u].evidence_preset \notin {None, base.tools[u].evidence_preset} \union approved}}

base_document_to_effective(doc) ==
  [default_deny |-> doc.default_deny, tools |-> doc.tools, intent |-> doc.intent,
   adapter |-> doc.adapter]

denials(base, overlay, approved) ==
  tools_denials(base, overlay) \union intent_denials(base, overlay)
  \union adapter_denials(base, overlay)
  \union preset_denials(base, merge_tools(base, overlay), approved)

merge_paybond_policies(base, overlay, approved) ==
  IF ~is_policy_overlay(overlay) \/ denials(base, overlay, approved) # {} THEN Refused
  ELSE [default_deny |-> merge_stricter_default_deny(
                           {base.default_deny, overlay.default_deny, overlay.overrides.default_deny}),
        tools        |-> merge_tools(base, overlay),
        intent       |-> merge_intent(base, overlay),
        adapter      |-> merge_adapter_section(base, overlay)]

to_effective_policy_document(doc) ==
  IF is_policy_overlay(doc) THEN Refused ELSE base_document_to_effective(doc)

(***************************************************************************)
(* PaybondPolicy.load: an overlay that names the file of its base is laid  *)
(* over it.  org is the document in that file.                             *)
(***************************************************************************)
resolve_effective_document(doc, org) ==
  IF is_policy_overlay(doc) /\ doc.extends = "base_policy"
  THEN IF parse_policy_document(org) THEN merge_paybond_policies(org, doc, {}) ELSE Refused
  ELSE to_effective_policy_document(doc)

load_policy(doc, org) ==
  IF parse_policy_document(doc) THEN resolve_effective_document(doc, org) ELSE Refused

merge_local(base, overlay, approved) ==
  IF parse_policy_document(base) /\ parse_policy_document(overlay)
  THEN merge_paybond_policies(base, overlay, approved) ELSE Refused
=============================================================================
