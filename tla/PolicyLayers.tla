---------------------------- MODULE PolicyLayers ----------------------------
(***************************************************************************)
(* An org base and a document that may be laid over it, loaded once.       *)
(***************************************************************************)
EXTENDS PolicyMerge

CONSTANT
  Approvals   \* the lists of approved presets merge_local may be given

VARIABLES
  org,        \* the document in the file of the base
  document,   \* the document that is loaded, None where there is none to load
  effective   \* None, Refused, or the policy in force

layerVars == <<org, document, effective>>

(* PaybondPolicy.load, and merge_local with a list of approved presets.    *)
LoadPolicy ==
  /\ document # None /\ effective = None
  /\ effective' = load_policy(document, org)
  /\ UNCHANGED <<org, document>>

MergeLocal(approved) ==
  /\ document # None /\ effective = None
  /\ effective' = merge_local(org, document, approved)
  /\ UNCHANGED <<org, document>>

LayersNext == LoadPolicy \/ \E approved \in Approvals : MergeLocal(approved)

LayersInit ==
  /\ org \in DocumentType /\ document \in DocumentType
  /\ effective = None

LayersSpec == LayersInit /\ [][LayersNext]_layerVars

-----------------------------------------------------------------------------
ToolKept(old, new) ==
  /\ new # None
  /\ old.side_effecting => new.side_effecting /\ new.evidence_preset # None
  /\ old.max_spend_cents # None =>
       /\ new.spend_from_args = None
       /\ new.max_spend_cents \in 0..old.max_spend_cents

BindingKept(old, new) ==
  old # None =>
    /\ new # None
    /\ new.template_id = old.template_id
    /\ old.version_seq # None => new.version_seq >= old.version_seq
    /\ old.head_digest # None => new.head_digest = old.head_digest

InForce == effective \notin {None, Refused} /\ is_policy_overlay(document)

(***************************************************************************)
(* A tenant's overlay, however its tools, overrides and intent sections    *)
(* combine, leaves no restriction of the org weaker: the org's tools,      *)
(* their spend caps, default_deny, the adapter switch, the allowed tools   *)
(* and the template pin all hold in the merged policy, which the loader of *)
(* a flat policy would accept.  Of evidence it says that a side-effecting  *)
(* tool of the org has some preset, which may be another than the org's;   *)
(* of the budget cap it says nothing (OrgBudgetKept).                      *)
(***************************************************************************)
OverlayNeverLoosens ==
  InForce =>
    /\ \A t \in declared_tools(org.tools) : ToolKept(org.tools[t], effective.tools[t])
    /\ \A t \in declared_tools(effective.tools) : parse_tool_entry(effective.tools[t])
    /\ org.default_deny => effective.default_deny
    /\ org.adapter = TRUE => effective.adapter = TRUE
    /\ allowed(org.intent) # {} =>
         allowed(effective.intent) # {} /\ allowed(effective.intent) \subseteq allowed(org.intent)
    /\ BindingKept(part(org.intent, "policy_binding"), part(effective.intent, "policy_binding"))

(***************************************************************************)
(* "tenant max_spend_usd (...) exceeds org cap (...)": a tenant layer that *)
(* raises the org's budget cap is denied, so the cap in force is never     *)
(* above it.                                                               *)
(***************************************************************************)
OrgBudgetKept ==
  LET cap == part(part(org.intent, "budget"), "max_spend_usd") IN
  InForce /\ cap # None => part(part(effective.intent, "budget"), "max_spend_usd") \in 0..cap
=============================================================================
