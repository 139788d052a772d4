----------------------------- MODULE MCDocuments -----------------------------
(***************************************************************************)
(* The documents the kit judges on its own: a behaviour is either a policy *)
(* loaded with its layers or a signed document handed out and verified.    *)
(* The layers are enumerated one concern at a time, since the merge treats *)
(* tools, binding, budget, allowed tools and switches apart.               *)
(***************************************************************************)
EXTENDS PolicyLayers, SignedDocuments

CONSTANTS t1, t2, preset1, preset2, Concerns, SubjectsChecked

(* Two faults where the order or the combination can matter. *)
MCMaxFaults == [s \in Subjects |-> IF s \in {"chain", "inclusion"} THEN 2 ELSE 1]

-----------------------------------------------------------------------------
Entry(side_effecting, cap, args, preset) ==
  [side_effecting |-> side_effecting, max_spend_cents |-> cap, spend_from_args |-> args,
   evidence_preset |-> preset, vendor_pack |-> None, operation |-> None]

OneTool(entry) == [NoTools EXCEPT ![t1] = entry]

Plain == OneTool(Entry(FALSE, None, None, None))

Flat == [version |-> 1, default_deny |-> FALSE, tools |-> Plain, intent |-> None, adapter |-> None,
         extends |-> None, overrides |-> NoOverrides]

Overlay == [Flat EXCEPT !.version = 2, !.tools = NoTools, !.extends = "base_policy"]

Overridden(field, value) == [Overlay EXCEPT !.overrides[field] = value]

SpendFields == {<<None, None>>, <<1, None>>, <<2, None>>, <<None, "amount">>, <<2, "amount">>}

Entries == {Entry(s, f[1], f[2], p) : s \in BOOLEAN, f \in SpendFields, p \in {None, preset1}}

Patches == {Entry(s, f[1], f[2], p) : s \in {TRUE, FALSE, None}, f \in SpendFields,
                                      p \in {None, preset1, preset2}}

OwnTools == {NoTools, OneTool(Entry(FALSE, None, None, None)),
             [NoTools EXCEPT ![t2] = Entry(TRUE, 2, None, preset2)]}

ToolLayers ==
  {<<[Flat EXCEPT !.tools = OneTool(e)], [Overridden("tools", tools) EXCEPT !.tools = own]>> :
     e \in Entries, own \in OwnTools,
     tools \in {NoTools} \union {OneTool(p) : p \in Patches}
               \union {[NoTools EXCEPT ![t2] = Entry(FALSE, None, None, None)]}}

Section(binding, budget, tools) ==
  [policy_binding |-> binding, budget |-> budget, allowed_tools |-> tools]

(* The org base, the overlay's own section and its override, each present  *)
(* or not.                                                                 *)
IntentLayers(base, own, patch) ==
  {<<[Flat EXCEPT !.version = 2, !.intent = b],
     [Overridden("intent", p) EXCEPT !.intent = o]>> :
       b \in base \union {None}, o \in own \union {None}, p \in patch \union {None}}

Binding(template_id, version_seq, head_digest) ==
  [template_id |-> template_id, version_seq |-> version_seq, head_digest |-> head_digest]

Bindings(templates) ==
  {Section(Binding(t, v, h), None, {}) : t \in templates, v \in {None, 1, 2}, h \in {None, "head1", "head2"}}

BindingLayers ==
  IntentLayers(Bindings({"template1"}), Bindings({"template1", "template2"}), Bindings({None, "template2"}))

Budgets == {Section(None, [currency |-> "usd", max_spend_usd |-> m], {}) : m \in {None, 1, 2}}

BudgetLayers == IntentLayers(Budgets, Budgets, Budgets)

Allowances == {Section(None, None, s) : s \in SUBSET Tools}

AllowedLayers == IntentLayers(Allowances, Allowances, Allowances)

SwitchLayers ==
  {<<[Flat EXCEPT !.default_deny = d, !.adapter = a],
     [Overlay EXCEPT !.default_deny = e, !.adapter = b,
                     !.overrides = [NoOverrides EXCEPT !.default_deny = f, !.adapter = c]]>> :
       d, e \in BOOLEAN, f \in {TRUE, FALSE, None}, a, b, c \in {TRUE, FALSE, None}}

(* Documents that are not an overlay of a file. *)
Alone ==
  {<<Flat, [Flat EXCEPT !.version = v, !.tools = t, !.extends = e]>> :
     v \in {1, 2}, t \in {NoTools, Plain}, e \in {None, "org_policy"}}

Layers(concern) ==
  CASE concern = "tools" -> ToolLayers
    [] concern = "binding" -> BindingLayers
    [] concern = "budget" -> BudgetLayers
    [] concern = "allowed" -> AllowedLayers
    [] concern = "switches" -> SwitchLayers
    [] concern = "alone" -> {l \in Alone : l[2].version = 2 \/ l[2].extends = None}

-----------------------------------------------------------------------------
NoDocument ==
  /\ subject = None /\ options = None /\ genuine = None /\ held = None
  /\ faults = 0 /\ verdict = None

PolicyInit ==
  /\ \E concern \in Concerns : \E layers \in Layers(concern) :
       org = layers[1] /\ document = layers[2]
  /\ LayersInit
  /\ NoDocument

SignedInit ==
  /\ org = None /\ document = None /\ effective = None
  /\ subject \in SubjectsChecked
  /\ DocInit

MCInit == PolicyInit \/ SignedInit

MCNext ==
  \/ /\ LayersNext
     /\ UNCHANGED docVars
  \/ /\ DocNext
     /\ UNCHANGED layerVars

MCSpec == MCInit /\ [][MCNext]_<<layerVars, docVars>>
=============================================================================
