--------------------------- MODULE PolicyDocument ---------------------------
(***************************************************************************)
(* A policy document (policy/schema.py), the registry built from it        *)
(* (policy/registry.py), its local validation (policy/validate.py), and    *)
(* the two questions a reload asks about it (policy/reload.py): does it    *)
(* loosen the previous one, and does it reach outside the bound intent.    *)
(***************************************************************************)
EXTENDS ToolRegistry

CONSTANTS
  Strict   \* PAYBOND_POLICY_STRICT

(* Of the catalog references of an entry only their standing matters.      *)
ToolEntry ==
  [side_effecting : BOOLEAN, operation : Operations \union {None},
   max_spend_cents : SpendCents, evidence_preset : {"absent", "known", "unknown"},
   vendor_pack : {"absent", "known", "unknown"}]

DocumentType ==
  [default_deny : BOOLEAN, tools : [Tools -> ToolEntry \union {None}],
   allowed_tools : SUBSET Operations]

ASSUME StrictAssumption == Strict \in BOOLEAN

declared(doc) == {t \in Tools : doc.tools[t] # None}

side_effecting(doc) == {t \in declared(doc) : doc.tools[t].side_effecting}

entry_operation(doc, t) ==
  IF doc.tools[t].operation # None THEN doc.tools[t].operation ELSE t

policy_to_tool_registry(doc) ==
  [default_deny   |-> doc.default_deny,
   side_effecting |-> [t \in Tools |->
     IF t \in side_effecting(doc)
     THEN [operation |-> entry_operation(doc, t), spend_cents |-> doc.tools[t].max_spend_cents]
     ELSE None]]

(* to_tool_registry raises unless every side-effecting tool has a known    *)
(* preset and an operation of its own.                                     *)
loadable(doc) ==
  /\ \A t \in side_effecting(doc) : doc.tools[t].evidence_preset = "known"
  /\ normalized(policy_to_tool_registry(doc))

(* Every reference is in the catalog, a side-effecting tool has a preset,  *)
(* and the intent names declared tools, with strict all side-effecting     *)
(* ones.                                                                   *)
validate_document(doc) ==
  /\ \A t \in declared(doc) :
       /\ doc.tools[t].evidence_preset # "unknown"
       /\ doc.tools[t].vendor_pack # "unknown"
  /\ \A t \in side_effecting(doc) : doc.tools[t].evidence_preset # "absent"
  /\ doc.allowed_tools \subseteq declared(doc)
  /\ Strict /\ doc.default_deny /\ doc.allowed_tools # {} =>
       side_effecting(doc) \subseteq doc.allowed_tools

(* The tools for which the next document is looser, with the tool None     *)
(* standing for a relaxed default_deny.                                    *)
detect_policy_loosening(previous, next) ==
  {t \in declared(next) :
     \/ t \notin declared(previous) /\ next.tools[t].side_effecting
     \/ /\ t \in declared(previous)
        /\ \/ /\ previous.tools[t].max_spend_cents # None
              /\ \/ next.tools[t].max_spend_cents = None
                 \/ next.tools[t].max_spend_cents > previous.tools[t].max_spend_cents
           \/ ~previous.tools[t].side_effecting /\ next.tools[t].side_effecting}
  \union {x \in {None} : previous.default_deny /\ ~next.default_deny}

(* A run bound without allowed tools skips the question. *)
requires_intent_rebind(doc) ==
  /\ AllowedTools # {}
  /\ \/ ~(doc.allowed_tools \subseteq AllowedTools)
     \/ \E t \in side_effecting(doc) : entry_operation(doc, t) \notin AllowedTools
=============================================================================
