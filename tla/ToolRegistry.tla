---------------------------- MODULE ToolRegistry ----------------------------
(***************************************************************************)
(* The tool registry of agent/registry.py: how a tool name becomes         *)
(* "passthrough", "denied" or a side-effecting call with an operation and  *)
(* a spend, and what a registry must satisfy to be bound to an intent.     *)
(***************************************************************************)
EXTENDS Integers

CONSTANTS
  None,          \* Python's None
  Tools,         \* tool names
  Operations,    \* operation labels; an unregistered tool's is its name
  AllowedTools   \* operations the bound intent allows

SpendCents == Nat \union {None}

SideEffectingEntry == [operation : Operations, spend_cents : SpendCents]

Registries ==
  [default_deny : BOOLEAN, side_effecting : [Tools -> SideEffectingEntry \union {None}]]

ASSUME ToolsAssumption == Tools \subseteq Operations
ASSUME AllowedAssumption == AllowedTools \subseteq Operations
ASSUME NoneAssumption == None \notin Operations

-----------------------------------------------------------------------------
is_side_effecting(reg, tool) == reg.side_effecting[tool] # None

(* Each operation belongs to one side-effecting tool. *)
normalized(reg) ==
  \A t, u \in Tools :
    /\ is_side_effecting(reg, t)
    /\ is_side_effecting(reg, u)
    /\ reg.side_effecting[t].operation = reg.side_effecting[u].operation
    => t = u

resolve_operation(reg, tool) ==
  IF is_side_effecting(reg, tool) THEN reg.side_effecting[tool].operation ELSE tool

resolve_spend_cents(reg, tool) ==
  IF is_side_effecting(reg, tool) THEN reg.side_effecting[tool].spend_cents ELSE None

resolve_tool(reg, tool) ==
  CASE is_side_effecting(reg, tool) -> "side_effecting"
    [] ~is_side_effecting(reg, tool) /\ reg.default_deny
       /\ resolve_operation(reg, tool) \in AllowedTools -> "denied"
    [] OTHER -> "passthrough"

(* What bind and reload require of a registry. *)
validate_for_bind(reg) ==
  reg.default_deny =>
    \A op \in AllowedTools : \E t \in Tools :
      is_side_effecting(reg, t) /\ reg.side_effecting[t].operation = op
=============================================================================
