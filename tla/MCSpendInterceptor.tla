------------------------- MODULE MCSpendInterceptor -------------------------
(* Small instances of SpendInterceptor for TLC. *)
EXTENDS SpendInterceptor, TLC

CONSTANTS c1, c2, c3, g1, g2, g3

(* hotel_api is registered for operation "book"; a tool named like that    *)
(* operation is not registered; search is no paid tool.                    *)
MCTools == {"hotel_api", "book", "search"}
MCOperations == MCTools \union {"other"}
MCAllowed == {"book"}

Entry(spend) == [operation |-> "book", spend_cents |-> spend]
Reg(deny, spend) ==
  [default_deny |-> deny,
   side_effecting |-> [t \in MCTools |-> IF t = "hotel_api" THEN Entry(spend) ELSE None]]

(* p1 and p2 price the tool differently, p2 also denies by default.  Under *)
(* a sandbox cap of 1 both give a call the same shape, so that a cached    *)
(* authorization survives the reload.                                      *)
MCPolicies == {"p1", "p2"}
MCRegistry == [p \in MCPolicies |-> IF p = "p1" THEN Reg(FALSE, 2) ELSE Reg(TRUE, 1)]
MCDigest == [p \in MCPolicies |-> p]

Request(tool, op, spend) ==
  [tool_name |-> tool, tool_call_id |-> "t1", operation |-> op, requested_spend_cents |-> spend]

PaidRequest == Request("hotel_api", None, None)

(* The paid tool with the policy's spend or its own, an operation outside  *)
(* the intent, an unregistered tool, and a read-only one.                  *)
MCRequests ==
  {PaidRequest, Request("hotel_api", None, 1), Request("hotel_api", "other", None),
   Request("book", None, None), Request("search", None, None)}
MCOnlyPaid == {PaidRequest}

CallSymmetry == Permutations(Calls) \union Permutations(Grants)
=============================================================================
