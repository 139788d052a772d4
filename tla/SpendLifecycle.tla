--------------------------- MODULE SpendLifecycle ---------------------------
(***************************************************************************)
(* What the spend middleware promises for each allow answer of Harbor,     *)
(* whatever the number of concurrent calls, caches and faults behind it,   *)
(* and whatever copies of its completions arrive late: a grant backs at    *)
(* most one handler run; nothing is reported for a grant whose handler has *)
(* not ended by itself; "consumed" is reported only for a handler that     *)
(* returned; a receipt is given only for a reservation reported consumed   *)
(* and nothing else, and no report contradicts it afterwards.              *)
(* Nothing is promised of the order of "consumed" and "released": Harbor   *)
(* may hear both, in either order, of a handler that returned.             *)
(***************************************************************************)
CONSTANT Grants

VARIABLES
  phase,     \* the life of each grant
  reported,  \* completion outcomes Harbor has received for it
  certified  \* the grants a receipt was given for

vars == <<phase, reported, certified>>

Ended == {"returned", "raised", "cancelled"}
Phases == {"free", "granted", "running"} \union Ended

TypeOK ==
  /\ phase \in [Grants -> Phases]
  /\ reported \in [Grants -> SUBSET {"consumed", "released"}]
  /\ certified \subseteq Grants

Init ==
  /\ phase = [g \in Grants |-> "free"]
  /\ reported = [g \in Grants |-> {}]
  /\ certified = {}

Move(g, from, to) ==
  /\ phase[g] = from
  /\ phase' = [phase EXCEPT ![g] = to]
  /\ UNCHANGED <<reported, certified>>

Allow(g) == Move(g, "free", "granted")
Start(g) == Move(g, "granted", "running")
End(g) == \E end \in Ended : Move(g, "running", end)

Report(g, outcome) ==
  /\ reported' = [reported EXCEPT ![g] = @ \union {outcome}]
  /\ UNCHANGED <<phase, certified>>

Consume(g) == phase[g] = "returned" /\ Report(g, "consumed")

Release(g) ==
  /\ phase[g] \in {"returned", "raised"}
  /\ g \notin certified
  /\ Report(g, "released")

Certify(g) ==
  /\ phase[g] = "returned"
  /\ reported[g] = {"consumed"}
  /\ certified' = certified \union {g}
  /\ UNCHANGED <<phase, reported>>

Next ==
  \E g \in Grants :
    Allow(g) \/ Start(g) \/ End(g) \/ Consume(g) \/ Release(g) \/ Certify(g)

Spec == Init /\ [][Next]_vars
=============================================================================
