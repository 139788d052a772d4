--------------------------- MODULE MCPolicyReload ---------------------------
(* Small instances of PolicyReload for TLC. *)
EXTENDS PolicyReload

MCTools == {"hotel", "book"}
MCOperations == MCTools \union {"other"}
MCAllowed == {"book"}

Entry(op, cap, preset) ==
  [side_effecting |-> TRUE, operation |-> op, max_spend_cents |-> cap,
   evidence_preset |-> preset, vendor_pack |-> "absent"]

Doc(entry, intent) ==
  [default_deny |-> TRUE,
   tools |-> [t \in MCTools |-> IF t = "hotel" THEN entry ELSE None],
   allowed_tools |-> intent]

(* Three caps of one tool; a document whose tool is outside the intent,    *)
(* one whose intent names a tool it lacks, one without a preset, and one   *)
(* that denies by default and registers nothing.                           *)
MCDocs == {"cap1", "cap2", "cap3", "drift", "invalid", "no_preset", "empty"}
MCDocument ==
  [d \in MCDocs |->
     CASE d = "cap1" -> Doc(Entry("book", 1, "known"), {})
       [] d = "cap2" -> Doc(Entry("book", 2, "known"), {})
       [] d = "cap3" -> Doc(Entry("book", 3, "known"), {})
       [] d = "drift" -> Doc(Entry("other", 1, "known"), {})
       [] d = "invalid" -> Doc(Entry("book", 1, "known"), {"book"})
       [] d = "no_preset" -> Doc(Entry("book", 1, "absent"), {})
       [] d = "empty" -> Doc(None, {})]

(* o1 leaves an overlay as it is, o2 caps it at 2, o3 cannot merge it.     *)
MCOrgs == {"o1", "o2", "o3"}
MCEffective ==
  [o \in MCOrgs |-> [d \in MCDocs |->
     CASE o = "o1" -> d
       [] o = "o2" -> IF d = "cap3" THEN "cap2" ELSE d
       [] o = "o3" -> Broken]]

Local == [remote |-> FALSE, resolve |-> FALSE, allow_loosen |-> FALSE]
Remote == [remote |-> TRUE, resolve |-> TRUE, allow_loosen |-> FALSE]
MCTaskOptions == [x \in Tasks |-> IF x = "watch" THEN Local ELSE Remote]
Loosen == [remote |-> TRUE, resolve |-> FALSE, allow_loosen |-> TRUE]
MCManualOptions == {Local, Loosen}
MCOnlyLocal == {Local}
=============================================================================
