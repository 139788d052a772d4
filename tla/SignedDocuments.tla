-------------------------- MODULE SignedDocuments --------------------------
(***************************************************************************)
(* A signer hands out a document, its holder keeps it and may lose or      *)
(* damage it, and a verifier of the kit judges what is left.  The subject  *)
(* of a behaviour is one kind of document; the receipts of two runs, with  *)
(* their continuity links, are the kind "chain".                           *)
(***************************************************************************)
EXTENDS TransparencyLog

CONSTANTS
  MaxIssued,    \* receipts issued in a chain
  MaxFaults,    \* faults of the holder, by subject
  MaxLeaves     \* leaves of the transparency log

VARIABLES
  subject, options,
  genuine,      \* what the signer handed out
  held,         \* what the holder has
  faults, verdict

ASSUME VerdictAssumption == None \notin {"accepted", "rejected"}

docVars == <<subject, options, genuine, held, faults, verdict>>

Runs == {"run1", "run2"}
Gateway == "gateway key"
Elsewhere == "another key"
Operator == "operator key"

(***************************************************************************)
(* Receipts.                                                               *)
(***************************************************************************)
ReceiptBody(scope, run_id, call, evidence, mandate, continuity) ==
  [scope |-> scope, intent_id |-> "intent", run_id |-> run_id, tool_call_id |-> call,
   receipt_id |-> IF scope = "action" THEN action_receipt_id("intent", call) ELSE terminal_receipt_id("intent"),
   settlement_outcome |-> IF scope = "action" THEN None ELSE "SETTLED",
   mandate |-> mandate,
   attestations |-> IF mandate = None THEN <<>> ELSE <<mandate>>,
   operator_did |-> "operator", evidence |-> evidence, payment_intent_id |-> "intent",
   merchant_payee |-> "payee", continuity |-> continuity]

Receipt(key, body) ==
  [body |-> body, stated |-> Digest(body), key |-> key, sig |-> Signature(key, Digest(body)),
   operator_attestation |-> None]

(* A document of which only the identity matters. *)
Named(name) == [document |-> name]

Prior == Digest(Named("prior receipt"))

Mandate(reference) == [digest |-> Digest(Named("mandate")), reference |-> reference]

GatewayReceipts ==
  {Receipt(Gateway, ReceiptBody(scope, "run1", "call1", evidence, mandate, continuity)) :
     scope \in {"action", "intent_terminal"},
     evidence \in {None, [payee |-> "payee", payee_signed |-> TRUE],
                   [payee |-> "payee", payee_signed |-> FALSE]},
     mandate \in {None, Mandate("ref")},
     continuity \in {None, [run_id |-> "run1", sequence_number |-> 1, prev |-> None],
                     [run_id |-> "run1", sequence_number |-> 2, prev |-> Prior]}}

AlteredBodies(b) ==
  {[b EXCEPT !.scope = "action"], [b EXCEPT !.tool_call_id = "call2"],
   [b EXCEPT !.receipt_id = action_receipt_id("intent", "call2")],
   [b EXCEPT !.intent_id = "intent2"], [b EXCEPT !.payment_intent_id = "intent2"],
   [b EXCEPT !.merchant_payee = "payee2"], [b EXCEPT !.operator_did = "operator2"],
   [b EXCEPT !.mandate = Mandate("ref2")], [b EXCEPT !.attestations = <<>>],
   [b EXCEPT !.settlement_outcome = "SETTLED"],
   [b EXCEPT !.continuity = [run_id |-> "run2", sequence_number |-> 1, prev |-> None]],
   [b EXCEPT !.continuity = [run_id |-> "run1", sequence_number |-> 1, prev |-> Prior]]}

ReceiptOptions ==
  [registry : {None, TRUE, FALSE}, operators : {{}, {Operator}},
   mode : {"gateway", "tenant_registry"}, tier : {"operational", "primary", "attested"},
   keys : {{Gateway}}, prior : {None, Prior}]

(* A document is altered in place, has its digest recomputed, or is signed *)
(* again with a key of the holder's own.                                   *)
Damaged(doc, bodies) ==
  (UNION {{[doc EXCEPT !.body = b], [doc EXCEPT !.body = b, !.stated = Digest(b)],
           [doc EXCEPT !.body = b, !.stated = Digest(b), !.key = Elsewhere,
                       !.sig = Signature(Elsewhere, Digest(b))]} : b \in bodies})
  \union {[doc EXCEPT !.sig = Signature(Elsewhere, doc.stated)]}

DamagedReceipt(r) ==
  Damaged(r, AlteredBodies(r.body))
  \union {[r EXCEPT !.operator_attestation = a] : a \in
            {None} \union {[operator_did |-> "operator", key |-> key, stated |-> r.stated,
                            sig |-> Signature(key, m)] :
                             key \in {Operator, Elsewhere}, m \in {Digest(r.body), Prior}}}

DamagedChain(c) ==
  (UNION {{[c EXCEPT ![i] = d] : d \in Damaged(c[i], {[c[i].body EXCEPT !.merchant_payee = "payee2"]})} :
            i \in DOMAIN c})
  \union {SubSeq(c, 1, i - 1) \o SubSeq(c, i + 1, Len(c)) : i \in DOMAIN c}
  \union {[c EXCEPT ![i] = c[j], ![j] = c[i]] : i, j \in DOMAIN c}
  \union {Append(c, c[i]) : i \in DOMAIN c}

(***************************************************************************)
(* The other documents.                                                    *)
(***************************************************************************)
MandateBodies ==
  [authorization_kind : {"principal", "tenant"}, principal_subject : {None, "principal"},
   allowed_actions : {{}, {"pay"}}, allowed_tools : {{}}, amount_minor : {0, 1},
   default_rail : {"card", "bank"}, allowed_rails : {{"card"}}, expires_at : {1, 2}]

ProtocolBodies ==
  [kind : {"authorization", "settlement"}, tenant_id : {"tenant", "tenant2"},
   authorization_tenant_id : {"tenant"}, allowed_actions : {{"pay"}}, allowed_tools : {{}},
   amount_minor : {0, 1}, receipt_id : {"intent"}, intent_id : {"intent", "intent2"},
   harbor_state : {"released", "funded"}]

ManifestBodies == [job_id : {"job1", "job2"}]

Log(n) == [i \in 1..n |-> Digest([leaf |-> i])]

Proofs ==
  UNION {{InclusionProof(Gateway, "tenant", Log(n), m) : m \in 0..(n - 1)} : n \in 1..MaxLeaves}

DamagedProof(p) ==
  {[p EXCEPT !.message_digest = d, !.leaf_hash = merkle_leaf_hash(d)] :
     d \in {Log(MaxLeaves)[i] : i \in 1..MaxLeaves}}
  \union {[p EXCEPT !.leaf_index = m] : m \in -1..MaxLeaves}
  \union {[p EXCEPT !.tree_size = n] : n \in 0..(MaxLeaves + 1)}
  \union {[p EXCEPT !.tree_size = n, !.tree_head.body.tree_size = n] : n \in 1..MaxLeaves}
  \union {[p EXCEPT !.audit_path = SubSeq(p.audit_path, 1, k)] : k \in 0..Len(p.audit_path)}
  \union {[p EXCEPT !.audit_path = Append(p.audit_path, p.leaf_hash)]}
  \union {[p EXCEPT !.tenant_id = "tenant2"], [p EXCEPT !.root_hash = p.leaf_hash]}

Handed(s) ==
  CASE s = "chain" -> {<<>>}
    [] s = "receipt" -> GatewayReceipts \union
         {attach_operator_attestation_v1(r, "operator", Operator) : r \in GatewayReceipts}
    [] s = "mandate" -> {sign_agent_mandate_v1(Gateway, b) : b \in MandateBodies} \ {None}
    [] s = "protocol" -> {d \in {Signed(Gateway, b) : b \in ProtocolBodies} : verify_protocol_receipt(d)}
    [] s = "x402" -> {[body |-> b, stated |-> None, key |-> Gateway, sig |-> Signature(Gateway, b)] :
                        b \in ManifestBodies}
    [] s = "manifest" -> {Signed(Gateway, b) : b \in ManifestBodies}
    [] s = "pef" -> {pef_frame("receipt1", "provider", 1)}
    [] s = "scitt" -> {scitt_export("receipt1", Digest("receipt1"), Gateway, "issuer")}
    [] s = "inclusion" -> Proofs

Left(s, d) ==
  CASE s = "chain" -> DamagedChain(d)
    [] s = "receipt" -> DamagedReceipt(d)
    [] s = "mandate" -> Damaged(d, MandateBodies)
    [] s = "protocol" -> Damaged(d, ProtocolBodies)
    [] s \in {"x402", "manifest"} -> Damaged(d, ManifestBodies)
    [] s = "pef" -> {[d EXCEPT !.receipt = "receipt2"], [d EXCEPT !.time = 2],
                     [d EXCEPT !.receipt = "receipt2", !.receipt_hash = Digest("receipt2")],
                     pef_frame("receipt2", "provider", 1)}
    [] s = "scitt" -> {[d EXCEPT !.receipt_id = "receipt2"],
                       [d EXCEPT !.receipt_id = "receipt2", !.statement = <<"receipt2", d.digest>>],
                       [d EXCEPT !.receipt_id = "receipt2", !.statement = <<"receipt2", d.digest>>,
                                 !.cose.payload = <<"receipt2", d.digest>>],
                       scitt_export("receipt2", Digest("receipt2"), Elsewhere, "issuer")}
    [] s = "inclusion" -> DamagedProof(d)

Now == {1, 2}

Asked(s) ==
  CASE s = "receipt" -> ReceiptOptions
    [] s = "mandate" -> [now : Now]
    [] OTHER -> {[DefaultOptions EXCEPT !.keys = {Gateway}]}

Accepts(s, d, o) ==
  CASE s = "chain" -> /\ \A i \in DOMAIN d : verify_agent_receipt_v1(d[i], o)
                      /\ verify_continuity_chain(d, Runs)
    [] s = "receipt" -> verify_agent_receipt_v1(d, o)
    [] s = "mandate" -> verify_signed_agent_mandate_v1(d, o.now)
    [] s = "protocol" -> verify_protocol_receipt(d)
    [] s = "x402" -> verify_signed_x402_receipt(d, Gateway)
    [] s = "manifest" -> verify_audit_manifest(d)
    [] s = "pef" -> verify_pef_frame_id(d)
    [] s = "scitt" -> verify_scitt_export(d)
    [] s = "inclusion" -> verify_agent_receipt_inclusion(d, o.keys)

Subjects == {"chain", "receipt", "mandate", "protocol", "x402", "manifest", "pef", "scitt", "inclusion"}

DocInit ==
  /\ subject \in Subjects
  /\ options \in Asked(subject)
  /\ genuine \in Handed(subject)
  /\ held = genuine
  /\ faults = 0
  /\ verdict = None

(* The last receipt of a run, linked or not.                               *)
last_of(run_id) ==
  LET own == {i \in DOMAIN genuine : genuine[i].body.run_id = run_id} IN
  IF own = {} THEN None ELSE genuine[CHOOSE i \in own : \A j \in own : j <= i]

(* A composer links the next receipt of a run to the last one, or leaves   *)
(* the continuity out.                                                     *)
IssueReceipt(run_id, link) ==
  /\ subject = "chain" /\ verdict = None /\ faults = 0
  /\ Len(genuine) < MaxIssued
  /\ LET continuity == IF link THEN continuity_from_prior(run_id, last_of(run_id)) ELSE None
         body == ReceiptBody("action", run_id, <<"call", Len(genuine)>>, None, None, continuity)
     IN genuine' = Append(genuine, Receipt(Gateway, body))
  /\ held' = genuine'
  /\ UNCHANGED <<subject, options, faults, verdict>>

Damage ==
  /\ subject # None /\ verdict = None /\ faults < MaxFaults[subject]
  /\ held' \in Left(subject, held) \ {held}
  /\ faults' = faults + 1
  /\ UNCHANGED <<subject, options, genuine, verdict>>

Verify ==
  /\ subject # None /\ verdict = None
  /\ verdict' = IF Accepts(subject, held, options) THEN "accepted" ELSE "rejected"
  /\ UNCHANGED <<subject, options, genuine, held, faults>>

DocNext ==
  \/ \E run_id \in Runs, link \in BOOLEAN : IssueReceipt(run_id, link)
  \/ Damage
  \/ Verify

DocSpec == DocInit /\ [][DocNext]_docVars

-----------------------------------------------------------------------------
linked_bodies(receipts, run_id) == {receipts[i].body : i \in linked(receipts, run_id)}

(* continuity_from_prior continued a run whose last receipt had none.      *)
LinkedToUnlinked ==
  \E i \in DOMAIN genuine :
    /\ genuine[i].body.continuity # None
    /\ genuine[i].body.continuity.prev # None
    /\ \E j \in DOMAIN genuine : /\ genuine[j].stated = genuine[i].body.continuity.prev
                                 /\ genuine[j].body.continuity = None

(***************************************************************************)
(* verify_agent_receipt_v1 with pinned keys and verify_continuity_chain    *)
(* together accept only the truth: every receipt is one the Gateway        *)
(* issued, and of each run the linked ones are all that were issued up to  *)
(* some point, whatever was lost, swapped, repeated, altered or signed     *)
(* again.  What the Gateway issued is accepted, as long as no link         *)
(* continues a receipt without continuity.                                 *)
(***************************************************************************)
AcceptedIsHistory ==
  subject = "chain" =>
    /\ verdict = "accepted" =>
         /\ {held[i].body : i \in DOMAIN held} \subseteq {genuine[i].body : i \in DOMAIN genuine}
         /\ \A run_id \in Runs : \A i, j \in linked(genuine, run_id) :
              i < j /\ genuine[j].body \in linked_bodies(held, run_id)
                => genuine[i].body \in linked_bodies(held, run_id)
    /\ verdict = "rejected" /\ faults = 0 => LinkedToUnlinked

tier_rank(tier) == CASE tier = "operational" -> 0 [] tier = "primary" -> 1 [] tier = "attested" -> 2

(***************************************************************************)
(* A document that its verifier accepts, and that carries the signer's     *)
(* key, is the one that was signed; a receipt has the validity tier that   *)
(* was asked for, an attested one the countersignature of a registered     *)
(* operator; an included digest is the leaf at the stated index of the log *)
(* as published.  A document that nothing happened to is accepted, unless  *)
(* more is asked of it than it has.                                        *)
(***************************************************************************)
AcceptedIsGenuine ==
  /\ verdict = "accepted" =>
       CASE subject \in {"mandate", "protocol", "x402", "manifest"} ->
              held.key = Gateway => held.body = genuine.body
         [] subject = "receipt" ->
              /\ held.body = genuine.body
              /\ tier_rank(achieved_validity_tier(held, options.operators)) >= tier_rank(options.tier)
              /\ options.tier = "attested" =>
                   held.operator_attestation.sig = Signature(Operator, genuine.stated)
         [] subject = "pef" -> held.frame_id = genuine.frame_id => held = genuine
         [] subject = "scitt" -> held.key = Gateway => held = genuine
         [] subject = "inclusion" ->
              /\ held.tree_size = genuine.tree_size
              /\ held.message_digest = Log(held.tree_size)[held.leaf_index + 1]
         [] OTHER -> TRUE
  /\ verdict = "rejected" /\ faults = 0 =>
       \/ subject = "chain"
       \/ subject = "mandate" /\ genuine.body.expires_at <= options.now
       \/ /\ subject = "receipt"
          /\ options # [DefaultOptions EXCEPT !.keys = {Gateway}, !.operators = options.operators]

-----------------------------------------------------------------------------
(***************************************************************************)
(* The inductive invariant of a chain.  Receipt i was made by              *)
(* IssueReceipt: it is the first of its run, or continues the last one     *)
(* before it.                                                              *)
(***************************************************************************)
run_of(i) == genuine[i].body.run_id
link_of(i) == genuine[i].body.continuity

Continues(j, i) ==
  /\ run_of(j) = run_of(i)
  /\ \A k \in (j + 1)..(i - 1) : run_of(k) # run_of(i)
  /\ link_of(i).prev = genuine[j].stated
  /\ link_of(i).sequence_number = IF link_of(j) # None THEN link_of(j).sequence_number + 1 ELSE 2

Issued(i) ==
  /\ run_of(i) \in Runs
  /\ genuine[i] = Receipt(Gateway, ReceiptBody("action", run_of(i), <<"call", i - 1>>, None, None, link_of(i)))
  /\ link_of(i) # None =>
       /\ link_of(i).run_id = run_of(i)
       /\ link_of(i).sequence_number \in Nat \ {0}
       /\ \/ /\ link_of(i).sequence_number = 1 /\ link_of(i).prev = None
             /\ \A j \in 1..(i - 1) : run_of(j) # run_of(i)
          \/ \E j \in 1..(i - 1) : Continues(j, i)

(* Nobody but the Gateway makes the Gateway's signatures.                  *)
ReceiptFields == {"body", "stated", "key", "sig", "operator_attestation"}

Unforged(r) ==
  /\ DOMAIN r = ReceiptFields
  /\ r.sig.by = Gateway => \E j \in DOMAIN genuine : r.sig.over = Digest(genuine[j].body)

(* A run whose links never continue a receipt without one is numbered      *)
(* without gaps, and a last receipt with a link has the last number.       *)
Unbroken(run_id) ==
  LET chain == linked(genuine, run_id) IN
  /\ {number(genuine, i) : i \in chain} = 1..Cardinality(chain)
  /\ \A i, j \in chain : number(genuine, i) = number(genuine, j) => i = j
  /\ \A i, j \in chain : number(genuine, j) = number(genuine, i) + 1 =>
       link_of(j).prev = genuine[i].stated
  /\ \A i \in chain : (\A j \in DOMAIN genuine : j > i => run_of(j) # run_id)
       => number(genuine, i) = Cardinality(chain)

IsSeq(s) == s \in Seq({s[i] : i \in DOMAIN s})

ChainInv == subject = "chain" =>
  /\ options = [DefaultOptions EXCEPT !.keys = {Gateway}]
  /\ IsSeq(genuine) /\ IsSeq(held)
  /\ faults \in Nat /\ (faults = 0 => held = genuine)
  /\ \A i \in DOMAIN genuine : Issued(i)
  /\ \A i \in DOMAIN held : Unforged(held[i])
  /\ ~LinkedToUnlinked => \A run_id \in Runs : Unbroken(run_id)
  /\ verdict = "accepted" => Accepts("chain", held, options)
  /\ verdict = "rejected" => ~Accepts("chain", held, options)

(***************************************************************************)
(* The inductive invariant of the other documents: what the holder has is  *)
(* a document of the same form, whose signature is by the holder's own key *)
(* or the one the signer made.                                             *)
(***************************************************************************)
SignedKinds == {"receipt", "mandate", "protocol", "x402", "manifest"}

SameForm(d, e) == d = [f \in DOMAIN e |-> d[f]]

SameSignature(d, e) == d.sig.by = Gateway => d.sig = e.sig

DocumentInv == subject \in SignedKinds \union {"pef", "scitt"} =>
  /\ options \in Asked(subject) /\ genuine \in Handed(subject)
  /\ faults \in Nat /\ (faults = 0 => held = genuine)
  /\ SameForm(held, genuine)
  /\ subject \in SignedKinds => SameSignature(held, genuine)
  /\ subject = "scitt" => SameForm(held.cose, genuine.cose) /\ SameSignature(held.cose, genuine.cose)
  /\ verdict = "accepted" => Accepts(subject, held, options)
  /\ verdict = "rejected" => ~Accepts(subject, held, options)
=============================================================================
