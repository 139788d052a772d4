------------------------------ MODULE Receipts ------------------------------
(***************************************************************************)
(* Signed documents and what their verifiers check: agent receipts and     *)
(* their continuity chain (agent_receipt.py), mandates (agent_mandate.py), *)
(* protocol receipts (protocol_receipt.py), PEF frames and SCITT exports,  *)
(* x402 receipts and audit manifests.                                      *)
(*                                                                         *)
(* Hashing and signing are symbolic: a digest is the document it is of, a  *)
(* signature names the key that made it and what it was made over.  A      *)
(* signed document is a record                                             *)
(*                                                                         *)
(*   body    the fields that are signed                                    *)
(*   stated  the digest the document states of itself                      *)
(*   key     the public key it carries, sig the signature it carries       *)
(***************************************************************************)
EXTENDS Integers, Sequences, FiniteSets, Optional

Digest(document) == <<"sha256", document>>

Signature(key, message) == [by |-> key, over |-> message]

(* Canonical bytes, digest, detached signature. *)
Signed(key, body) ==
  [body |-> body, stated |-> Digest(body), key |-> key, sig |-> Signature(key, Digest(body))]

(* Faulty variant of verify_signed_digest: the stated digest is trusted.   *)
TrustsStatedDigest(doc) == doc.sig = Signature(doc.key, doc.stated)

verify_signed_digest(doc) ==
  doc.stated = Digest(doc.body) /\ doc.sig = Signature(doc.key, Digest(doc.body))

(* An empty set of expected keys lets every key pass. *)
allows_signing_public_key(key, expected) == expected = {} \/ key \in expected

(***************************************************************************)
(* Agent receipts: the fields that are compared with one another.          *)
(***************************************************************************)
action_receipt_id(intent_id, tool_call_id) == <<intent_id, tool_call_id>>

terminal_receipt_id(intent_id) == <<intent_id>>

verify_receipt_id(b) ==
  b.receipt_id = IF b.scope = "action" THEN action_receipt_id(b.intent_id, b.tool_call_id)
                 ELSE terminal_receipt_id(b.intent_id)

normalize_execution(b) == b.scope = "action" => b.tool_call_id # None

normalize_outcome(b) == b.settlement_outcome # None => b.scope = "intent_terminal"

(* The mandate is the digest and reference of the first attestation with   *)
(* that digest; attestations is a sequence of digests with references.     *)
verify_mandate_consistency(b) ==
  b.mandate = None \/
  \E i \in DOMAIN b.attestations :
    /\ b.attestations[i].digest = b.mandate.digest
    /\ \A j \in 1..(i - 1) : b.attestations[j].digest # b.mandate.digest
    /\ b.mandate.reference \in {None, b.attestations[i].reference}

normalize_continuity(b) ==
  b.continuity # None =>
    /\ b.continuity.sequence_number >= 1
    /\ (b.continuity.sequence_number = 1) = (b.continuity.prev = None)
    /\ b.scope = "action" => b.continuity.run_id = b.run_id

normalize_receipt(b) ==
  /\ b.scope \in {"action", "intent_terminal"}
  /\ verify_mandate_consistency(b)
  /\ normalize_outcome(b)
  /\ normalize_execution(b)
  /\ normalize_continuity(b)
  /\ verify_receipt_id(b)

(***************************************************************************)
(* An operator may countersign the Gateway's digest.  options:             *)
(*   registry   TRUE, FALSE, or None: check the operator's key             *)
(*   operators  the registered operator keys                               *)
(*   mode       the trust mode, tier the tier required                     *)
(*   keys       the expected signing keys, prior the expected prior digest *)
(***************************************************************************)
DefaultOptions ==
  [registry |-> None, operators |-> {}, mode |-> "gateway", tier |-> "operational",
   keys |-> {}, prior |-> None]

enforce_registry(o) ==
  o.registry = TRUE \/ (o.registry = None /\ o.mode = "tenant_registry") \/ o.tier = "attested"

verify_operator_attestation(r, o) ==
  LET a == r.operator_attestation IN
  a # None =>
    /\ a.operator_did = r.body.operator_did
    /\ a.stated = r.stated
    /\ enforce_registry(o) => a.key \in o.operators
    /\ a.sig = Signature(a.key, Digest(r.body))

require_primary_validity(b) ==
  /\ b.evidence # None
  /\ b.evidence.payee_signed
  /\ b.payment_intent_id \in {None, b.intent_id}
  /\ b.merchant_payee \in {None, b.evidence.payee}

require_attested_validity(r, operators) ==
  r.operator_attestation # None /\ r.operator_attestation.key \in operators

require_validity_tier(r, o) ==
  /\ o.tier \in {"primary", "attested"} => require_primary_validity(r.body)
  /\ o.tier = "attested" => require_attested_validity(r, o.operators)

achieved_validity_tier(r, operators) ==
  IF ~require_primary_validity(r.body) THEN "operational"
  ELSE IF require_attested_validity(r, operators) THEN "attested" ELSE "primary"

verify_continuity_expected_prior(b, prior) ==
  prior # None =>
    /\ b.continuity # None
    /\ b.continuity.sequence_number >= 2
    /\ b.continuity.prev = prior

verify_agent_receipt_v1(r, o) ==
  /\ normalize_receipt(r.body)
  /\ verify_continuity_expected_prior(r.body, o.prior)
  /\ allows_signing_public_key(r.key, o.keys)
  /\ verify_signed_digest(r)
  /\ verify_operator_attestation(r, o)
  /\ require_validity_tier(r, o)

attach_operator_attestation_v1(r, operator_did, key) ==
  IF verify_agent_receipt_v1(r, DefaultOptions) /\ operator_did = r.body.operator_did
  THEN [r EXCEPT !.operator_attestation =
          [operator_did |-> operator_did, key |-> key, stated |-> r.stated,
           sig |-> Signature(key, r.stated)]]
  ELSE r

(***************************************************************************)
(* Continuity.  A link to a prior receipt that has none itself is number 2.*)
(***************************************************************************)
prior_run_id(prior) ==
  IF prior.body.continuity # None THEN prior.body.continuity.run_id ELSE prior.body.run_id

continuity_from_prior(run_id, prior) ==
  IF prior = None THEN [run_id |-> run_id, sequence_number |-> 1, prev |-> None]
  ELSE IF prior_run_id(prior) # run_id THEN None
  ELSE [run_id |-> run_id,
        sequence_number |-> IF prior.body.continuity # None
                            THEN prior.body.continuity.sequence_number + 1 ELSE 2,
        prev |-> prior.stated]

(* The linked receipts of a run in the order of their numbers start at 1,  *)
(* have no gap and no number twice, and each names the digest its          *)
(* predecessor states.                                                     *)
linked(receipts, run_id) ==
  {i \in DOMAIN receipts : /\ receipts[i].body.continuity # None
                           /\ receipts[i].body.continuity.run_id = run_id}

number(receipts, i) == receipts[i].body.continuity.sequence_number

(* Faulty variant of verify_continuity_chain: gaps are not looked for.     *)
OverlooksGaps(receipts, runs) ==
  \A run_id \in runs : \A i, j \in linked(receipts, run_id) :
    number(receipts, j) = number(receipts, i) + 1 =>
      receipts[j].body.continuity.prev = receipts[i].stated

verify_continuity_chain(receipts, runs) ==
  \A run_id \in runs :
    LET chain == linked(receipts, run_id) IN
    /\ \A i \in chain : normalize_receipt(receipts[i].body)
    /\ {number(receipts, i) : i \in chain} = 1..Cardinality(chain)
    /\ \A i, j \in chain : number(receipts, j) = number(receipts, i) + 1 =>
         receipts[j].body.continuity.prev = receipts[i].stated

(***************************************************************************)
(* The other signed documents.                                             *)
(***************************************************************************)
normalize_agent_mandate(b) ==
  /\ (b.principal_subject # None) = (b.authorization_kind = "principal")
  /\ b.allowed_actions # {} \/ b.allowed_tools # {}
  /\ b.amount_minor > 0
  /\ b.default_rail \in b.allowed_rails

verify_signed_agent_mandate_v1(doc, now) ==
  normalize_agent_mandate(doc.body) /\ doc.body.expires_at > now /\ verify_signed_digest(doc)

sign_agent_mandate_v1(key, b) == IF normalize_agent_mandate(b) THEN Signed(key, b) ELSE None

normalize_authorization_receipt(b) ==
  /\ b.authorization_tenant_id = b.tenant_id
  /\ b.allowed_actions # {} \/ b.allowed_tools # {}
  /\ b.amount_minor > 0

normalize_settlement_receipt(b) ==
  /\ b.receipt_id = b.intent_id
  /\ b.harbor_state \in {"released", "refunded", "resolved_split", "escalated_external"}
  /\ b.amount_minor > 0

verify_protocol_receipt(doc) ==
  /\ IF doc.body.kind = "authorization" THEN normalize_authorization_receipt(doc.body)
     ELSE normalize_settlement_receipt(doc.body)
  /\ verify_signed_digest(doc)

(* A PEF frame and a SCITT export wrap a receipt or its digest.            *)
pef_frame(receipt, provider, time) ==
  LET preimage == <<provider, time, receipt, Digest(receipt)>> IN
  [receipt |-> receipt, receipt_hash |-> Digest(receipt), provider |-> provider, time |-> time,
   frame_id |-> Digest(preimage)]

verify_pef_frame_id(f) ==
  /\ f.receipt_hash = Digest(f.receipt)
  /\ f.frame_id = pef_frame(f.receipt, f.provider, f.time).frame_id

scitt_export(receipt_id, digest, key, issuer) ==
  LET statement == <<receipt_id, digest>> IN
  [receipt_id |-> receipt_id, digest |-> digest, key |-> key, statement |-> statement,
   cose |-> [protected |-> issuer, payload |-> statement,
             sig |-> Signature(key, <<issuer, statement>>)]]

verify_scitt_export(e) ==
  /\ e.statement = <<e.receipt_id, e.digest>>
  /\ e.cose.payload = e.statement
  /\ e.cose.sig = Signature(e.key, <<e.cose.protected, e.cose.payload>>)

(* An x402 receipt carries its own key, so the expected signer is asked    *)
(* for; a JWS is verified over the payload inside the token.               *)
verify_signed_x402_receipt(doc, expected_signer) ==
  /\ expected_signer # None
  /\ doc.key = expected_signer
  /\ doc.sig = Signature(doc.key, doc.body)

verify_audit_manifest(doc) == doc.key # None /\ doc.sig # None /\ verify_signed_digest(doc)
=============================================================================
