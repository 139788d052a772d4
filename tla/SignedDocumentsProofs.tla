------------------------ MODULE SignedDocumentsProofs ------------------------
(***************************************************************************)
(* Proofs about signed documents, for chains of any number of receipts and *)
(* any number of faults: the invariants of SignedDocuments are inductive,  *)
(* and what the verifiers accept is what was signed.                       *)
(***************************************************************************)
EXTENDS SignedDocuments, FiniteSetTheorems, WellFoundedInduction, TLAPS

(* The absent value is no truth value, key, digest, signature, call, link  *)
(* or receipt.                                                             *)
NoneApart ==
  /\ None # TRUE /\ Gateway # None /\ "call1" # None
  /\ \A d : Digest(d) # None
  /\ \A k, m : Signature(k, m) # None
  /\ \A i : <<"call", i>> # None
  /\ \A r, n, p : [run_id |-> r, sequence_number |-> n, prev |-> p] # None
  /\ \A k, b : Receipt(k, b) # None

-----------------------------------------------------------------------------
(* Symbolic digests and signatures. *)

LEMMA DigestInjective ==
  ASSUME NEW d, NEW e, Digest(d) = Digest(e)
  PROVE  d = e
BY DEF Digest

LEMMA SignatureFields ==
  ASSUME NEW k, NEW m
  PROVE  Signature(k, m).by = k /\ Signature(k, m).over = m
BY DEF Signature

LEMMA ReceiptShape ==
  ASSUME NEW k, NEW b
  PROVE  LET r == Receipt(k, b) IN
         /\ DOMAIN r = ReceiptFields
         /\ r.body = b /\ r.stated = Digest(b) /\ r.key = k /\ r.sig = Signature(k, Digest(b))
         /\ r.operator_attestation = None
BY DEF Receipt, ReceiptFields

LEMMA BodyFields ==
  ASSUME NEW scope, NEW run_id, NEW call, NEW evidence, NEW mandate, NEW continuity
  PROVE  LET b == ReceiptBody(scope, run_id, call, evidence, mandate, continuity) IN
         /\ b.scope = scope /\ b.run_id = run_id /\ b.tool_call_id = call
         /\ b.continuity = continuity
BY DEF ReceiptBody

(* A set of places has a first one.                                        *)
LEMMA FirstPlace ==
  ASSUME NEW n \in Nat, NEW S \in SUBSET (1..n), S # {}
  PROVE  \E x \in S : \A y \in S : x <= y
<1> DEFINE T == {1..i : i \in S}
           R == StrictSubsetOrdering(1..n)
<1>1. IsWellFoundedOn(R, FiniteSubsetsOf(1..n))
  BY FS_StrictSubsetOrderingWellFounded
<1>2. T \subseteq FiniteSubsetsOf(1..n)
  <2>1. \A i \in S : IsFiniteSet(1..i)
    BY FS_Interval
  <2>2. QED
    BY <2>1 DEF FiniteSubsetsOf
<1>0. T # {}
  OBVIOUS
<1>3. PICK t \in T : \A u \in T : ~(<<u, t>> \in R)
  <2> HIDE DEF T, R
  <2>1. QED
    BY <1>0, <1>1, <1>2, WFMin
<1>4. PICK x \in S : t = 1..x
  BY <1>3
<1>5. ASSUME NEW y \in S, y < x
      PROVE  FALSE
  <2>1. 1..y \in T /\ 1..y \subseteq 1..x /\ x \in 1..x /\ x \notin 1..y
    BY <1>5
  <2>2. <<1..y, t>> \in R
    BY <1>4, <2>1 DEF StrictSubsetOrdering
  <2>3. QED
    BY <1>3, <2>1, <2>2
<1>6. QED
  BY <1>5

(* A set of places has a last one: the places after one of the set that    *)
(* are not after all of it have a first.                                   *)
LEMMA LastPlace ==
  ASSUME NEW n \in Nat, NEW S \in SUBSET (1..n), S # {}
  PROVE  \E x \in S : \A y \in S : y <= x
<1> DEFINE T == {n + 1 - i : i \in S}
<1>1. T \in SUBSET (1..n)
  <2>1. \A i \in S : n + 1 - i \in 1..n
    OBVIOUS
  <2>2. QED
    BY <2>1
<1>0. T # {}
  OBVIOUS
<1>2. PICK t \in T : \A u \in T : t <= u
  <2> HIDE DEF T
  <2>1. QED
    BY <1>0, <1>1, FirstPlace
<1>3. PICK x \in S : t = n + 1 - x
  BY <1>2
<1>4. \A y \in S : n + 1 - y \in T
  OBVIOUS
<1>5. \A y \in S : y <= x
  <2> TAKE y \in S
  <2>1. n + 1 - x <= n + 1 - y
    BY <1>2, <1>3, <1>4
  <2>2. QED
    BY <2>1
<1>6. QED
  BY <1>5

-----------------------------------------------------------------------------
(* What was issued. *)

LEMMA SeqFacts ==
  ASSUME NEW s, IsSeq(s)
  PROVE  Len(s) \in Nat /\ DOMAIN s = 1..Len(s)
BY DEF IsSeq

LEMMA LinkedFinite ==
  ASSUME NEW s, IsSeq(s), NEW run_id
  PROVE  /\ IsFiniteSet(linked(s, run_id)) /\ Cardinality(linked(s, run_id)) \in Nat
         /\ linked(s, run_id) \subseteq 1..Len(s)
<1>1. linked(s, run_id) \subseteq 1..Len(s)
  BY SeqFacts DEF linked
<1>2. IsFiniteSet(1..Len(s))
  BY SeqFacts, FS_Interval
<1>3. QED
  BY <1>1, <1>2, FS_Subset, FS_CardinalityType

LEMMA IssuedFields ==
  ASSUME NEW i \in DOMAIN genuine, Issued(i)
  PROVE  /\ genuine[i].stated = Digest(genuine[i].body)
         /\ genuine[i].key = Gateway
         /\ genuine[i].sig = Signature(Gateway, Digest(genuine[i].body))
         /\ DOMAIN genuine[i] = ReceiptFields
         /\ genuine[i].body.tool_call_id = <<"call", i - 1>>
<1> DEFINE b == ReceiptBody("action", run_of(i), <<"call", i - 1>>, None, None, link_of(i))
<1>1. genuine[i] = Receipt(Gateway, b)
  BY DEF Issued
<1>2. b.tool_call_id = <<"call", i - 1>>
  BY BodyFields
<1> HIDE DEF b
<1>3. QED
  BY <1>1, <1>2, ReceiptShape

(* No two receipts have the same body. *)
LEMMA BodiesDiffer ==
  ASSUME IsSeq(genuine), NEW i \in DOMAIN genuine, NEW j \in DOMAIN genuine, Issued(i), Issued(j),
         genuine[i].body = genuine[j].body
  PROVE  i = j
<1>1. <<"call", i - 1>> = <<"call", j - 1>>
  BY IssuedFields
<1>2. i - 1 = j - 1
  BY <1>1
<1>3. QED
  BY <1>2, SeqFacts

-----------------------------------------------------------------------------
(* What is accepted. *)

LEMMA AcceptsChain ==
  ASSUME NEW c, NEW o
  PROVE  Accepts("chain", c, o) <=> /\ \A i \in DOMAIN c : verify_agent_receipt_v1(c[i], o)
                                    /\ verify_continuity_chain(c, Runs)
BY DEF Accepts

LEMMA AcceptedReceipt ==
  ASSUME ChainInv, subject = "chain", verdict = "accepted", NEW i \in DOMAIN held
  PROVE  /\ held[i].stated = Digest(held[i].body)
         /\ \E j \in DOMAIN genuine : held[i].body = genuine[j].body
<1>1. verify_agent_receipt_v1(held[i], options)
  BY AcceptsChain DEF ChainInv
<1>2. options.keys = {Gateway}
  BY DEF ChainInv, DefaultOptions
<1>3. /\ held[i].key = Gateway /\ held[i].stated = Digest(held[i].body)
      /\ held[i].sig = Signature(held[i].key, Digest(held[i].body))
  BY <1>1, <1>2 DEF verify_agent_receipt_v1, allows_signing_public_key, verify_signed_digest
<1>4. held[i].sig.by = Gateway /\ held[i].sig.over = Digest(held[i].body)
  BY <1>3, SignatureFields
<1>5. PICK j \in DOMAIN genuine : held[i].sig.over = Digest(genuine[j].body)
  BY <1>4 DEF ChainInv, Unforged
<1>6. held[i].body = genuine[j].body
  BY <1>4, <1>5, DigestInjective
<1>7. QED
  BY <1>3, <1>6

(* A linked receipt that is accepted comes with the one it continues, and  *)
(* that one has a link too.                                                *)
LEMMA AcceptedPredecessor ==
  ASSUME NoneApart, ChainInv, subject = "chain", verdict = "accepted", NEW run_id \in Runs,
         NEW j \in linked(genuine, run_id), genuine[j].body \in linked_bodies(held, run_id),
         NEW i \in linked(genuine, run_id), i < j
  PROVE  \E p \in linked(genuine, run_id) :
           /\ i <= p /\ p < j
           /\ genuine[p].body \in linked_bodies(held, run_id)
<1>1. /\ i \in DOMAIN genuine /\ j \in DOMAIN genuine /\ i \in 1..(j - 1)
      /\ Issued(i) /\ Issued(j)
      /\ link_of(i) # None /\ link_of(j) # None
      /\ run_of(i) = run_id /\ run_of(j) = run_id
  <2>1. /\ i \in DOMAIN genuine /\ j \in DOMAIN genuine /\ link_of(i) # None /\ link_of(j) # None
        /\ link_of(i).run_id = run_id /\ link_of(j).run_id = run_id
    BY DEF linked, link_of
  <2>2. i \in 1..Len(genuine) /\ j \in 1..Len(genuine) /\ Len(genuine) \in Nat
    BY <2>1, SeqFacts DEF ChainInv
  <2>3. Issued(i) /\ Issued(j)
    BY <2>1 DEF ChainInv
  <2>4. QED
    BY <2>1, <2>2, <2>3 DEF Issued
<1>2. PICK p \in 1..(j - 1) : Continues(p, j)
  BY <1>1 DEF Issued
<1>3. i <= p
  <2>1. CASE i > p
    <3>1. i \in (p + 1)..(j - 1)
      BY <1>1, <2>1
    <3>2. QED
      BY <1>1, <1>2, <3>1 DEF Continues
  <2>2. QED
    BY <1>1, <2>1
<1>4. PICK h \in linked(held, run_id) : held[h].body = genuine[j].body
  BY DEF linked_bodies
<1>5. p \in DOMAIN genuine /\ Issued(p) /\ genuine[p].stated = Digest(genuine[p].body)
  <2>1. p \in DOMAIN genuine
    BY <1>1, SeqFacts DEF ChainInv
  <2>2. QED
    BY <2>1, IssuedFields DEF ChainInv
<1>6. number(held, h) = link_of(j).sequence_number /\ number(held, h) \in Nat \ {0, 1}
  <2>1. link_of(p) # None => link_of(p).sequence_number \in Nat \ {0}
    BY <1>5 DEF Issued
  <2>2. link_of(j).sequence_number \in Nat \ {0, 1}
    BY <1>2, <2>1 DEF Continues
  <2>3. QED
    BY <1>4, <2>2 DEF number, link_of
<1>7. PICK g \in linked(held, run_id) : number(held, g) = number(held, h) - 1
  <2> DEFINE chain == linked(held, run_id)
             numbers == {number(held, k) : k \in chain}
  <2>1. numbers = 1..Cardinality(chain)
    BY AcceptsChain DEF ChainInv, verify_continuity_chain
  <2>2. number(held, h) \in numbers
    OBVIOUS
  <2>3. number(held, h) - 1 \in 1..Cardinality(chain)
    <3>1. number(held, h) \in 1..Cardinality(chain)
      BY <2>1, <2>2
    <3>2. Cardinality(chain) \in Nat
      BY LinkedFinite DEF ChainInv
    <3> DEFINE n == number(held, h)
               c == Cardinality(chain)
    <3> HIDE DEF n, c
    <3>3. n \in 1..c /\ c \in Nat /\ n \in Nat \ {0, 1}
      BY <1>6, <3>1, <3>2 DEF n, c
    <3>4. n - 1 \in 1..c
      BY <3>3
    <3>5. QED
      BY <3>4 DEF n, c
  <2>4. QED
    BY <2>1, <2>3
<1>8. held[h].body.continuity.prev = held[g].stated
  <2>1. number(held, h) = number(held, g) + 1
    BY <1>6, <1>7
  <2>2. QED
    BY <2>1, AcceptsChain DEF ChainInv, verify_continuity_chain
<1>9. Digest(held[g].body) = Digest(genuine[p].body)
  <2>1. held[g].stated = Digest(held[g].body)
    BY AcceptedReceipt DEF linked
  <2>2. link_of(j).prev = genuine[p].stated
    BY <1>2 DEF Continues
  <2>3. QED
    BY <1>4, <1>5, <1>8, <2>1, <2>2 DEF link_of
<1>10. held[g].body = genuine[p].body
  BY <1>9, DigestInjective
<1>11. p \in linked(genuine, run_id) /\ genuine[p].body \in linked_bodies(held, run_id)
  BY <1>5, <1>10 DEF linked, linked_bodies
<1>12. p < j
  <2>1. j \in Nat
    BY <1>1, SeqFacts DEF ChainInv
  <2>2. QED
    BY <1>2, <2>1
<1>13. QED
  BY <1>3, <1>11, <1>12

LEMMA AcceptedPrefix ==
  ASSUME NoneApart, ChainInv, subject = "chain", verdict = "accepted", NEW run_id \in Runs,
         NEW i \in linked(genuine, run_id), NEW j \in linked(genuine, run_id),
         i < j, genuine[j].body \in linked_bodies(held, run_id)
  PROVE  genuine[i].body \in linked_bodies(held, run_id)
<1> DEFINE S == {p \in linked(genuine, run_id) :
                   i <= p /\ genuine[p].body \in linked_bodies(held, run_id)}
<1>1. linked(genuine, run_id) \subseteq 1..Len(genuine) /\ Len(genuine) \in Nat
  BY SeqFacts DEF linked, ChainInv
<1>2. S \in SUBSET (1..Len(genuine)) /\ j \in S
  BY <1>1
<1>3. PICK p \in S : \A q \in S : p <= q
  <2> HIDE DEF S
  <2>1. QED
    BY <1>1, <1>2, FirstPlace
<1>4. CASE p = i
  BY <1>4
<1>5. CASE i < p
  <2>1. PICK q \in linked(genuine, run_id) :
          i <= q /\ q < p /\ genuine[q].body \in linked_bodies(held, run_id)
    BY <1>5, AcceptedPredecessor
  <2>2. q \in S /\ p <= q
    BY <1>3, <2>1
  <2>3. QED
    BY <1>1, <2>1, <2>2
<1>6. QED
  BY <1>1, <1>4, <1>5

-----------------------------------------------------------------------------
(* What was issued is accepted. *)

LEMMA IssuedVerifies ==
  ASSUME NoneApart, ChainInv, subject = "chain", NEW i \in DOMAIN genuine
  PROVE  /\ normalize_receipt(genuine[i].body)
         /\ verify_agent_receipt_v1(genuine[i], options)
<1> DEFINE b == ReceiptBody("action", run_of(i), <<"call", i - 1>>, None, None, link_of(i))
<1>1. Issued(i) /\ genuine[i] = Receipt(Gateway, b)
  BY DEF Issued, ChainInv
<1>2. /\ b.scope = "action" /\ b.mandate = None /\ b.settlement_outcome = None
      /\ b.tool_call_id = <<"call", i - 1>> /\ b.continuity = link_of(i)
      /\ b.intent_id = "intent" /\ b.run_id = run_of(i)
      /\ b.receipt_id = action_receipt_id("intent", <<"call", i - 1>>)
  BY DEF ReceiptBody
<1>3. /\ genuine[i].body = b /\ genuine[i].stated = Digest(b) /\ genuine[i].key = Gateway
      /\ genuine[i].sig = Signature(Gateway, Digest(b)) /\ genuine[i].operator_attestation = None
  <2> HIDE DEF b
  <2>1. QED
    BY <1>1, ReceiptShape
<1> HIDE DEF b
<1>4. normalize_continuity(b)
  <2> SUFFICES ASSUME link_of(i) # None
               PROVE  /\ link_of(i).sequence_number >= 1
                      /\ (link_of(i).sequence_number = 1) = (link_of(i).prev = None)
                      /\ link_of(i).run_id = run_of(i)
    BY <1>2 DEF normalize_continuity
  <2>1. link_of(i).run_id = run_of(i) /\ link_of(i).sequence_number \in Nat \ {0}
    BY <1>1 DEF Issued
  <2>2. CASE link_of(i).sequence_number = 1 /\ link_of(i).prev = None
    BY <2>1, <2>2
  <2>3. ASSUME NEW j \in 1..(i - 1), Continues(j, i)
        PROVE  link_of(i).sequence_number # 1 /\ link_of(i).prev # None
    <3>1. j \in DOMAIN genuine /\ Issued(j)
      BY SeqFacts DEF ChainInv
    <3>2. link_of(i).prev = Digest(genuine[j].body)
      BY <2>3, <3>1, IssuedFields DEF Continues
    <3>3. link_of(j) # None => link_of(j).sequence_number \in Nat \ {0}
      BY <3>1 DEF Issued
    <3>4. link_of(i).sequence_number # 1
      BY <2>3, <3>3 DEF Continues
    <3>5. QED
      BY <3>2, <3>4 DEF NoneApart
  <2>4. QED
    BY <1>1, <2>1, <2>2, <2>3 DEF Issued
<1>5. normalize_receipt(b)
  BY <1>2, <1>4 DEF NoneApart, normalize_receipt, verify_mandate_consistency, normalize_outcome,
    normalize_execution, verify_receipt_id
<1>6. /\ options.prior = None /\ options.keys = {Gateway} /\ options.tier = "operational"
  BY DEF ChainInv, DefaultOptions
<1>7. verify_agent_receipt_v1(genuine[i], options)
  BY <1>3, <1>5, <1>6 DEF verify_agent_receipt_v1, verify_continuity_expected_prior,
    allows_signing_public_key, verify_signed_digest, verify_operator_attestation, require_validity_tier
<1>8. QED
  BY <1>3, <1>5, <1>7

LEMMA UnbrokenAccepted ==
  ASSUME NoneApart, ChainInv, subject = "chain", ~LinkedToUnlinked
  PROVE  Accepts("chain", genuine, options)
<1>1. ASSUME NEW run_id \in Runs
      PROVE  LET chain == linked(genuine, run_id) IN
             /\ \A i \in chain : normalize_receipt(genuine[i].body)
             /\ {number(genuine, i) : i \in chain} = 1..Cardinality(chain)
             /\ \A i, j \in chain : number(genuine, j) = number(genuine, i) + 1 =>
                  genuine[j].body.continuity.prev = genuine[i].stated
  <2>1. Unbroken(run_id)
    BY DEF ChainInv
  <2>2. \A i \in linked(genuine, run_id) : normalize_receipt(genuine[i].body)
    BY IssuedVerifies DEF linked
  <2>3. QED
    BY <2>1, <2>2 DEF Unbroken, link_of
<1>2. verify_continuity_chain(genuine, Runs)
  BY <1>1 DEF verify_continuity_chain
<1>3. QED
  BY <1>2, IssuedVerifies, AcceptsChain

(* The invariant is stronger than the property. *)
LEMMA ChainHistory ==
  ASSUME NoneApart, ChainInv
  PROVE  AcceptedIsHistory
<1> SUFFICES ASSUME subject = "chain"
             PROVE  /\ verdict = "accepted" =>
                         /\ {held[i].body : i \in DOMAIN held} \subseteq {genuine[i].body : i \in DOMAIN genuine}
                         /\ \A run_id \in Runs : \A i, j \in linked(genuine, run_id) :
                              i < j /\ genuine[j].body \in linked_bodies(held, run_id)
                                => genuine[i].body \in linked_bodies(held, run_id)
                    /\ verdict = "rejected" /\ faults = 0 => LinkedToUnlinked
  BY DEF AcceptedIsHistory
<1>1. ASSUME verdict = "accepted"
      PROVE  {held[i].body : i \in DOMAIN held} \subseteq {genuine[i].body : i \in DOMAIN genuine}
  BY <1>1, AcceptedReceipt
<1>2. ASSUME verdict = "accepted", NEW run_id \in Runs,
             NEW i \in linked(genuine, run_id), NEW j \in linked(genuine, run_id),
             i < j, genuine[j].body \in linked_bodies(held, run_id)
      PROVE  genuine[i].body \in linked_bodies(held, run_id)
  BY <1>2, AcceptedPrefix
<1>3. ASSUME verdict = "rejected", faults = 0
      PROVE  LinkedToUnlinked
  <2>1. held = genuine /\ ~Accepts("chain", held, options)
    BY <1>3 DEF ChainInv
  <2>2. QED
    BY <2>1, UnbrokenAccepted
<1>4. QED
  BY <1>1, <1>2, <1>3

-----------------------------------------------------------------------------
(* The invariant is inductive. *)

LEMMA IsSeqOf ==
  ASSUME NEW T, NEW s \in Seq(T)
  PROVE  IsSeq(s)
BY DEF IsSeq

LEMMA AppendFacts ==
  ASSUME NEW s, IsSeq(s), NEW e
  PROVE  /\ IsSeq(Append(s, e))
         /\ Len(Append(s, e)) = Len(s) + 1 /\ DOMAIN Append(s, e) = 1..(Len(s) + 1)
         /\ \A i \in DOMAIN s : Append(s, e)[i] = s[i]
         /\ Append(s, e)[Len(s) + 1] = e
<1> DEFINE T == {s[i] : i \in DOMAIN s} \union {e}
<1>1. s \in Seq(T) /\ e \in T
  BY DEF IsSeq
<1> HIDE DEF T
<1>2. Append(s, e) \in Seq(T)
  BY <1>1
<1>3. IsSeq(Append(s, e))
  BY <1>2, IsSeqOf
<1>4. QED
  BY <1>1, <1>3

LEMMA ChainInit ==
  ASSUME DocInit
  PROVE  ChainInv
<1> SUFFICES ASSUME subject = "chain"
             PROVE  ChainInv
  BY DEF ChainInv
<1>1. options = [DefaultOptions EXCEPT !.keys = {Gateway}]
  BY DEF DocInit, Asked
<1>2. genuine = <<>> /\ held = genuine
  BY DEF DocInit, Handed
<1>3. IsSeq(genuine) /\ IsSeq(held) /\ DOMAIN genuine = {} /\ DOMAIN held = {}
  BY <1>2 DEF IsSeq
<1>4. \A run_id : linked(genuine, run_id) = {}
  BY <1>3 DEF linked
<1>5. \A run_id \in Runs : Unbroken(run_id)
  BY <1>4, FS_EmptySet DEF Unbroken
<1>6. /\ faults \in Nat /\ verdict # "accepted" /\ verdict # "rejected"
      /\ \A i \in DOMAIN genuine : Issued(i)
      /\ \A i \in DOMAIN held : Unforged(held[i])
  BY <1>3, VerdictAssumption DEF DocInit
<1>7. QED
  BY <1>1, <1>2, <1>3, <1>5, <1>6, Zenon DEF ChainInv

(* The holder's damage: what it makes of a receipt carries the old         *)
(* signature, or one by another key.                                       *)
LEMMA DamagedUnforged ==
  ASSUME NEW r, Unforged(r), NEW bodies, NEW d \in Damaged(r, bodies)
  PROVE  Unforged(d)
<1>1. DOMAIN r = ReceiptFields /\ "sig" \in DOMAIN r
  BY DEF Unforged, ReceiptFields
<1>2. DOMAIN d = DOMAIN r /\ (d.sig = r.sig \/ \E m : d.sig = Signature(Elsewhere, m))
  <2>1. ASSUME NEW b, d = [r EXCEPT !.body = b]
        PROVE  DOMAIN d = DOMAIN r /\ d.sig = r.sig
    BY <1>1, <2>1
  <2>2. ASSUME NEW b, d = [r EXCEPT !.body = b, !.stated = Digest(b)]
        PROVE  DOMAIN d = DOMAIN r /\ d.sig = r.sig
    BY <1>1, <2>2
  <2>3. ASSUME NEW b, d = [r EXCEPT !.body = b, !.stated = Digest(b), !.key = Elsewhere,
                                    !.sig = Signature(Elsewhere, Digest(b))]
        PROVE  DOMAIN d = DOMAIN r /\ d.sig = Signature(Elsewhere, Digest(b))
    BY <1>1, <2>3
  <2>4. ASSUME d = [r EXCEPT !.sig = Signature(Elsewhere, r.stated)]
        PROVE  DOMAIN d = DOMAIN r /\ d.sig = Signature(Elsewhere, r.stated)
    BY <1>1, <2>4
  <2> DEFINE Altered(b) ==
               {[r EXCEPT !.body = b], [r EXCEPT !.body = b, !.stated = Digest(b)],
                [r EXCEPT !.body = b, !.stated = Digest(b), !.key = Elsewhere,
                          !.sig = Signature(Elsewhere, Digest(b))]}
             Resigned == [r EXCEPT !.sig = Signature(Elsewhere, r.stated)]
  <2>5. ASSUME NEW b, d \in Altered(b)
        PROVE  DOMAIN d = DOMAIN r /\ (d.sig = r.sig \/ \E m : d.sig = Signature(Elsewhere, m))
    BY <2>1, <2>2, <2>3, <2>5, Zenon
  <2>6. Damaged(r, bodies) = (UNION {Altered(b) : b \in bodies}) \union {Resigned}
    BY Zenon DEF Damaged
  <2> HIDE DEF Altered
  <2>7. QED
    BY <2>4, <2>5, <2>6
<1>3. d.sig.by = Gateway => d.sig = r.sig
  <2>1. Gateway # Elsewhere
    BY DEF Gateway, Elsewhere
  <2>2. QED
    BY <1>2, <2>1, SignatureFields
<1>4. QED
  BY <1>1, <1>2, <1>3 DEF Unforged

LEMMA DamageKeeps ==
  ASSUME ChainInv, Damage
  PROVE  ChainInv'
<1> SUFFICES ASSUME subject = "chain"
             PROVE  ChainInv'
  BY DEF ChainInv, Damage
<1>1. /\ IsSeq(held) /\ \A i \in DOMAIN held : Unforged(held[i])
      /\ held' \in DamagedChain(held)
      /\ verdict = None /\ UNCHANGED <<subject, options, genuine, verdict>>
      /\ faults \in Nat /\ faults' = faults + 1
  BY DEF ChainInv, Damage, Left
<1>2. IsSeq(held') /\ \A i \in DOMAIN held' : Unforged(held'[i])
  <2>0. DOMAIN held = 1..Len(held) /\ Len(held) \in Nat
    BY <1>1, SeqFacts
  <2>1. ASSUME NEW i \in DOMAIN held,
               NEW d \in Damaged(held[i], {[held[i].body EXCEPT !.merchant_payee = "payee2"]}),
               held' = [held EXCEPT ![i] = d]
        PROVE  IsSeq(held') /\ \A j \in DOMAIN held' : Unforged(held'[j])
    <3>1. Unforged(d)
      BY <1>1, DamagedUnforged
    <3>2. DOMAIN held' = DOMAIN held /\ \A j \in DOMAIN held' : held'[j] = IF j = i THEN d ELSE held[j]
      BY <2>1
    <3> DEFINE S == {held[j] : j \in DOMAIN held} \union {d}
    <3>3. held \in Seq(S) /\ d \in S
      BY <1>1 DEF IsSeq
    <3> HIDE DEF S
    <3>4. held' \in Seq(S)
      BY <2>0, <2>1, <3>3
    <3>5. QED
      BY <1>1, <3>1, <3>2, <3>4, IsSeqOf
  <2>2. ASSUME NEW i \in DOMAIN held,
               held' = SubSeq(held, 1, i - 1) \o SubSeq(held, i + 1, Len(held))
        PROVE  IsSeq(held') /\ \A j \in DOMAIN held' : Unforged(held'[j])
    <3> DEFINE S == {held[j] : j \in DOMAIN held}
    <3>1. held \in Seq(S) /\ \A r \in S : Unforged(r)
      BY <1>1 DEF IsSeq
    <3> HIDE DEF S
    <3>2. SubSeq(held, 1, i - 1) \in Seq(S) /\ SubSeq(held, i + 1, Len(held)) \in Seq(S)
      BY <2>0, <3>1
    <3>3. held' \in Seq(S)
      BY <2>2, <3>2
    <3>4. \A j \in DOMAIN held' : held'[j] \in S
      BY <3>3
    <3>5. QED
      BY <3>1, <3>3, <3>4, IsSeqOf
  <2>3. ASSUME NEW i \in DOMAIN held, NEW k \in DOMAIN held,
               held' = [held EXCEPT ![i] = held[k], ![k] = held[i]]
        PROVE  IsSeq(held') /\ \A j \in DOMAIN held' : Unforged(held'[j])
    <3> DEFINE S == {held[j] : j \in DOMAIN held}
    <3>1. held \in Seq(S) /\ (\A r \in S : Unforged(r)) /\ held[i] \in S /\ held[k] \in S
      BY <1>1 DEF IsSeq
    <3> HIDE DEF S
    <3>2. held' \in Seq(S)
      BY <2>0, <2>3, <3>1
    <3>3. \A j \in DOMAIN held' : held'[j] \in S
      BY <3>2
    <3>4. QED
      BY <3>1, <3>2, <3>3, IsSeqOf
  <2>4. ASSUME NEW i \in DOMAIN held, held' = Append(held, held[i])
        PROVE  IsSeq(held') /\ \A j \in DOMAIN held' : Unforged(held'[j])
    BY <1>1, <2>0, <2>4, AppendFacts
  <2> DEFINE Changed(i) ==
               {[held EXCEPT ![i] = d] :
                  d \in Damaged(held[i], {[held[i].body EXCEPT !.merchant_payee = "payee2"]})}
             Lost(i) == SubSeq(held, 1, i - 1) \o SubSeq(held, i + 1, Len(held))
             Swapped(i, k) == [held EXCEPT ![i] = held[k], ![k] = held[i]]
             Repeated(i) == Append(held, held[i])
  <2>5. ASSUME NEW i \in DOMAIN held, held' \in Changed(i)
        PROVE  IsSeq(held') /\ \A j \in DOMAIN held' : Unforged(held'[j])
    BY <2>1, <2>5, Zenon
  <2>6. DamagedChain(held) =
          (UNION {Changed(i) : i \in DOMAIN held}) \union {Lost(i) : i \in DOMAIN held}
          \union {Swapped(i, k) : i, k \in DOMAIN held} \union {Repeated(i) : i \in DOMAIN held}
    BY DEF DamagedChain
  <2>7. QED
    <3>1. /\ \A i \in DOMAIN held : held' = Lost(i) => IsSeq(held') /\ \A j \in DOMAIN held' : Unforged(held'[j])
          /\ \A i, k \in DOMAIN held : held' = Swapped(i, k)
               => IsSeq(held') /\ \A j \in DOMAIN held' : Unforged(held'[j])
          /\ \A i \in DOMAIN held : held' = Repeated(i)
               => IsSeq(held') /\ \A j \in DOMAIN held' : Unforged(held'[j])
      BY <2>2, <2>3, <2>4
    <3> HIDE DEF Changed, Lost, Swapped, Repeated
    <3>2. QED
      BY <1>1, <2>5, <2>6, <3>1
<1>3. /\ faults' \in Nat /\ faults' # 0
      /\ verdict' # "accepted" /\ verdict' # "rejected"
  BY <1>1, VerdictAssumption
<1>4. genuine' = genuine /\ options' = options /\ subject' = subject
  BY <1>1
<1>5. /\ \A i : Issued(i)' <=> Issued(i)
      /\ LinkedToUnlinked' <=> LinkedToUnlinked
      /\ \A run_id : Unbroken(run_id)' <=> Unbroken(run_id)
      /\ IsSeq(genuine)' <=> IsSeq(genuine)
  BY <1>4 DEF Issued, LinkedToUnlinked, Unbroken, Continues, run_of, link_of, IsSeq
<1>6. \A i \in DOMAIN held' : Unforged(held[i])'
  BY <1>2, <1>4 DEF Unforged
<1>7. IsSeq(held)'
  BY <1>2 DEF IsSeq
<1>8. QED
  BY <1>3, <1>4, <1>5, <1>6, <1>7, Zenon DEF ChainInv

LEMMA VerifyKeeps ==
  ASSUME ChainInv, Verify
  PROVE  ChainInv'
<1> SUFFICES ASSUME subject = "chain"
             PROVE  ChainInv'
  BY DEF ChainInv, Verify
<1>1. /\ subject' = subject /\ options' = options /\ genuine' = genuine
      /\ held' = held /\ faults' = faults
      /\ verdict' = IF Accepts("chain", held, options) THEN "accepted" ELSE "rejected"
  BY DEF Verify
<1>2. /\ \A i : Issued(i)' <=> Issued(i)
      /\ LinkedToUnlinked' <=> LinkedToUnlinked
      /\ \A run_id : Unbroken(run_id)' <=> Unbroken(run_id)
      /\ IsSeq(genuine)' <=> IsSeq(genuine)
      /\ IsSeq(held)' <=> IsSeq(held)
      /\ \A i : Unforged(held[i])' <=> Unforged(held[i])
  BY <1>1 DEF Issued, LinkedToUnlinked, Unbroken, Continues, run_of, link_of, IsSeq, Unforged
<1>3. /\ verdict' = "accepted" => Accepts("chain", held', options')
      /\ verdict' = "rejected" => ~Accepts("chain", held', options')
  BY <1>1
<1>4. QED
  BY <1>1, <1>2, <1>3, Zenon DEF ChainInv

LEMMA LastOf ==
  ASSUME IsSeq(genuine), NEW run_id
  PROVE  \/ last_of(run_id) = None /\ \A i \in DOMAIN genuine : run_of(i) # run_id
         \/ \E m \in DOMAIN genuine : /\ last_of(run_id) = genuine[m] /\ run_of(m) = run_id
                                     /\ \A j \in DOMAIN genuine : run_of(j) = run_id => j <= m
<1> DEFINE own == {i \in DOMAIN genuine : genuine[i].body.run_id = run_id}
<1>1. CASE own = {}
  BY <1>1 DEF last_of, run_of
<1>2. CASE own # {}
  <2>1. own \in SUBSET (1..Len(genuine)) /\ Len(genuine) \in Nat
    BY SeqFacts
  <2>2. \E i \in own : \A j \in own : j <= i
    <3> HIDE DEF own
    <3>1. QED
      BY <1>2, <2>1, LastPlace
  <2> DEFINE m == CHOOSE i \in own : \A j \in own : j <= i
  <2>3. m \in own /\ \A j \in own : j <= m
    BY <2>2
  <2>4. last_of(run_id) = genuine[m]
    BY <1>2 DEF last_of
  <2> HIDE DEF m
  <2>5. QED
    BY <2>3, <2>4 DEF run_of
<1>3. QED
  BY <1>1, <1>2

(* The link of the next receipt. *)
LEMMA NextLink ==
  ASSUME NoneApart, IsSeq(genuine), \A i \in DOMAIN genuine : Issued(i), NEW run_id \in Runs
  PROVE  LET l == continuity_from_prior(run_id, last_of(run_id)) IN
         /\ l # None /\ l.run_id = run_id /\ l.sequence_number \in Nat \ {0}
         /\ \/ /\ l.sequence_number = 1 /\ l.prev = None
               /\ \A i \in DOMAIN genuine : run_of(i) # run_id
            \/ \E m \in DOMAIN genuine :
                 /\ run_of(m) = run_id /\ \A j \in DOMAIN genuine : run_of(j) = run_id => j <= m
                 /\ l.prev = genuine[m].stated
                 /\ l.sequence_number = IF link_of(m) # None THEN link_of(m).sequence_number + 1 ELSE 2
<1> DEFINE l == continuity_from_prior(run_id, last_of(run_id))
<1>1. CASE last_of(run_id) = None /\ \A i \in DOMAIN genuine : run_of(i) # run_id
  <2>1. l = [run_id |-> run_id, sequence_number |-> 1, prev |-> None]
    BY <1>1 DEF continuity_from_prior
  <2>2. l # None
    BY <2>1 DEF NoneApart
  <2> HIDE DEF l
  <2>3. l.run_id = run_id /\ l.sequence_number = 1 /\ l.prev = None
    BY <2>1
  <2>4. QED
    BY <1>1, <2>2, <2>3 DEF l
<1>2. ASSUME NEW m \in DOMAIN genuine, last_of(run_id) = genuine[m], run_of(m) = run_id,
             \A j \in DOMAIN genuine : run_of(j) = run_id => j <= m
      PROVE  /\ l # None /\ l.run_id = run_id /\ l.sequence_number \in Nat \ {0}
             /\ l.prev = genuine[m].stated
             /\ l.sequence_number = IF link_of(m) # None THEN link_of(m).sequence_number + 1 ELSE 2
  <2>1. genuine[m] # None /\ Issued(m)
    BY DEF NoneApart, Issued
  <2>2. prior_run_id(genuine[m]) = run_id
    BY <1>2, <2>1 DEF prior_run_id, Issued, run_of, link_of
  <2> DEFINE n == IF link_of(m) # None THEN link_of(m).sequence_number + 1 ELSE 2
  <2>3. l = [run_id |-> run_id, sequence_number |-> n, prev |-> genuine[m].stated]
    BY <1>2, <2>1, <2>2 DEF continuity_from_prior, link_of
  <2>4. n \in Nat \ {0}
    BY <2>1 DEF Issued
  <2>5. l # None
    BY <2>3 DEF NoneApart
  <2> HIDE DEF l, n
  <2>6. l.run_id = run_id /\ l.sequence_number = n /\ l.prev = genuine[m].stated
    BY <2>3
  <2>7. QED
    BY <2>4, <2>5, <2>6 DEF n
<1>3. QED
  BY <1>1, <1>2, LastOf

(* What IssueReceipt does to the receipts: k is the place of the new one.  *)
Grown(run_id, k) ==
  /\ k = Len(genuine) + 1 /\ k \in Nat \ {0}
  /\ DOMAIN genuine = 1..(k - 1) /\ DOMAIN genuine' = 1..k
  /\ \A i \in 1..(k - 1) :
       genuine'[i] = genuine[i] /\ run_of(i)' = run_of(i) /\ link_of(i)' = link_of(i)
  /\ genuine'[k] = Receipt(Gateway, ReceiptBody("action", run_id, <<"call", k - 1>>, None, None, link_of(k)'))
  /\ run_of(k)' = run_id

(* The new link continues m, the last receipt of the run.                  *)
NewContinues(run_id, k, m) ==
  /\ run_of(m) = run_id /\ \A j \in DOMAIN genuine : run_of(j) = run_id => j <= m
  /\ link_of(k)'.prev = genuine[m].stated
  /\ link_of(k)'.sequence_number = IF link_of(m) # None THEN link_of(m).sequence_number + 1 ELSE 2

NewLink(run_id, k) ==
  link_of(k)' # None =>
    /\ link_of(k)'.run_id = run_id
    /\ link_of(k)'.sequence_number \in Nat \ {0}
    /\ \/ /\ link_of(k)'.sequence_number = 1 /\ link_of(k)'.prev = None
          /\ \A i \in DOMAIN genuine : run_of(i) # run_id
       \/ \E m \in DOMAIN genuine : NewContinues(run_id, k, m)

LEMMA IssueGrows ==
  ASSUME NoneApart, ChainInv, NEW run_id \in Runs, NEW link \in BOOLEAN, IssueReceipt(run_id, link),
         NEW k, k = Len(genuine) + 1
  PROVE  IsSeq(genuine)' /\ Grown(run_id, k) /\ NewLink(run_id, k)
<1> DEFINE c == IF link THEN continuity_from_prior(run_id, last_of(run_id)) ELSE None
           b == ReceiptBody("action", run_id, <<"call", Len(genuine)>>, None, None, c)
           r == Receipt(Gateway, b)
<1>1. /\ subject = "chain" /\ IsSeq(genuine) /\ genuine' = Append(genuine, r)
      /\ \A i \in DOMAIN genuine : Issued(i)
  BY DEF IssueReceipt, ChainInv
<1>2. r.body = b /\ b.run_id = run_id /\ b.continuity = c
  <2>1. b.run_id = run_id /\ b.continuity = c
    BY BodyFields
  <2> HIDE DEF b
  <2>2. QED
    BY <2>1, ReceiptShape
<1>3. Len(genuine) \in Nat /\ DOMAIN genuine = 1..Len(genuine)
  BY <1>1, SeqFacts
<1>4. c = None \/ c = continuity_from_prior(run_id, last_of(run_id))
  OBVIOUS
<1>5. r = Receipt(Gateway, ReceiptBody("action", run_id, <<"call", Len(genuine)>>, None, None, c))
  OBVIOUS
<1> HIDE DEF r, b, c
<1>6. /\ IsSeq(Append(genuine, r)) /\ DOMAIN genuine' = 1..k
      /\ (\A i \in DOMAIN genuine : genuine'[i] = genuine[i]) /\ genuine'[k] = r
  BY <1>1, AppendFacts
<1>7. IsSeq(genuine)'
  BY <1>1, <1>6 DEF IsSeq
<1>8. run_of(k)' = run_id /\ link_of(k)' = c
  BY <1>2, <1>6 DEF run_of, link_of
<1>9. Grown(run_id, k)
  <2>1. k \in Nat \ {0} /\ k - 1 = Len(genuine)
    BY <1>3
  <2>2. \A i \in 1..(k - 1) : genuine'[i] = genuine[i] /\ run_of(i)' = run_of(i) /\ link_of(i)' = link_of(i)
    BY <1>3, <1>6, <2>1 DEF run_of, link_of
  <2>3. QED
    BY <1>3, <1>5, <1>6, <1>8, <2>1, <2>2 DEF Grown
<1>10. NewLink(run_id, k)
  <2>1. CASE c = None
    BY <1>8, <2>1 DEF NewLink
  <2>2. CASE c = continuity_from_prior(run_id, last_of(run_id))
    BY <1>1, <1>8, <2>2, NextLink DEF NewLink, NewContinues
  <2>3. QED
    BY <1>4, <2>1, <2>2
<1>11. QED
  BY <1>7, <1>9, <1>10

LEMMA IssuedStays ==
  ASSUME ChainInv, subject = "chain", NEW run_id \in Runs, NEW k, Grown(run_id, k), NewLink(run_id, k)
  PROVE  \A i \in DOMAIN genuine' : Issued(i)'
<1>1. ASSUME NEW i \in 1..(k - 1)
      PROVE  Issued(i)'
  <2>1. Issued(i) /\ i \in Nat
    BY DEF ChainInv, Grown
  <2>2. \A j \in 1..i : j \in 1..(k - 1) /\ genuine'[j] = genuine[j] /\ run_of(j)' = run_of(j) /\ link_of(j)' = link_of(j)
    BY DEF Grown
  <2>3. ASSUME NEW j \in 1..(i - 1), Continues(j, i)
        PROVE  Continues(j, i)'
    <3>1. /\ genuine'[j] = genuine[j] /\ run_of(j)' = run_of(j) /\ link_of(j)' = link_of(j)
          /\ run_of(i)' = run_of(i) /\ link_of(i)' = link_of(i)
      BY <2>1, <2>2
    <3>2. \A l \in (j + 1)..(i - 1) : run_of(l)' = run_of(l)
      BY <2>1, <2>2
    <3>3. QED
      BY <2>3, <3>1, <3>2 DEF Continues
  <2>4. genuine'[i] = genuine[i] /\ run_of(i)' = run_of(i) /\ link_of(i)' = link_of(i)
    BY <2>1, <2>2
  <2>5. \A j \in 1..(i - 1) : run_of(j)' = run_of(j)
    BY <2>1, <2>2
  <2>6. QED
    BY <2>1, <2>3, <2>4, <2>5 DEF Issued
<1>2. Issued(k)'
  <2>1. run_of(k)' \in Runs /\ DOMAIN genuine = 1..(k - 1) /\ k \in Nat \ {0}
        /\ genuine'[k] = Receipt(Gateway, ReceiptBody("action", run_of(k)', <<"call", k - 1>>, None, None, link_of(k)'))
    BY DEF Grown
  <2>2. \A j \in 1..(k - 1) : /\ run_of(j)' = run_of(j) /\ link_of(j)' = link_of(j)
                             /\ genuine'[j] = genuine[j]
    BY DEF Grown
  <2>3. ASSUME NEW m \in DOMAIN genuine, NewContinues(run_id, k, m)
        PROVE  m \in 1..(k - 1) /\ Continues(m, k)'
    <3>1. \A l \in (m + 1)..(k - 1) : l \in DOMAIN genuine /\ run_of(l)' = run_of(l) /\ ~(l <= m)
      BY <2>1, <2>2
    <3>2. \A l \in (m + 1)..(k - 1) : run_of(l)' # run_id
      BY <2>3, <3>1 DEF NewContinues
    <3>3. QED
      BY <2>1, <2>2, <2>3, <3>2 DEF NewContinues, Continues, Grown
  <2>4. run_of(k)' = run_id
    BY DEF Grown
  <2>5. QED
    BY <2>1, <2>2, <2>3, <2>4 DEF NewLink, Issued
<1>3. QED
  <2>1. \A i \in DOMAIN genuine' : i \in 1..(k - 1) \/ i = k
    BY DEF Grown
  <2>2. QED
    BY <1>1, <1>2, <2>1

LEMMA UnbrokenStays ==
  ASSUME NoneApart, ChainInv, subject = "chain", NEW run_id \in Runs, NEW k,
         Grown(run_id, k), NewLink(run_id, k), ~LinkedToUnlinked', NEW r \in Runs
  PROVE  Unbroken(r)'
<1> DEFINE old == linked(genuine, r)
           new == linked(genuine', r)
           c == Cardinality(old)
<1>1. /\ k \in Nat \ {0} /\ DOMAIN genuine = 1..(k - 1) /\ DOMAIN genuine' = 1..k
      /\ \A i \in DOMAIN genuine : /\ i \in DOMAIN genuine' /\ i < k
                                   /\ genuine'[i] = genuine[i] /\ run_of(i)' = run_of(i) /\ link_of(i)' = link_of(i)
      /\ run_of(k)' = run_id
  BY DEF Grown
<1>2. ~LinkedToUnlinked
  BY <1>1 DEF LinkedToUnlinked
<1>3. Unbroken(r) /\ IsFiniteSet(old) /\ c \in Nat /\ \A i \in DOMAIN genuine : Issued(i)
  BY <1>2, LinkedFinite DEF ChainInv
<1>4. /\ \A i \in DOMAIN genuine : i \in new <=> i \in old
      /\ old \subseteq DOMAIN genuine /\ new \subseteq DOMAIN genuine'
      /\ \A i \in old : number(genuine', i) = number(genuine, i) /\ genuine'[i] = genuine[i] /\ i < k
      /\ k \notin old
  BY <1>1 DEF linked, number
<1>5. k \in new <=> link_of(k)' # None /\ r = run_id
  BY <1>1 DEF linked, link_of, NewLink
<1>6. \A i \in old : run_of(i) = r /\ number(genuine, i) \in Nat \ {0}
  <2> TAKE i \in old
  <2>1. Issued(i) /\ link_of(i) # None /\ link_of(i).run_id = r
    BY <1>3 DEF linked, link_of
  <2>2. QED
    BY <2>1 DEF Issued, number, link_of
<1>7. /\ {number(genuine, i) : i \in old} = 1..c
      /\ \A i, j \in old : number(genuine, i) = number(genuine, j) => i = j
      /\ \A i, j \in old : number(genuine, j) = number(genuine, i) + 1 =>
           genuine[j].body.continuity.prev = genuine[i].stated
      /\ \A i \in old : (\A j \in DOMAIN genuine : j > i => run_of(j) # r) => number(genuine, i) = c
  BY <1>3 DEF Unbroken, link_of
<1>8. SUFFICES /\ {number(genuine', i) : i \in new} = 1..Cardinality(new)
               /\ \A i, j \in new : number(genuine', i) = number(genuine', j) => i = j
               /\ \A i, j \in new : number(genuine', j) = number(genuine', i) + 1 =>
                    genuine'[j].body.continuity.prev = genuine'[i].stated
               /\ \A i \in new : (\A j \in DOMAIN genuine' : j > i => run_of(j)' # r)
                    => number(genuine', i) = Cardinality(new)
  BY DEF Unbroken, link_of
<1>9. CASE k \notin new
  <2>1. new = old
    <3>1. \A i \in DOMAIN genuine' : i = k \/ i \in DOMAIN genuine
      BY <1>1
    <3> HIDE DEF old, new
    <3>2. QED
      BY <1>4, <1>9, <3>1
  <2>2. \A i \in new : (\A j \in DOMAIN genuine' : j > i => run_of(j)' # r)
                   => number(genuine', i) = c
    <3> SUFFICES ASSUME NEW i \in old, \A j \in DOMAIN genuine' : j > i => run_of(j)' # r
                 PROVE  number(genuine, i) = c
      BY <1>4, <2>1
    <3>1. \A j \in DOMAIN genuine : j > i => run_of(j) # r
      BY <1>1
    <3>2. QED
      BY <1>7, <3>1
  <2> HIDE DEF old, new
  <2>3. QED
    BY <1>4, <1>7, <2>1, <2>2
<1>10. CASE k \in new
  <2>1. new = old \union {k} /\ r = run_id /\ link_of(k)' # None
    BY <1>1, <1>4, <1>5, <1>10
  <2>2. Cardinality(new) = c + 1
    <3> HIDE DEF old, new
    <3>1. Cardinality(old \union {k}) = Cardinality(old) + 1
      BY <1>3, <1>4, FS_AddElement
    <3>2. QED
      BY <2>1, <3>1
  <2>3. /\ number(genuine', k) = c + 1
        /\ \A i \in old : number(genuine, i) = c => genuine'[k].body.continuity.prev = genuine[i].stated
    <3>0. number(genuine', k) = link_of(k)'.sequence_number /\ genuine'[k].body.continuity = link_of(k)'
      BY DEF number, link_of
    <3>1. CASE /\ link_of(k)'.sequence_number = 1
               /\ \A i \in DOMAIN genuine : run_of(i) # run_id
      <4>1. old = {}
        BY <1>4, <1>6, <2>1, <3>1
      <4>2. c = 0
        BY <4>1, FS_EmptySet
      <4>3. QED
        BY <3>0, <3>1, <4>1, <4>2
    <3>2. ASSUME NEW m \in DOMAIN genuine, NewContinues(run_id, k, m)
          PROVE  /\ link_of(k)'.sequence_number = c + 1
                 /\ \A i \in old : number(genuine, i) = c => link_of(k)'.prev = genuine[i].stated
      <4>1. link_of(k)'.prev = genuine[m].stated /\ genuine[m].stated # None /\ Issued(m)
        BY <1>3, <3>2, IssuedFields DEF NewContinues, NoneApart
      <4>2. link_of(m) # None
        <5>1. SUFFICES ASSUME link_of(m) = None
                       PROVE  LinkedToUnlinked'
          OBVIOUS
        <5>2. /\ k \in DOMAIN genuine' /\ m \in DOMAIN genuine'
              /\ genuine'[k].body.continuity # None /\ genuine'[k].body.continuity.prev # None
              /\ genuine'[m].stated = genuine'[k].body.continuity.prev
              /\ genuine'[m].body.continuity = None
          BY <1>1, <2>1, <3>0, <4>1, <5>1 DEF link_of
        <5>3. QED
          BY <5>2 DEF LinkedToUnlinked
      <4>3. m \in old
        BY <2>1, <3>2, <4>1, <4>2 DEF linked, link_of, run_of, Issued, NewContinues
      <4>4. number(genuine, m) = c
        <5>1. \A j \in DOMAIN genuine : j > m => run_of(j) # r
          BY <1>1, <2>1, <3>2 DEF NewContinues
        <5>2. QED
          BY <1>7, <4>3, <5>1
      <4>5. link_of(k)'.sequence_number = c + 1
        BY <3>2, <4>2, <4>4 DEF NewContinues, number, link_of
      <4>6. QED
        BY <1>7, <4>1, <4>3, <4>4, <4>5
    <3>3. QED
      BY <2>1, <3>0, <3>1, <3>2 DEF NewLink
  <2>4. \A i \in old : number(genuine', i) \in 1..c /\ number(genuine', i) = number(genuine, i)
    BY <1>4, <1>7
  <2>5. {number(genuine', i) : i \in new} = 1..(c + 1)
    <3>1. {number(genuine', i) : i \in new} = {number(genuine, i) : i \in old} \union {c + 1}
      <4> HIDE DEF old, new, c
      <4>1. QED
        BY <2>1, <2>3, <2>4
    <3> HIDE DEF old, new, c
    <3>2. 1..c \union {c + 1} = 1..(c + 1)
      BY <1>3
    <3>3. QED
      BY <1>7, <3>1, <3>2
  <2>6. \A i, j \in new : number(genuine', i) = number(genuine', j) => i = j
    <3> HIDE DEF old, new, c
    <3>1. QED
      BY <1>3, <1>7, <2>1, <2>3, <2>4
  <2>7. \A i, j \in new : number(genuine', j) = number(genuine', i) + 1 =>
          genuine'[j].body.continuity.prev = genuine'[i].stated
    <3> TAKE i \in new, j \in new
    <3> HIDE DEF old, new, c
    <3>1. CASE i \in old /\ j \in old
      BY <1>4, <1>7, <2>4, <3>1
    <3>2. CASE i \in old /\ j = k
      <4>1. ASSUME number(genuine', j) = number(genuine', i) + 1
            PROVE  number(genuine, i) = c
        BY <1>3, <2>3, <2>4, <3>2, <4>1
      <4>2. QED
        BY <1>4, <2>3, <3>2, <4>1
    <3>3. CASE i = k
      BY <1>3, <2>1, <2>3, <2>4, <3>3
    <3>4. QED
      BY <2>1, <3>1, <3>2, <3>3
  <2>8. \A i \in new : (\A j \in DOMAIN genuine' : j > i => run_of(j)' # r)
                   => number(genuine', i) = c + 1
    <3>1. \A i \in old : k \in DOMAIN genuine' /\ k > i /\ run_of(k)' = r
      BY <1>1, <1>4, <2>1
    <3> HIDE DEF old, new, c
    <3>2. QED
      BY <2>1, <2>3, <3>1
  <2> HIDE DEF old, new, c
  <2>9. QED
    BY <2>2, <2>5, <2>6, <2>7, <2>8
<1>11. QED
  BY <1>9, <1>10

LEMMA IssueKeeps ==
  ASSUME NoneApart, ChainInv, NEW run_id \in Runs, NEW link \in BOOLEAN, IssueReceipt(run_id, link)
  PROVE  ChainInv'
<1>1. /\ subject = "chain" /\ verdict = None /\ faults = 0
      /\ held' = genuine' /\ subject' = subject /\ options' = options /\ faults' = faults /\ verdict' = verdict
  BY DEF IssueReceipt
<1>2. PICK k : k = Len(genuine) + 1
  OBVIOUS
<1>3. IsSeq(genuine)' /\ Grown(run_id, k) /\ NewLink(run_id, k)
  BY <1>2, IssueGrows
<1>4. \A i \in DOMAIN genuine' : Issued(i)'
  BY <1>1, <1>3, IssuedStays
<1>5. ASSUME NEW i \in DOMAIN genuine'
      PROVE  Unforged(held[i])'
  <2>1. /\ genuine'[i].sig = Signature(Gateway, Digest(genuine'[i].body))
        /\ DOMAIN genuine'[i] = ReceiptFields
    <3> DEFINE b == ReceiptBody("action", run_of(i)', <<"call", i - 1>>, None, None, link_of(i)')
    <3>1. genuine'[i] = Receipt(Gateway, b)
      BY <1>4 DEF Issued
    <3> HIDE DEF b
    <3>2. QED
      BY <3>1, ReceiptShape
  <2>2. genuine'[i].sig.over = Digest(genuine'[i].body)
    BY <2>1, SignatureFields
  <2>3. QED
    BY <1>1, <2>1, <2>2 DEF Unforged
<1>6. ~LinkedToUnlinked' => \A r \in Runs : Unbroken(r)'
  BY <1>1, <1>3, UnbrokenStays
<1>7. /\ IsSeq(held)' /\ faults' \in Nat /\ verdict' # "accepted" /\ verdict' # "rejected"
  BY <1>1, <1>3, VerdictAssumption DEF IsSeq
<1>8. \A i \in DOMAIN held' : Unforged(held[i])'
  BY <1>1, <1>5
<1>9. options' = [DefaultOptions EXCEPT !.keys = {Gateway}]
  BY <1>1, Zenon DEF ChainInv
<1>10. QED
  BY <1>1, <1>3, <1>4, <1>6, <1>7, <1>8, <1>9, Zenon DEF ChainInv

(***************************************************************************)
(* Whatever is issued, in chains of any length, and whatever happens to    *)
(* it, any number of times: what verify_agent_receipt_v1 and               *)
(* verify_continuity_chain accept was issued by the Gateway, and of each   *)
(* run nothing before the last accepted link is missing.                   *)
(***************************************************************************)
THEOREM History ==
  ASSUME NoneApart
  PROVE  DocSpec => []AcceptedIsHistory
<1>1. DocInit => ChainInv
  BY ChainInit
<1>2. ASSUME ChainInv, [DocNext]_docVars
      PROVE  ChainInv'
  <2>1. CASE DocNext
    BY <1>2, <2>1, IssueKeeps, DamageKeeps, VerifyKeeps DEF DocNext
  <2>2. CASE UNCHANGED docVars
    <3>1. /\ subject' = subject /\ options' = options /\ genuine' = genuine
          /\ held' = held /\ faults' = faults /\ verdict' = verdict
      BY <2>2 DEF docVars
    <3>2. /\ \A i : Issued(i)' <=> Issued(i)
          /\ LinkedToUnlinked' <=> LinkedToUnlinked
          /\ \A run_id : Unbroken(run_id)' <=> Unbroken(run_id)
          /\ IsSeq(genuine)' <=> IsSeq(genuine)
          /\ IsSeq(held)' <=> IsSeq(held)
          /\ \A i : Unforged(held[i])' <=> Unforged(held[i])
      BY <3>1 DEF Issued, LinkedToUnlinked, Unbroken, Continues, run_of, link_of, IsSeq, Unforged
    <3>3. QED
      BY <1>2, <3>1, <3>2, Zenon DEF ChainInv
  <2>3. QED
    BY <1>2, <2>1, <2>2
<1>3. ChainInv => AcceptedIsHistory
  BY ChainHistory
<1>4. QED
  BY <1>1, <1>2, <1>3, PTL DEF DocSpec

-----------------------------------------------------------------------------
(* The other documents: what was handed out, and what becomes of it. *)

(* The signer's documents state their digest and carry its signature.      *)
SignerMade(d) ==
  /\ d.key = Gateway /\ d.sig = Signature(Gateway, IF subject = "x402" THEN d.body ELSE Digest(d.body))
  /\ subject # "x402" => d.stated = Digest(d.body)
  /\ {"body", "stated", "key", "sig"} \subseteq DOMAIN d
  /\ SameForm(d, d)

LEMMA SignedShape ==
  ASSUME NEW b
  PROVE  LET d == Signed(Gateway, b) IN
         /\ d.key = Gateway /\ d.sig = Signature(Gateway, Digest(b)) /\ d.stated = Digest(b) /\ d.body = b
         /\ {"body", "stated", "key", "sig"} \subseteq DOMAIN d
         /\ SameForm(d, d)
BY DEF Signed, SameForm

LEMMA AttachShape ==
  ASSUME NEW r, DOMAIN r = ReceiptFields, SameForm(r, r), NEW did, NEW key
  PROVE  LET a == attach_operator_attestation_v1(r, did, key) IN
         /\ DOMAIN a = ReceiptFields /\ SameForm(a, a)
         /\ a.body = r.body /\ a.stated = r.stated /\ a.key = r.key /\ a.sig = r.sig
<1> DEFINE a == attach_operator_attestation_v1(r, did, key)
<1>1. PICK t : a = r \/ a = [r EXCEPT !.operator_attestation = t]
  BY DEF attach_operator_attestation_v1
<1> HIDE DEF a
<1>2. QED
  BY <1>1 DEF ReceiptFields, SameForm, a

LEMMA HandedReceipt ==
  ASSUME NEW d \in Handed("receipt")
  PROVE  \E r \in GatewayReceipts : d = r \/ d = attach_operator_attestation_v1(r, "operator", Operator)
BY DEF Handed

(* A receipt of the Gateway has every field it is asked for. *)
LEMMA GatewayReceiptVerifies ==
  ASSUME NoneApart, NEW r \in GatewayReceipts
  PROVE  /\ \E b : r = Receipt(Gateway, b)
         /\ normalize_receipt(r.body) /\ r.body.operator_did = "operator"
<1>1. PICK scope \in {"action", "intent_terminal"},
           evidence \in {None, [payee |-> "payee", payee_signed |-> TRUE],
                         [payee |-> "payee", payee_signed |-> FALSE]},
           mandate \in {None, Mandate("ref")},
           continuity \in {None, [run_id |-> "run1", sequence_number |-> 1, prev |-> None],
                           [run_id |-> "run1", sequence_number |-> 2, prev |-> Prior]} :
        r = Receipt(Gateway, ReceiptBody(scope, "run1", "call1", evidence, mandate, continuity))
  BY DEF GatewayReceipts
<1> DEFINE b == ReceiptBody(scope, "run1", "call1", evidence, mandate, continuity)
<1>2. /\ b.scope = scope /\ b.mandate = mandate /\ b.tool_call_id = "call1" /\ b.run_id = "run1"
      /\ b.continuity = continuity /\ b.intent_id = "intent" /\ b.operator_did = "operator"
      /\ b.settlement_outcome = IF scope = "action" THEN None ELSE "SETTLED"
      /\ b.attestations = IF mandate = None THEN <<>> ELSE <<mandate>>
      /\ b.receipt_id = IF scope = "action" THEN action_receipt_id("intent", "call1")
                        ELSE terminal_receipt_id("intent")
  BY DEF ReceiptBody
<1>3. r = Receipt(Gateway, b)
  BY <1>1
<1> HIDE DEF b
<1>4. r.body = b
  BY <1>3, ReceiptShape
<1>5. verify_mandate_consistency(b)
  <2>1. CASE mandate = None
    BY <1>2, <2>1 DEF verify_mandate_consistency
  <2>2. CASE mandate # None
    <3>1. DOMAIN b.attestations = {1} /\ b.attestations[1] = mandate
      BY <1>2, <2>2
    <3>2. QED
      BY <1>2, <3>1 DEF verify_mandate_consistency
  <2>3. QED
    BY <2>1, <2>2
<1>6. normalize_outcome(b) /\ normalize_execution(b) /\ verify_receipt_id(b)
  BY <1>2 DEF normalize_outcome, normalize_execution, verify_receipt_id, NoneApart
<1>7. normalize_continuity(b)
  <2>1. Prior # None
    BY DEF NoneApart, Prior
  <2>2. QED
    BY <1>2, <2>1 DEF normalize_continuity
<1>8. QED
  BY <1>2, <1>3, <1>4, <1>5, <1>6, <1>7 DEF normalize_receipt

LEMMA HandedShape ==
  ASSUME NoneApart, subject \in SignedKinds, NEW d \in Handed(subject)
  PROVE  SignerMade(d)
<1>1. CASE subject = "receipt"
  <2>1. PICK r \in GatewayReceipts : d = r \/ d = attach_operator_attestation_v1(r, "operator", Operator)
    BY <1>1, HandedReceipt
  <2>2. PICK b : r = Receipt(Gateway, b)
    BY GatewayReceiptVerifies
  <2>3. /\ DOMAIN r = ReceiptFields /\ SameForm(r, r)
        /\ r.key = Gateway /\ r.body = b /\ r.stated = Digest(b) /\ r.sig = Signature(Gateway, Digest(b))
    BY <2>2 DEF Receipt, ReceiptFields, SameForm
  <2>4. /\ DOMAIN d = ReceiptFields /\ SameForm(d, d)
        /\ d.key = Gateway /\ d.body = b /\ d.stated = Digest(b) /\ d.sig = Signature(Gateway, Digest(b))
    <3>1. CASE d = r
      BY <2>3, <3>1
    <3>2. CASE d = attach_operator_attestation_v1(r, "operator", Operator)
      <4>1. /\ DOMAIN d = ReceiptFields /\ SameForm(d, d)
            /\ d.body = r.body /\ d.stated = r.stated /\ d.key = r.key /\ d.sig = r.sig
        BY <2>3, <3>2, AttachShape
      <4>2. QED
        BY <2>3, <4>1
    <3>3. QED
      BY <2>1, <3>1, <3>2
  <2>5. {"body", "stated", "key", "sig"} \subseteq ReceiptFields
    BY DEF ReceiptFields
  <2>6. QED
    BY <1>1, <2>4, <2>5 DEF SignerMade
<1>2. CASE subject \in {"mandate", "protocol", "manifest"}
  <2>1. PICK b : d = Signed(Gateway, b)
    BY <1>2 DEF Handed, sign_agent_mandate_v1
  <2>2. QED
    BY <1>2, <2>1, SignedShape DEF SignerMade
<1>3. CASE subject = "x402"
  <2>1. PICK b : d = [body |-> b, stated |-> None, key |-> Gateway, sig |-> Signature(Gateway, b)]
    BY <1>3 DEF Handed
  <2>2. QED
    BY <1>3, <2>1 DEF SignerMade, SameForm
<1>4. QED
  BY <1>1, <1>2, <1>3 DEF SignedKinds

(* Damage leaves the form, and the signature or one of another key.        *)
LEMMA DamagedForm ==
  ASSUME NEW e, NEW d, SameForm(d, e), SameSignature(d, e), "sig" \in DOMAIN e,
         NEW bodies, NEW x \in Damaged(d, bodies)
  PROVE  SameForm(x, e) /\ SameSignature(x, e)
<1>1. DOMAIN d = DOMAIN e /\ "sig" \in DOMAIN d
  BY DEF SameForm
<1> DEFINE Good(y) == y = [f \in DOMAIN d |-> y[f]] /\ (y.sig = d.sig \/ \E m : y.sig = Signature(Elsewhere, m))
<1>2. ASSUME NEW b, x = [d EXCEPT !.body = b]
      PROVE  Good(x)
  BY <1>1, <1>2
<1>3. ASSUME NEW b, x = [d EXCEPT !.body = b, !.stated = Digest(b)]
      PROVE  Good(x)
  BY <1>1, <1>3
<1>4. ASSUME NEW b, x = [d EXCEPT !.body = b, !.stated = Digest(b), !.key = Elsewhere,
                                  !.sig = Signature(Elsewhere, Digest(b))]
      PROVE  Good(x)
  <2>1. x.sig = Signature(Elsewhere, Digest(b))
    BY <1>1, <1>4
  <2>2. x = [f \in DOMAIN d |-> x[f]]
    BY <1>1, <1>4
  <2>3. QED
    BY <2>1, <2>2
<1>5. ASSUME x = [d EXCEPT !.sig = Signature(Elsewhere, d.stated)]
      PROVE  Good(x)
  <2>1. x.sig = Signature(Elsewhere, d.stated)
    BY <1>1, <1>5
  <2>2. x = [f \in DOMAIN d |-> x[f]]
    BY <1>1, <1>5
  <2>3. QED
    BY <2>1, <2>2
<1> DEFINE Altered(b) ==
             {[d EXCEPT !.body = b], [d EXCEPT !.body = b, !.stated = Digest(b)],
              [d EXCEPT !.body = b, !.stated = Digest(b), !.key = Elsewhere,
                        !.sig = Signature(Elsewhere, Digest(b))]}
           Resigned == [d EXCEPT !.sig = Signature(Elsewhere, d.stated)]
<1>6. ASSUME NEW b, x \in Altered(b)
      PROVE  Good(x)
  <2> HIDE DEF Good
  <2>1. QED
    BY <1>2, <1>3, <1>4, <1>6, Zenon
<1>7. Damaged(d, bodies) = (UNION {Altered(b) : b \in bodies}) \union {Resigned}
  BY Zenon DEF Damaged
<1>8. Good(x)
  <2> HIDE DEF Altered, Good
  <2>1. QED
    BY <1>5, <1>6, <1>7
<1>9. Gateway # Elsewhere
  BY DEF Gateway, Elsewhere
<1>10. x.sig.by = Gateway => x.sig = d.sig
  BY <1>8, <1>9, SignatureFields
<1>11. QED
  BY <1>1, <1>8, <1>10 DEF SameForm, SameSignature

LEMMA DamageKeepsDocument ==
  ASSUME NoneApart, DocumentInv, Damage, subject \in SignedKinds \union {"pef", "scitt"}
  PROVE  /\ SameForm(held', genuine)
         /\ subject \in SignedKinds => SameSignature(held', genuine)
         /\ subject = "scitt" => SameForm(held'.cose, genuine.cose) /\ SameSignature(held'.cose, genuine.cose)
<1>1. held' \in Left(subject, held) /\ SameForm(held, genuine) /\ genuine \in Handed(subject)
  BY DEF Damage, DocumentInv
<1>2. CASE subject \in SignedKinds
  <2>1. SameSignature(held, genuine) /\ "sig" \in DOMAIN genuine /\ subject # "scitt"
    BY <1>1, <1>2, HandedShape DEF DocumentInv, SignerMade, SignedKinds
  <2>2. CASE \E bodies : held' \in Damaged(held, bodies)
    BY <1>1, <2>1, <2>2, DamagedForm
  <2>3. ASSUME NEW a, held' = [held EXCEPT !.operator_attestation = a]
        PROVE  SameForm(held', genuine) /\ SameSignature(held', genuine)
    <3>1. held'.sig = held.sig
      BY <1>1, <2>1, <2>3 DEF SameForm
    <3>2. held' = [f \in DOMAIN genuine |-> held'[f]]
      BY <1>1, <2>3 DEF SameForm
    <3>3. QED
      BY <2>1, <3>1, <3>2 DEF SameForm, SameSignature
  <2>4. \/ \E bodies : held' \in Damaged(held, bodies)
        \/ \E a : held' = [held EXCEPT !.operator_attestation = a]
    BY <1>1, <1>2 DEF Left, DamagedReceipt, SignedKinds
  <2>5. QED
    BY <2>1, <2>2, <2>3, <2>4
<1>3. CASE subject = "pef"
  <2>1. DOMAIN genuine = {"receipt", "receipt_hash", "provider", "time", "frame_id"}
    <3>1. genuine = pef_frame("receipt1", "provider", 1)
      BY <1>1, <1>3 DEF Handed
    <3>2. QED
      BY <3>1 DEF pef_frame
  <2>2. ASSUME held' = pef_frame("receipt2", "provider", 1)
        PROVE  SameForm(held', genuine)
    BY <2>1, <2>2 DEF SameForm, pef_frame
  <2>3. \/ held' = [held EXCEPT !.receipt = "receipt2"]
        \/ held' = [held EXCEPT !.time = 2]
        \/ held' = [held EXCEPT !.receipt = "receipt2", !.receipt_hash = Digest("receipt2")]
        \/ held' = pef_frame("receipt2", "provider", 1)
    BY <1>1, <1>3 DEF Left
  <2>4. SameForm(held', genuine)
    BY <1>1, <2>2, <2>3 DEF SameForm
  <2>5. QED
    BY <1>3, <2>4 DEF SignedKinds
<1>4. CASE subject = "scitt"
  <2>1. /\ DOMAIN genuine = {"receipt_id", "digest", "key", "statement", "cose"}
        /\ DOMAIN genuine.cose = {"protected", "payload", "sig"}
    <3>1. genuine = scitt_export("receipt1", Digest("receipt1"), Gateway, "issuer")
      BY <1>1, <1>4 DEF Handed
    <3>2. QED
      BY <3>1 DEF scitt_export
  <2>2. SameForm(held.cose, genuine.cose) /\ SameSignature(held.cose, genuine.cose)
    BY <1>4 DEF DocumentInv, SignedKinds
  <2> DEFINE x == scitt_export("receipt2", Digest("receipt2"), Elsewhere, "issuer")
             m == <<"issuer", <<"receipt2", Digest("receipt2")>>>>
  <2>3. SameForm(x, genuine) /\ SameForm(x.cose, genuine.cose) /\ x.cose.sig = Signature(Elsewhere, m)
    <3>1. x = scitt_export("receipt2", Digest("receipt2"), Elsewhere, "issuer")
      OBVIOUS
    <3> HIDE DEF x
    <3>2. QED
      BY <2>1, <3>1 DEF SameForm, scitt_export
  <2> HIDE DEF x, m
  <2>4. SameSignature(x.cose, genuine.cose)
    <3>1. Gateway # Elsewhere
      BY DEF Gateway, Elsewhere
    <3>2. QED
      BY <2>3, <3>1, SignatureFields DEF SameSignature
  <2>5. ASSUME \/ held' = [held EXCEPT !.receipt_id = "receipt2"]
               \/ held' = [held EXCEPT !.receipt_id = "receipt2", !.statement = <<"receipt2", held.digest>>]
        PROVE  SameForm(held', genuine) /\ held'.cose = held.cose
    BY <1>1, <2>1, <2>5 DEF SameForm
  <2>6. ASSUME held' = [held EXCEPT !.receipt_id = "receipt2", !.statement = <<"receipt2", held.digest>>,
                                    !.cose.payload = <<"receipt2", held.digest>>]
        PROVE  /\ SameForm(held', genuine)
               /\ held'.cose = [held.cose EXCEPT !.payload = <<"receipt2", held.digest>>]
    BY <1>1, <2>1, <2>6 DEF SameForm
  <2>7. ASSUME NEW p, held'.cose = [held.cose EXCEPT !.payload = p]
        PROVE  SameForm(held'.cose, genuine.cose) /\ SameSignature(held'.cose, genuine.cose)
    <3>1. held'.cose.sig = held.cose.sig
      BY <2>1, <2>2, <2>7 DEF SameForm
    <3>2. SameForm(held'.cose, genuine.cose)
      BY <2>1, <2>2, <2>7 DEF SameForm
    <3>3. QED
      BY <2>2, <3>1, <3>2 DEF SameSignature
  <2>8. \/ held' = [held EXCEPT !.receipt_id = "receipt2"]
        \/ held' = [held EXCEPT !.receipt_id = "receipt2", !.statement = <<"receipt2", held.digest>>]
        \/ held' = [held EXCEPT !.receipt_id = "receipt2", !.statement = <<"receipt2", held.digest>>,
                                 !.cose.payload = <<"receipt2", held.digest>>]
        \/ held' = x
    BY <1>1, <1>4, Zenon DEF Left, x
  <2>9. QED
    BY <1>4, <2>2, <2>3, <2>4, <2>5, <2>6, <2>7, <2>8 DEF SignedKinds
<1>5. QED
  BY <1>2, <1>3, <1>4

(* A verifier that checks digest and signature accepts a document with the *)
(* signer's key only if it has the body that was signed.                   *)
LEMMA SignedBody ==
  ASSUME NEW d, NEW g, SameSignature(d, g), verify_signed_digest(d), d.key = Gateway,
         g.sig = Signature(Gateway, Digest(g.body))
  PROVE  d.body = g.body
<1>1. d.sig = Signature(Gateway, Digest(d.body)) /\ d.sig.by = Gateway
  BY SignatureFields DEF verify_signed_digest
<1>2. Signature(Gateway, Digest(d.body)) = Signature(Gateway, Digest(g.body))
  BY <1>1 DEF SameSignature
<1>3. Digest(d.body) = Digest(g.body)
  BY <1>2, SignatureFields
<1>4. QED
  BY <1>3, DigestInjective

LEMMA AcceptedReceiptGenuine ==
  ASSUME NoneApart, DocumentInv, subject = "receipt", verdict = "accepted"
  PROVE  /\ held.body = genuine.body
         /\ tier_rank(achieved_validity_tier(held, options.operators)) >= tier_rank(options.tier)
         /\ options.tier = "attested" => held.operator_attestation.sig = Signature(Operator, genuine.stated)
<1>1. verify_agent_receipt_v1(held, options) /\ options \in ReceiptOptions
  BY DEF DocumentInv, Accepts, Asked, SignedKinds
<1>2. /\ options.keys = {Gateway} /\ options.operators \in {{}, {Operator}}
      /\ options.tier \in {"operational", "primary", "attested"}
  BY <1>1 DEF ReceiptOptions
<1>3. /\ held.key = Gateway /\ verify_signed_digest(held)
      /\ verify_operator_attestation(held, options) /\ require_validity_tier(held, options)
  BY <1>1, <1>2 DEF verify_agent_receipt_v1, allows_signing_public_key
<1>4. SignerMade(genuine) /\ SameSignature(held, genuine)
  BY HandedShape DEF DocumentInv, SignedKinds
<1>5. genuine.sig = Signature(Gateway, Digest(genuine.body)) /\ genuine.stated = Digest(genuine.body)
  BY <1>4 DEF SignerMade
<1>6. held.body = genuine.body
  BY <1>3, <1>4, <1>5, SignedBody
<1>7. tier_rank(achieved_validity_tier(held, options.operators)) >= tier_rank(options.tier)
  <2>1. tier_rank("operational") = 0 /\ tier_rank("primary") = 1 /\ tier_rank("attested") = 2
    BY DEF tier_rank
  <2>2. CASE options.tier = "operational"
    <3>1. achieved_validity_tier(held, options.operators) \in {"operational", "primary", "attested"}
      BY DEF achieved_validity_tier
    <3>2. QED
      BY <2>1, <2>2, <3>1
  <2>3. CASE options.tier = "primary"
    <3>1. achieved_validity_tier(held, options.operators) \in {"primary", "attested"}
      BY <1>3, <2>3 DEF achieved_validity_tier, require_validity_tier
    <3>2. QED
      BY <2>1, <2>3, <3>1
  <2>4. CASE options.tier = "attested"
    <3>1. achieved_validity_tier(held, options.operators) = "attested"
      BY <1>3, <2>4 DEF achieved_validity_tier, require_validity_tier
    <3>2. QED
      BY <2>1, <2>4, <3>1
  <2>5. QED
    BY <1>2, <2>2, <2>3, <2>4
<1>8. ASSUME options.tier = "attested"
      PROVE  held.operator_attestation.sig = Signature(Operator, genuine.stated)
  <2>1. held.operator_attestation # None /\ held.operator_attestation.key = Operator
    BY <1>2, <1>3, <1>8 DEF require_validity_tier, require_attested_validity
  <2>2. held.operator_attestation.sig = Signature(Operator, Digest(held.body))
    BY <1>3, <2>1 DEF verify_operator_attestation
  <2>3. QED
    BY <1>5, <1>6, <2>2
<1>9. QED
  BY <1>6, <1>7, <1>8

LEMMA AcceptedPef ==
  ASSUME DocumentInv, subject = "pef", verdict = "accepted", held.frame_id = genuine.frame_id
  PROVE  held = genuine
<1>1. genuine = pef_frame("receipt1", "provider", 1) /\ SameForm(held, genuine) /\ verify_pef_frame_id(held)
  BY DEF DocumentInv, Handed, Accepts
<1> DEFINE g == <<"provider", 1, "receipt1", Digest("receipt1")>>
           h == <<held.provider, held.time, held.receipt, Digest(held.receipt)>>
<1>2. genuine.frame_id = Digest(g) /\ held.frame_id = Digest(h) /\ held.receipt_hash = Digest(held.receipt)
  BY <1>1 DEF pef_frame, verify_pef_frame_id
<1>3. g = h
  <2> HIDE DEF g, h
  <2>1. QED
    BY <1>2, DigestInjective
<1>4. /\ held.provider = "provider" /\ held.time = 1 /\ held.receipt = "receipt1"
      /\ held.receipt_hash = Digest("receipt1")
  BY <1>2, <1>3
<1>5. QED
  BY <1>1, <1>4 DEF SameForm, pef_frame

LEMMA AcceptedScitt ==
  ASSUME DocumentInv, subject = "scitt", verdict = "accepted", held.key = Gateway
  PROVE  held = genuine
<1>1. /\ genuine = scitt_export("receipt1", Digest("receipt1"), Gateway, "issuer")
      /\ SameForm(held, genuine) /\ SameForm(held.cose, genuine.cose) /\ SameSignature(held.cose, genuine.cose)
      /\ verify_scitt_export(held)
  BY DEF DocumentInv, Handed, Accepts
<1> DEFINE s == <<"receipt1", Digest("receipt1")>>
           g == <<"issuer", s>>
           h == <<held.cose.protected, held.cose.payload>>
<1>2. /\ genuine.cose.sig = Signature(Gateway, g) /\ held.cose.sig = Signature(Gateway, h)
      /\ held.statement = <<held.receipt_id, held.digest>> /\ held.cose.payload = held.statement
  BY <1>1 DEF scitt_export, verify_scitt_export
<1>3. g = h /\ held.cose.sig = genuine.cose.sig
  <2> HIDE DEF g, h
  <2>1. held.cose.sig = genuine.cose.sig
    BY <1>1, <1>2, SignatureFields DEF SameSignature
  <2>2. Signature(Gateway, g) = Signature(Gateway, h)
    BY <1>2, <2>1
  <2>3. Signature(Gateway, g).over = g /\ Signature(Gateway, h).over = h
    BY SignatureFields
  <2>4. QED
    BY <2>1, <2>2, <2>3
<1>4. held.cose.protected = "issuer" /\ held.cose.payload = s
  BY <1>3
<1>5. held.receipt_id = "receipt1" /\ held.digest = Digest("receipt1") /\ held.statement = s
  BY <1>2, <1>4
<1>6. held.cose = genuine.cose
  <2>1. /\ DOMAIN genuine.cose = {"protected", "payload", "sig"}
        /\ genuine.cose.protected = "issuer" /\ genuine.cose.payload = s
        /\ genuine.cose = [f \in DOMAIN genuine.cose |-> genuine.cose[f]]
    BY <1>1 DEF scitt_export
  <2> HIDE DEF s
  <2>2. \A f \in DOMAIN genuine.cose : held.cose[f] = genuine.cose[f]
    BY <1>3, <1>4, <2>1
  <2>3. QED
    BY <1>1, <2>1, <2>2 DEF SameForm
<1>7. QED
  <2>1. /\ DOMAIN genuine = {"receipt_id", "digest", "key", "statement", "cose"}
        /\ genuine.receipt_id = "receipt1" /\ genuine.digest = Digest("receipt1") /\ genuine.key = Gateway
        /\ genuine.statement = s
        /\ genuine = [f \in DOMAIN genuine |-> genuine[f]]
    BY <1>1 DEF scitt_export
  <2> HIDE DEF s
  <2>2. \A f \in DOMAIN genuine : held[f] = genuine[f]
    BY <1>5, <1>6, <2>1
  <2>3. QED
    BY <1>1, <2>1, <2>2 DEF SameForm

(* A document that nothing happened to is accepted. *)
LEMMA UntouchedAccepted ==
  ASSUME NoneApart, DocumentInv, subject \in {"protocol", "x402", "manifest", "pef", "scitt"}
  PROVE  Accepts(subject, genuine, options)
<1>1. genuine \in Handed(subject)
  BY DEF DocumentInv, SignedKinds
<1>2. CASE subject = "protocol"
  BY <1>1, <1>2 DEF Handed, Accepts
<1>3. CASE subject \in {"x402", "manifest"}
  <2>1. SignerMade(genuine)
    BY <1>1, <1>3, HandedShape DEF SignedKinds
  <2>2. CASE subject = "x402"
    BY <2>1, <2>2 DEF SignerMade, Accepts, verify_signed_x402_receipt, NoneApart
  <2>3. CASE subject = "manifest"
    <3>1. /\ genuine.key = Gateway /\ genuine.sig = Signature(Gateway, Digest(genuine.body))
          /\ genuine.stated = Digest(genuine.body)
      BY <2>1, <2>3 DEF SignerMade
    <3>2. QED
      BY <2>3, <3>1 DEF Accepts, verify_audit_manifest, verify_signed_digest, NoneApart
  <2>4. QED
    BY <1>3, <2>2, <2>3
<1>4. CASE subject = "pef"
  <2>1. genuine = pef_frame("receipt1", "provider", 1)
    BY <1>1, <1>4 DEF Handed
  <2>2. verify_pef_frame_id(genuine)
    BY <2>1 DEF verify_pef_frame_id, pef_frame
  <2>3. QED
    BY <1>4, <2>2 DEF Accepts
<1>5. CASE subject = "scitt"
  <2>1. genuine = scitt_export("receipt1", Digest("receipt1"), Gateway, "issuer")
    BY <1>1, <1>5 DEF Handed
  <2>2. verify_scitt_export(genuine)
    BY <2>1 DEF verify_scitt_export, scitt_export
  <2>3. QED
    BY <1>5, <2>2 DEF Accepts
<1>6. QED
  BY <1>2, <1>3, <1>4, <1>5

LEMMA UntouchedMandate ==
  ASSUME DocumentInv, subject = "mandate"
  PROVE  Accepts(subject, genuine, options) \/ genuine.body.expires_at <= options.now
<1>1. genuine \in Handed("mandate") /\ options \in [now : Now]
  BY DEF DocumentInv, SignedKinds, Asked
<1>2. PICK b \in MandateBodies : genuine = sign_agent_mandate_v1(Gateway, b) /\ genuine # None
  BY <1>1 DEF Handed
<1>3. normalize_agent_mandate(b) /\ genuine = Signed(Gateway, b)
  BY <1>2 DEF sign_agent_mandate_v1
<1>4. /\ genuine.body = b /\ genuine.key = Gateway /\ genuine.stated = Digest(b)
      /\ genuine.sig = Signature(Gateway, Digest(b))
  BY <1>3, SignedShape
<1>5. b.expires_at \in {1, 2} /\ options.now \in {1, 2}
  BY <1>1 DEF MandateBodies, Now
<1>6. CASE b.expires_at > options.now
  BY <1>3, <1>4, <1>6 DEF Accepts, verify_signed_agent_mandate_v1, verify_signed_digest
<1>7. QED
  BY <1>4, <1>5, <1>6

LEMMA UntouchedReceipt ==
  ASSUME NoneApart, DocumentInv, subject = "receipt",
         options = [DefaultOptions EXCEPT !.keys = {Gateway}, !.operators = options.operators]
  PROVE  Accepts(subject, genuine, options)
<1>1. genuine \in Handed("receipt")
  BY DEF DocumentInv, SignedKinds
<1>2. PICK r \in GatewayReceipts :
        genuine = r \/ genuine = attach_operator_attestation_v1(r, "operator", Operator)
  BY <1>1, HandedReceipt
<1>3. PICK b : r = Receipt(Gateway, b)
  BY GatewayReceiptVerifies
<1>4. /\ DOMAIN r = ReceiptFields /\ SameForm(r, r) /\ r.operator_attestation = None
      /\ r.key = Gateway /\ r.body = b /\ r.stated = Digest(b) /\ r.sig = Signature(Gateway, Digest(b))
  BY <1>3 DEF Receipt, ReceiptFields, SameForm
<1>5. normalize_receipt(b) /\ b.operator_did = "operator"
  BY <1>4, GatewayReceiptVerifies
<1>6. /\ genuine.key = Gateway /\ genuine.body = b /\ genuine.stated = Digest(b)
      /\ genuine.sig = Signature(Gateway, Digest(b))
  <2>1. SignerMade(genuine)
    BY <1>1, HandedShape DEF SignedKinds
  <2>2. genuine.body = b
    BY <1>2, <1>4, AttachShape
  <2>3. QED
    BY <2>1, <2>2 DEF SignerMade
<1>7. /\ options.registry = None /\ options.mode = "gateway" /\ options.tier = "operational"
      /\ options.keys = {Gateway} /\ options.prior = None
  BY DEF DefaultOptions
<1>8. verify_operator_attestation(genuine, options)
  <2>1. CASE genuine.operator_attestation = None
    BY <2>1 DEF verify_operator_attestation
  <2>2. CASE /\ genuine = attach_operator_attestation_v1(r, "operator", Operator) /\ genuine # r
    <3> DEFINE t == [operator_did |-> "operator", key |-> Operator, stated |-> r.stated,
                     sig |-> Signature(Operator, r.stated)]
    <3>1. genuine = [r EXCEPT !.operator_attestation = t]
      BY <2>2 DEF attach_operator_attestation_v1
    <3> HIDE DEF t
    <3>2. genuine.operator_attestation = t
      BY <1>4, <3>1 DEF ReceiptFields
    <3>3. /\ t.operator_did = "operator" /\ t.key = Operator /\ t.stated = Digest(b)
          /\ t.sig = Signature(Operator, Digest(b))
      BY <1>4 DEF t
    <3>4. ~enforce_registry(options)
      BY <1>7 DEF enforce_registry, NoneApart
    <3>5. QED
      BY <1>5, <1>6, <3>2, <3>3, <3>4 DEF verify_operator_attestation
  <2>3. QED
    BY <1>2, <1>4, <2>1, <2>2
<1>9. verify_agent_receipt_v1(genuine, options)
  BY <1>5, <1>6, <1>7, <1>8 DEF verify_agent_receipt_v1, verify_continuity_expected_prior,
    allows_signing_public_key, verify_signed_digest, require_validity_tier
<1>10. QED
  BY <1>9 DEF Accepts

(* The invariant is stronger than the property. *)
LEMMA DocumentGenuine ==
  ASSUME NoneApart, DocumentInv, subject \in Subjects \ {"inclusion"}
  PROVE  AcceptedIsGenuine
<1>1. CASE subject = "chain"
  BY <1>1 DEF AcceptedIsGenuine
<1>2. CASE subject \in {"mandate", "protocol", "manifest", "x402"}
  <2>1. SignerMade(genuine) /\ SameSignature(held, genuine)
    BY <1>2, HandedShape DEF DocumentInv, SignedKinds
  <2>2. ASSUME verdict = "accepted", held.key = Gateway
        PROVE  held.body = genuine.body
    <3>1. Accepts(subject, held, options)
      BY <1>2, <2>2 DEF DocumentInv, SignedKinds
    <3>2. CASE subject = "x402"
      <4>1. held.sig = Signature(Gateway, held.body) /\ genuine.sig = Signature(Gateway, genuine.body)
        BY <2>1, <2>2, <3>1, <3>2 DEF Accepts, verify_signed_x402_receipt, SignerMade
      <4>2. held.sig = genuine.sig
        BY <2>1, <4>1, SignatureFields DEF SameSignature
      <4>3. held.sig.over = held.body /\ genuine.sig.over = genuine.body
        BY <4>1, SignatureFields
      <4>4. QED
        BY <4>2, <4>3
    <3>3. CASE subject # "x402"
      <4>1. verify_signed_digest(held)
        BY <1>2, <3>1, <3>3 DEF Accepts, verify_signed_agent_mandate_v1, verify_protocol_receipt, verify_audit_manifest
      <4>2. genuine.sig = Signature(Gateway, Digest(genuine.body))
        BY <2>1, <3>3 DEF SignerMade
      <4>3. QED
        BY <2>1, <2>2, <4>1, <4>2, SignedBody
    <3>4. QED
      BY <3>2, <3>3
  <2>3. ASSUME verdict = "rejected", faults = 0
        PROVE  subject = "mandate" /\ genuine.body.expires_at <= options.now
    <3>1. held = genuine /\ ~Accepts(subject, held, options)
      BY <1>2, <2>3 DEF DocumentInv, SignedKinds
    <3>2. QED
      BY <1>2, <3>1, UntouchedAccepted, UntouchedMandate
  <2>4. QED
    BY <1>2, <2>2, <2>3 DEF AcceptedIsGenuine
<1>3. CASE subject = "receipt"
  <2>1. ASSUME verdict = "rejected", faults = 0
        PROVE  options # [DefaultOptions EXCEPT !.keys = {Gateway}, !.operators = options.operators]
    <3>1. held = genuine /\ ~Accepts(subject, held, options)
      BY <1>3, <2>1 DEF DocumentInv, SignedKinds
    <3>2. QED
      BY <1>3, <3>1, UntouchedReceipt, Zenon
  <2>2. verdict = "accepted" =>
          /\ held.body = genuine.body
          /\ tier_rank(achieved_validity_tier(held, options.operators)) >= tier_rank(options.tier)
          /\ options.tier = "attested" => held.operator_attestation.sig = Signature(Operator, genuine.stated)
    BY <1>3, AcceptedReceiptGenuine
  <2>3. QED
    BY <1>3, <2>1, <2>2 DEF AcceptedIsGenuine
<1>4. CASE subject \in {"pef", "scitt"}
  <2>1. verdict = "rejected" /\ faults = 0 => FALSE
    BY <1>4, UntouchedAccepted DEF DocumentInv
  <2>2. verdict = "accepted" =>
          /\ subject = "pef" => (held.frame_id = genuine.frame_id => held = genuine)
          /\ subject = "scitt" => (held.key = Gateway => held = genuine)
    BY AcceptedPef, AcceptedScitt
  <2>3. QED
    BY <1>4, <2>1, <2>2 DEF AcceptedIsGenuine
<1>5. QED
  BY <1>1, <1>2, <1>3, <1>4 DEF Subjects

LEMMA DocumentInit ==
  ASSUME NoneApart, DocInit
  PROVE  DocumentInv
<1> SUFFICES ASSUME subject \in SignedKinds \union {"pef", "scitt"}
             PROVE  DocumentInv
  BY DEF DocumentInv
<1>1. /\ options \in Asked(subject) /\ genuine \in Handed(subject) /\ held = genuine
      /\ faults = 0 /\ faults \in Nat /\ verdict # "accepted" /\ verdict # "rejected"
  BY VerdictAssumption DEF DocInit
<1>2. SameForm(genuine, genuine)
  <2>1. CASE subject \in SignedKinds
    BY <1>1, <2>1, HandedShape DEF SignerMade
  <2>2. CASE subject = "pef"
    <3>1. genuine = pef_frame("receipt1", "provider", 1)
      BY <1>1, <2>2 DEF Handed
    <3>2. QED
      BY <3>1 DEF SameForm, pef_frame
  <2>3. CASE subject = "scitt"
    <3>1. genuine = scitt_export("receipt1", Digest("receipt1"), Gateway, "issuer")
      BY <1>1, <2>3 DEF Handed
    <3>2. QED
      BY <3>1 DEF SameForm, scitt_export
  <2>4. QED
    BY <2>1, <2>2, <2>3
<1>3. subject = "scitt" => SameForm(genuine.cose, genuine.cose)
  <2>1. SUFFICES ASSUME subject = "scitt"
                 PROVE  SameForm(genuine.cose, genuine.cose)
    OBVIOUS
  <2>2. genuine = scitt_export("receipt1", Digest("receipt1"), Gateway, "issuer")
    BY <1>1, <2>1 DEF Handed
  <2>3. QED
    BY <2>2 DEF SameForm, scitt_export
<1>4. SameSignature(genuine, genuine) /\ SameSignature(genuine.cose, genuine.cose)
  BY DEF SameSignature
<1>5. QED
  BY <1>1, <1>2, <1>3, <1>4 DEF DocumentInv

LEMMA DocumentNext ==
  ASSUME NoneApart, DocumentInv, [DocNext]_docVars
  PROVE  DocumentInv'
<1> SUFFICES ASSUME subject \in SignedKinds \union {"pef", "scitt"}, subject' = subject
             PROVE  DocumentInv'
  BY DEF DocumentInv, DocNext, docVars, IssueReceipt, Damage, Verify
<1>0. subject # "chain"
  BY DEF SignedKinds
<1>1. CASE Damage
  <2>1. /\ options' = options /\ genuine' = genuine /\ faults' \in Nat /\ faults' # 0
        /\ verdict' # "accepted" /\ verdict' # "rejected"
    BY <1>1, VerdictAssumption DEF Damage, DocumentInv
  <2>2. /\ SameForm(held', genuine)
        /\ subject \in SignedKinds => SameSignature(held', genuine)
        /\ subject = "scitt" => SameForm(held'.cose, genuine.cose) /\ SameSignature(held'.cose, genuine.cose)
    BY <1>1, DamageKeepsDocument
  <2>3. QED
    BY <2>1, <2>2 DEF DocumentInv
<1>2. CASE Verify
  BY <1>2 DEF Verify, DocumentInv
<1>3. CASE UNCHANGED docVars
  BY <1>3 DEF docVars, DocumentInv
<1>4. QED
  BY <1>0, <1>1, <1>2, <1>3 DEF DocNext, IssueReceipt

(***************************************************************************)
(* Whatever happens to a receipt, a mandate, a protocol receipt, an x402   *)
(* receipt, an audit manifest, a PEF frame or a SCITT export, any number   *)
(* of times: its verifier accepts it under the signer's key only as it was *)
(* signed, and an untouched one is accepted.  (An inclusion proof is left  *)
(* to the model checker: its verifier recurses over the audit path.)       *)
(***************************************************************************)
THEOREM Genuine ==
  ASSUME NoneApart
  PROVE  DocSpec => [](subject # "inclusion" => AcceptedIsGenuine)
<1> DEFINE Inv == DocumentInv /\ subject \in Subjects
<1>1. DocInit => Inv
  BY DocumentInit DEF DocInit
<1>2. Inv /\ [DocNext]_docVars => Inv'
  <2>1. [DocNext]_docVars => subject' = subject
    BY DEF DocNext, docVars, IssueReceipt, Damage, Verify
  <2>2. QED
    BY <2>1, DocumentNext
<1>3. Inv => (subject # "inclusion" => AcceptedIsGenuine)
  BY DocumentGenuine
<1> HIDE DEF Inv
<1>4. QED
  BY <1>1, <1>2, <1>3, PTL DEF DocSpec
=============================================================================
