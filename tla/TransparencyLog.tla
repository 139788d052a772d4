-------------------------- MODULE TransparencyLog --------------------------
(***************************************************************************)
(* The verifier of receipt inclusion proofs (agent_receipt_inclusion.py)   *)
(* and, as its reference, the Merkle tree of RFC 6962 that the Gateway     *)
(* publishes.                                                              *)
(***************************************************************************)
EXTENDS Receipts

merkle_leaf_hash(data) == <<"leaf", data>>

merkle_node_hash(left, right) == <<"node", left, right>>

largest_power_of_two_less_than(n) ==
  IF n <= 1 THEN 0
  ELSE CHOOSE k \in {2^e : e \in 0..n} : k < n /\ 2 * k >= n

(***************************************************************************)
(* What the Gateway computes: the root of a sequence of leaves, the audit  *)
(* path of the leaf with index m, and the proof it hands out.              *)
(***************************************************************************)
TreeRoot(leaves) ==
  LET root[from \in Nat, n \in Nat] ==
        IF n = 1 THEN merkle_leaf_hash(leaves[from + 1])
        ELSE LET k == largest_power_of_two_less_than(n) IN
             merkle_node_hash(root[from, k], root[from + k, n - k])
  IN root[0, Len(leaves)]

AuditPath(m, leaves) ==
  LET path[i \in Nat, from \in Nat, n \in Nat] ==
        IF n = 1 THEN <<>>
        ELSE LET k == largest_power_of_two_less_than(n)
                 left == SubSeq(leaves, from + 1, from + k)
                 right == SubSeq(leaves, from + k + 1, from + n)
             IN IF i < k THEN Append(path[i, from, k], TreeRoot(right))
                ELSE Append(path[i - k, from + k, n - k], TreeRoot(left))
  IN path[m, 0, Len(leaves)]

TreeHead(key, tenant, leaves) ==
  Signed(key, [tenant_id |-> tenant, tree_size |-> Len(leaves), root_hash |-> TreeRoot(leaves)])

InclusionProof(key, tenant, leaves, m) ==
  [tenant_id |-> tenant, message_digest |-> leaves[m + 1], leaf_index |-> m,
   tree_size |-> Len(leaves), leaf_hash |-> merkle_leaf_hash(leaves[m + 1]),
   root_hash |-> TreeRoot(leaves), audit_path |-> AuditPath(m, leaves),
   tree_head |-> TreeHead(key, tenant, leaves)]

(***************************************************************************)
(* The verifier.  The path is consumed from the leaf upwards; a path too   *)
(* short gives the root None.                                              *)
(***************************************************************************)
reconstruct_merkle_root(leaf_hash, leaf_index, tree_size, path) ==
  LET subtree[index \in Nat, size \in Nat] ==
        IF size = 1 THEN [root |-> leaf_hash, consumed |-> 0]
        ELSE LET k == largest_power_of_two_less_than(size)
                 below == IF index < k THEN subtree[index, k] ELSE subtree[index - k, size - k]
                 next == below.consumed + 1
             IN IF below.root = None \/ next > Len(path) THEN [root |-> None, consumed |-> next]
                ELSE [root |-> IF index < k THEN merkle_node_hash(below.root, path[next])
                               ELSE merkle_node_hash(path[next], below.root),
                      consumed |-> next]
  IN subtree[leaf_index, tree_size]

verify_signed_tree_head_v1(head, expected) ==
  /\ head.body.tree_size >= 0
  /\ allows_signing_public_key(head.key, expected)
  /\ verify_signed_digest(head)

verify_agent_receipt_inclusion(proof, expected) ==
  /\ proof.tree_size > 0
  /\ proof.leaf_index \in 0..(proof.tree_size - 1)
  /\ verify_signed_tree_head_v1(proof.tree_head, expected)
  /\ proof.tree_head.body = [tenant_id |-> proof.tenant_id, tree_size |-> proof.tree_size,
                             root_hash |-> proof.root_hash]
  /\ proof.leaf_hash = merkle_leaf_hash(proof.message_digest)
  /\ LET result == reconstruct_merkle_root(proof.leaf_hash, proof.leaf_index, proof.tree_size,
                                           proof.audit_path)
     IN result.consumed = Len(proof.audit_path) /\ result.root = proof.root_hash
=============================================================================
