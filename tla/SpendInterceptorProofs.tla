----------------------- MODULE SpendInterceptorProofs -----------------------
(***************************************************************************)
(* Proofs about SpendInterceptor for any number of activations, tools,     *)
(* policies and grants: the inductive invariant IInv, the safety           *)
(* properties it implies, and the refinement of SpendLifecycle.            *)
(***************************************************************************)
EXTENDS SpendInterceptor, FiniteSetTheorems, TLAPS

-----------------------------------------------------------------------------
(* Facts about the operators. *)

(* Resolving a request under any policy gives a well-formed call.          *)
LEMMA ResolvedType ==
  ASSUME NEW p \in Policies, NEW r \in Requests
  PROVE  resolve_side_effecting_call(p, r) \in CallShape
<1>1. r \in RequestType
  BY RequestsAssumption
<1>2. /\ r.tool_name \in Tools
      /\ r.tool_call_id \in ToolCallIds
      /\ r.operation \in Operations \union {None}
      /\ r.requested_spend_cents \in SpendCents
  BY <1>1 DEF RequestType
<1>3. Registry[p].side_effecting[r.tool_name] \in SideEffectingEntry \union {None}
  BY <1>2, RegistryAssumption DEF Registries
<1>4. resolved_operation(p, r) \in Operations
  BY <1>2, <1>3, ToolsAssumption
  DEF resolved_operation, resolve_operation, is_side_effecting, SideEffectingEntry
<1>5. resolve_spend_cents(Registry[p], r.tool_name) \in SpendCents
  BY <1>3 DEF resolve_spend_cents, is_side_effecting, SideEffectingEntry, SpendCents
<1>6. resolved_spend_cents(p, r) \in SpendCents
  BY <1>2, <1>5, SandboxAssumption DEF resolved_spend_cents, SpendCents
<1>7. QED
  BY <1>2, <1>4, <1>6 DEF resolve_side_effecting_call, CallShape

(* What verify is asked is a well-formed call. *)
LEMMA AuthKwargsType ==
  ASSUME NEW k \in CallShape
  PROVE  auth_kwargs(k) \in CallShape
BY DEF auth_kwargs, CallShape, SpendCents

(* A well-formed call has a cache key. *)
LEMMA KeyType ==
  ASSUME NEW k \in CallShape
  PROVE  authorization_cache_key(k) \in CacheKeys
BY DEF authorization_cache_key, CallShape, CacheKeys

(* Eviction keeps or drops entries, never invents or moves one.            *)
LEMMA EvictFacts ==
  ASSUME NEW cache \in [CacheKeys -> CacheEntry \union {None}], NEW t
  PROVE  /\ evict_expired_authorization_cache(cache, t) \in [CacheKeys -> CacheEntry \union {None}]
         /\ \A k \in CacheKeys :
              evict_expired_authorization_cache(cache, t)[k] \in {cache[k], None}
BY DEF evict_expired_authorization_cache

(* A cached entry that is taken is the entry of its key, given for the     *)
(* expected call.                                                          *)
LEMMA TakeFacts ==
  ASSUME NEW cache, NEW key, NEW expected, NEW t,
         take_valid_cached_authorization(cache, key, expected, t) # None
  PROVE  /\ take_valid_cached_authorization(cache, key, expected, t) = cache[key]
         /\ cache[key] # None
         /\ cache[key].call = expected
BY DEF take_valid_cached_authorization

-----------------------------------------------------------------------------
(* The in-flight count. *)

(* An activation reaches its first await. *)
LEMMA Enters ==
  ASSUME TypeOK, InFlightExact, NEW c \in Calls, NEW to \in Awaiting, ~Active(c),
         pc' = [pc EXCEPT ![c] = to],
         in_flight_count' = begin_in_flight(in_flight_count)
  PROVE  InFlightExact'
<1> DEFINE S == {d \in Calls : Active(d)}
<1>1. IsFiniteSet(S)
  BY CallsAssumption, FS_Subset
<1>2. {d \in Calls : Active(d)}' = S \union {c}
  BY DEF TypeOK, Active
<1>3. Cardinality(S \union {c}) = Cardinality(S) + 1
  BY <1>1, FS_AddElement
<1>4. QED
  BY <1>2, <1>3 DEF InFlightExact, begin_in_flight

(* An activation ends. *)
LEMMA Leaves ==
  ASSUME TypeOK, InFlightExact, NEW c \in Calls, NEW to, to \notin Awaiting, Active(c),
         pc' = [pc EXCEPT ![c] = to],
         in_flight_count' = end_in_flight(in_flight_count)
  PROVE  InFlightExact'
<1> DEFINE S == {d \in Calls : Active(d)}
<1>1. IsFiniteSet(S)
  BY CallsAssumption, FS_Subset
<1>2. {d \in Calls : Active(d)}' = S \ {c}
  BY DEF TypeOK, Active
<1>3. IsFiniteSet(S \ {c}) /\ Cardinality(S \ {c}) = Cardinality(S) - 1
  BY <1>1, FS_RemoveElement
<1>4. Cardinality(S) \in Nat /\ Cardinality(S \ {c}) \in Nat
  BY <1>1, <1>3, FS_CardinalityType
<1>5. in_flight_count = Cardinality(S)
  BY DEF InFlightExact
<1>6. in_flight_count' = Cardinality(S \ {c})
  BY <1>3, <1>4, <1>5 DEF end_in_flight
<1>7. QED
  BY <1>2, <1>6 DEF InFlightExact

(* An activation goes from await to await, or ends before its first.       *)
LEMMA Stays ==
  ASSUME TypeOK, InFlightExact, NEW c \in Calls, NEW to,
         Active(c) <=> to \in Awaiting,
         pc' = [pc EXCEPT ![c] = to],
         in_flight_count' = in_flight_count
  PROVE  InFlightExact'
<1>1. {d \in Calls : Active(d)}' = {d \in Calls : Active(d)}
  BY DEF TypeOK, Active
<1>2. QED
  BY <1>1 DEF InFlightExact

(* A synchronous begin and end cancel out. *)
LEMMA BeginEnd ==
  ASSUME in_flight_count \in Nat
  PROVE  end_in_flight(begin_in_flight(in_flight_count)) = in_flight_count
BY DEF begin_in_flight, end_in_flight

-----------------------------------------------------------------------------
(* Frame lemmas: what an activation, a cache key, a grant or a receipt     *)
(* knows survives a step that leaves its own part of the state alone.      *)

LEMMA CallFrame ==
  ASSUME NEW c \in Calls, CallInv(c),
         pc'[c] = pc[c], call'[c] = call[c], grant'[c] = grant[c], reply'[c] = reply[c],
         grant[c] \in Grants =>
           /\ issued'[grant[c]] = issued[grant[c]]
           /\ sent'[grant[c]] = sent[grant[c]]
           /\ reported'[grant[c]] = reported[grant[c]]
           /\ handler'[grant[c]] = handler[grant[c]]
  PROVE  CallInv(c)'
BY DEF CallInv, Bound

LEMMA CacheFrame ==
  ASSUME NEW k \in CacheKeys, TypeOK, CacheInv(k),
         authorized_calls'[k] \in {authorized_calls[k], None},
         \A g \in Grants : (authorized_calls[k] # None /\ g = authorized_calls[k].grant) =>
           issued'[g] = issued[g] /\ handler'[g] = handler[g]
  PROVE  CacheInv(k)'
<1>1. authorized_calls[k] # None => authorized_calls[k].grant \in Grants
  BY DEF TypeOK, CacheEntry
<1>2. QED
  BY <1>1 DEF CacheInv

LEMMA GrantFrame ==
  ASSUME NEW g \in Grants, GrantInv(g),
         issued'[g] = issued[g], sent'[g] = sent[g], reported'[g] = reported[g],
         handler'[g] = handler[g]
  PROVE  GrantInv(g)'
BY DEF GrantInv
-----------------------------------------------------------------------------
(* Most steps touch one activation, the grant it holds, and nothing else   *)
(* but entries dropped from the cache.                                     *)
LocalStep(c) ==
  /\ \A d \in Calls \ {c} :
       pc'[d] = pc[d] /\ call'[d] = call[d] /\ grant'[d] = grant[d] /\ reply'[d] = reply[d]
  /\ grant'[c] \in {grant[c], None}
  /\ \A k \in CacheKeys : authorized_calls'[k] \in {authorized_calls[k], None}
  /\ \A g \in Grants \ {grant[c]} :
       handler'[g] = handler[g] /\ sent'[g] = sent[g] /\ reported'[g] = reported[g]
  /\ issued' = issued
  /\ receipts' = receipts

(* Such a step leaves to prove only what concerns that activation and its  *)
(* grant: every other holder has another grant.                            *)
LEMMA LocalFrame ==
  ASSUME IInv, NEW c \in Calls, LocalStep(c)
  PROVE  /\ SingleHolder'
         /\ \A d \in Calls \ {c} : CallInv(d)'
         /\ \A k \in CacheKeys : CacheInv(k)'
         /\ \A g \in Grants \ {grant[c]} : GrantInv(g)'
         /\ \A x \in receipts' : ReceiptInv(x)'
<1>1. SingleHolder'
  <2>1. \A d \in Calls : grant'[d] \in {grant[d], None}
    BY DEF LocalStep
  <2>2. \A k \in CacheKeys : authorized_calls'[k] \in {authorized_calls[k], None}
    BY DEF LocalStep
  <2>3. \A k \in CacheKeys : authorized_calls[k] # None => authorized_calls[k].grant \in Grants
    BY DEF IInv, TypeOK, CacheEntry
  <2>4. QED
    BY <2>1, <2>2, <2>3, GrantsAssumption DEF IInv, SingleHolder
<1>2. ASSUME NEW d \in Calls \ {c} PROVE CallInv(d)'
  <2>1. grant[d] \in Grants => grant[d] # grant[c]
    BY GrantsAssumption DEF IInv, SingleHolder
  <2>2. QED
    BY <2>1, CallFrame DEF IInv, LocalStep
<1>3. ASSUME NEW k \in CacheKeys PROVE CacheInv(k)'
  <2>1. authorized_calls[k] # None => authorized_calls[k].grant # grant[c]
    BY DEF IInv, SingleHolder
  <2>2. QED
    BY <2>1, CacheFrame DEF IInv, LocalStep
<1>4. ASSUME NEW g \in Grants \ {grant[c]} PROVE GrantInv(g)'
  BY GrantFrame DEF IInv, LocalStep
<1>5. ASSUME NEW x \in receipts' PROVE ReceiptInv(x)'
  <2>1. x \in receipts /\ x.grant \in Grants /\ ReceiptInv(x)
    BY DEF IInv, TypeOK, LocalStep
  <2>2. x.grant # grant[c]
    BY <2>1 DEF ReceiptInv
  <2>3. \A d \in Calls : grant'[d] # x.grant
    BY <2>1, GrantsAssumption DEF ReceiptInv, LocalStep
  <2>4. QED
    BY <2>1, <2>2, <2>3 DEF ReceiptInv, LocalStep
<1>6. QED
  BY <1>1, <1>2, <1>3, <1>4, <1>5

(* The shape of the remaining proof of a local step. *)
LEMMA LocalInv ==
  ASSUME IInv, NEW c \in Calls, LocalStep(c),
         TypeOK', InFlightExact', CallInv(c)',
         \A g \in Grants : g = grant[c] => GrantInv(g)'
  PROVE  IInv'
<1>1. \A d \in Calls : CallInv(d)'
  BY LocalFrame
<1>2. \A g \in Grants : GrantInv(g)'
  BY LocalFrame
<1>3. QED
  BY <1>1, <1>2, LocalFrame DEF IInv

(* The step leaves Harbor, the world and the grants alone. *)
LEMMA QuietGrant ==
  ASSUME IInv, NEW c \in Calls, UNCHANGED worldVars
  PROVE  \A g \in Grants : g = grant[c] => GrantInv(g)'
BY GrantFrame DEF IInv, worldVars

-----------------------------------------------------------------------------
(* Steps that end an activation. *)

LEMMA FinishInv ==
  ASSUME IInv, NEW c \in Calls, Active(c), NEW end \in Final, Finish(c, end),
         UNCHANGED <<authorized_calls, policy, now, receipts, worldVars>>
  PROVE  IInv'
<1>1. LocalStep(c)
  BY DEF IInv, TypeOK, LocalStep, Finish, worldVars
<1>2. TypeOK'
  BY DEF IInv, TypeOK, Finish, worldVars, end_in_flight, Replies, Digests
<1>3. InFlightExact'
  BY Leaves DEF IInv, Finish, Final, Awaiting
<1>4. CallInv(c)'
  BY DEF IInv, TypeOK, Finish, CallInv, Final, Awaiting
<1>5. QED
  BY <1>1, <1>2, <1>3, <1>4, LocalInv, QuietGrant DEF worldVars

LEMMA FinishAtOnceInv ==
  ASSUME IInv, NEW c \in Calls, pc[c] = "idle", NEW end \in Final, FinishAtOnce(c, end)
  PROVE  IInv'
<1>0. in_flight_count' = in_flight_count
  BY BeginEnd DEF IInv, TypeOK, FinishAtOnce
<1>1. LocalStep(c)
  BY DEF IInv, TypeOK, LocalStep, FinishAtOnce, worldVars
<1>2. TypeOK'
  BY <1>0 DEF IInv, TypeOK, FinishAtOnce, worldVars
<1>3. InFlightExact'
  BY <1>0, Stays DEF IInv, FinishAtOnce, Active, Final, Awaiting
<1>4. CallInv(c)'
  BY DEF IInv, TypeOK, FinishAtOnce, CallInv, Final, Awaiting
<1>5. QED
  BY <1>1, <1>2, <1>3, <1>4, LocalInv, QuietGrant DEF FinishAtOnce, worldVars
-----------------------------------------------------------------------------
(* The first step of an activation that goes on to Harbor or the handler.  *)

LEMMA BeginVerifyInv ==
  ASSUME IInv, NEW c \in Calls, NEW r \in Requests, pc[c] = "idle",
         NEW to \in {"authorizing", "verifying"}, BeginVerify(c, r, to),
         authorized_calls' \in [CacheKeys -> CacheEntry \union {None}],
         \A k \in CacheKeys : authorized_calls'[k] \in {authorized_calls[k], None}
  PROVE  IInv'
<1>0. policy \in Policies /\ resolve_side_effecting_call(policy, r) \in CallShape
  BY ResolvedType DEF IInv, TypeOK
<1>1. LocalStep(c)
  BY DEF IInv, TypeOK, LocalStep, BeginVerify, worldVars
<1>2. TypeOK'
  BY <1>0 DEF IInv, TypeOK, BeginVerify, worldVars, begin_in_flight, Awaiting, Digests
<1>3. InFlightExact'
  BY Enters DEF IInv, BeginVerify, Active, Awaiting
<1>4. CallInv(c)'
  <2>1. grant'[c] = None /\ reply'[c] = "none"
    BY DEF IInv, CallInv, BeginVerify
  <2>2. pc'[c] = to /\ call'[c] \in CallShape
    BY <1>0 DEF IInv, TypeOK, BeginVerify
  <2>3. QED
    BY <2>1, <2>2 DEF CallInv, Final
<1>5. QED
  BY <1>1, <1>2, <1>3, <1>4, LocalInv, QuietGrant DEF BeginVerify, worldVars

LEMMA PopFacts ==
  ASSUME IInv, NEW r \in Requests, PopCache(r)
  PROVE  /\ authorized_calls' \in [CacheKeys -> CacheEntry \union {None}]
         /\ \A k \in CacheKeys : authorized_calls'[k] \in {authorized_calls[k], None}
BY DEF IInv, TypeOK, PopCache

LEMMA WrapPassthroughInv ==
  ASSUME IInv, NEW c \in Calls, NEW r \in Requests, WrapPassthrough(c, r)
  PROVE  IInv'
<1>1. LocalStep(c)
  BY DEF IInv, TypeOK, LocalStep, WrapPassthrough, worldVars
<1>2. TypeOK'
  BY DEF IInv, TypeOK, WrapPassthrough, worldVars, begin_in_flight, Awaiting
<1>3. InFlightExact'
  BY Enters DEF IInv, WrapPassthrough, Active, Awaiting
<1>4. CallInv(c)'
  BY DEF IInv, TypeOK, WrapPassthrough, CallInv, Final
<1>5. QED
  BY <1>1, <1>2, <1>3, <1>4, LocalInv, QuietGrant DEF WrapPassthrough, worldVars

(* The entry leaves the cache as the activation takes its grant over.      *)
LEMMA WrapCachedInv ==
  ASSUME IInv, NEW c \in Calls, NEW r \in Requests, WrapCached(c, r)
  PROVE  IInv'
<1> DEFINE k == resolve_side_effecting_call(policy, r)
           key == authorization_cache_key(k)
           e == authorized_calls[key]
<1>0. policy \in Policies /\ k \in CallShape /\ key \in CacheKeys
  BY ResolvedType, KeyType DEF IInv, TypeOK
<1>1. Cached(r) = e /\ e # None /\ e.call = k
  BY TakeFacts DEF WrapCached, Cached
<1>2. e \in CacheEntry /\ e.grant \in Grants /\ e.policy_digest \in Digests
  BY <1>0, <1>1 DEF IInv, TypeOK, CacheEntry
<1> HIDE DEF k, key, e
<1>3. /\ pc[c] = "idle"
      /\ pc' = [pc EXCEPT ![c] = "executing"]
      /\ call' = [call EXCEPT ![c] = k]
      /\ grant' = [grant EXCEPT ![c] = e.grant]
      /\ handler' = [handler EXCEPT ![e.grant] = "running"]
      /\ authorized_calls' = [authorized_calls EXCEPT ![key] = None]
      /\ in_flight_count' = begin_in_flight(in_flight_count)
      /\ UNCHANGED <<reply, policy, now, receipts, issued, sent, reported>>
  BY <1>1 DEF WrapCached, PopCache, k, key, e
<1>4. digest' \in [Calls -> Digests]
  <2>1. digest' = [digest EXCEPT ![c] =
          IF e.policy_digest # None THEN e.policy_digest ELSE Digest[policy]]
    BY <1>1 DEF WrapCached, evidence_policy_digest
  <2>2. QED
    BY <2>1, <1>0, <1>2 DEF IInv, TypeOK, Digests
<1>5. /\ issued[e.grant] # None
      /\ issued[e.grant].call = auth_kwargs(k)
      /\ handler[e.grant] = "none"
      /\ sent[e.grant] = {}
  BY <1>0, <1>1, <1>2 DEF IInv, CacheInv, GrantInv, e
<1>6. \A d \in Calls : grant[d] # e.grant
  BY <1>0, <1>1 DEF IInv, SingleHolder, e
<1>7. TypeOK'
  <2>1. /\ pc' \in [Calls -> {"idle"} \union Awaiting \union Final]
        /\ call' \in [Calls -> CallShape \union {None}]
        /\ grant' \in [Calls -> Grants \union {None}]
        /\ handler' \in [Grants -> HandlerStates]
    BY <1>0, <1>2, <1>3 DEF IInv, TypeOK, Awaiting, HandlerStates
  <2>2. authorized_calls' \in [CacheKeys -> CacheEntry \union {None}]
    BY <1>3 DEF IInv, TypeOK
  <2>3. in_flight_count' \in Nat
    BY <1>3 DEF IInv, TypeOK, begin_in_flight
  <2>4. QED
    BY <1>3, <1>4, <2>1, <2>2, <2>3 DEF IInv, TypeOK
<1>8. InFlightExact'
  BY <1>3, Enters DEF IInv, Active, Awaiting
<1>9. SingleHolder'
  <2>1. \A l \in CacheKeys : authorized_calls'[l] \in {authorized_calls[l], None}
    BY <1>3 DEF IInv, TypeOK
  <2>2. \A l \in CacheKeys : authorized_calls'[l] # None =>
          authorized_calls'[l].grant # e.grant
    BY <1>0, <1>1, <1>3 DEF IInv, TypeOK, SingleHolder, e
  <2>3. \A d \in Calls : grant'[d] = IF d = c THEN e.grant ELSE grant[d]
    BY <1>3 DEF IInv, TypeOK
  <2>4. QED
    BY <1>6, <2>1, <2>2, <2>3 DEF IInv, SingleHolder
<1>10. ASSUME NEW d \in Calls PROVE CallInv(d)'
  <2>1. CASE d = c
    <3>1. pc'[c] = "executing" /\ call'[c] = k /\ grant'[c] = e.grant /\ reply'[c] = "none"
      BY <1>3 DEF IInv, TypeOK, CallInv
    <3>2. handler'[e.grant] = "running" /\ issued' = issued
      BY <1>2, <1>3 DEF IInv, TypeOK
    <3>3. QED
      BY <1>0, <1>2, <1>5, <2>1, <3>1, <3>2 DEF CallInv, Bound, Final
  <2>2. CASE d # c
    BY <1>3, <1>6, <2>2, CallFrame DEF IInv, TypeOK
  <2>3. QED
    BY <2>1, <2>2
<1>11. ASSUME NEW l \in CacheKeys PROVE CacheInv(l)'
  <2>1. authorized_calls'[l] # None =>
          authorized_calls'[l] = authorized_calls[l] /\ authorized_calls[l].grant # e.grant
    BY <1>0, <1>1, <1>3 DEF IInv, TypeOK, SingleHolder, e
  <2>2. CASE authorized_calls'[l] = None
    BY <2>2 DEF CacheInv
  <2>3. CASE authorized_calls'[l] # None
    BY <1>3, <2>1, <2>3, CacheFrame DEF IInv, TypeOK
  <2>4. QED
    BY <2>2, <2>3
<1>12. ASSUME NEW g \in Grants PROVE GrantInv(g)'
  <2>1. CASE g = e.grant
    BY <1>2, <1>3, <1>5, <2>1 DEF IInv, TypeOK, GrantInv
  <2>2. CASE g # e.grant
    BY <1>3, <2>2, GrantFrame DEF IInv, TypeOK
  <2>3. QED
    BY <2>1, <2>2
<1>13. ASSUME NEW x \in receipts' PROVE ReceiptInv(x)'
  <2>1. x \in receipts /\ x.grant \in Grants /\ ReceiptInv(x)
    BY <1>3 DEF IInv, TypeOK
  <2>2. x.grant # e.grant
    BY <1>5, <2>1 DEF ReceiptInv
  <2>3. QED
    BY <1>3, <2>1, <2>2 DEF IInv, TypeOK, ReceiptInv
<1>14. QED
  BY <1>7, <1>8, <1>9, <1>10, <1>11, <1>12, <1>13 DEF IInv
-----------------------------------------------------------------------------
(* Harbor's verify and the receipt of its answer. *)

(* A grant somebody holds has been issued. *)
LEMMA HeldIsIssued ==
  ASSUME IInv, NEW d \in Calls, grant[d] \in Grants
  PROVE  issued[grant[d]] # None
<1>1. CallInv(d) /\ grant[d] # None
  BY GrantsAssumption DEF IInv
<1>2. pc[d] \in {"authorizing", "verifying", "executing", "consuming", "releasing", "evidence"}
  BY <1>1 DEF IInv, TypeOK, CallInv, Awaiting
<1>3. CASE pc[d] \in {"authorizing", "verifying"}
  BY <1>1, <1>3 DEF CallInv, Bound
<1>4. CASE pc[d] \in {"executing", "consuming", "releasing", "evidence"}
  BY <1>1, <1>4 DEF CallInv, Bound
<1>5. QED
  BY <1>2, <1>3, <1>4

(* The new grant was never issued, so nobody holds it yet. *)
LEMMA HarborAllowInv ==
  ASSUME IInv, NEW c \in Calls, NEW g \in Grants, NEW decision \in BOOLEAN,
         HarborAllow(c, g, decision)
  PROVE  IInv'
<1>1. /\ call[c] \in CallShape
      /\ grant[c] = None
      /\ auth_kwargs(call[c]) \in CallShape
  BY AuthKwargsType DEF IInv, CallInv, HarborAllow
<1>2. /\ issued'[g] \in GrantRecord
      /\ issued'[g].call = auth_kwargs(call[c])
      /\ \A h \in Grants \ {g} : issued'[h] = issued[h]
      /\ issued' \in [Grants -> GrantRecord \union {None}]
  BY <1>1 DEF IInv, TypeOK, GrantRecord, HarborAllow
<1>3. issued[g] = None /\ issued'[g] # None
  BY <1>2, NoneNoRecord DEF HarborAllow
<1>4. /\ grant' = [grant EXCEPT ![c] = g]
      /\ reply' = [reply EXCEPT ![c] = "allow"]
      /\ UNCHANGED <<pc, call, digest, authorized_calls, in_flight_count, policy, now,
                     sent, reported, handler, receipts>>
      /\ pc[c] \in {"authorizing", "verifying"}
  BY DEF HarborAllow
<1>5. \A d \in Calls : grant[d] # g
  <2>1. \A d \in Calls : grant[d] \in Grants => issued[grant[d]] # None
    BY HeldIsIssued
  <2>2. QED
    BY <1>3, <2>1
<1>6. \A k \in CacheKeys : authorized_calls[k] # None => authorized_calls[k].grant # g
  BY <1>3 DEF IInv, CacheInv
<1>7. handler[g] = "none" /\ sent[g] = {} /\ reported[g] = {}
  BY <1>3 DEF IInv, GrantInv
<1>8. TypeOK'
  BY <1>2, <1>4 DEF IInv, TypeOK, Replies
<1>9. InFlightExact'
  BY <1>4 DEF IInv, InFlightExact, Active
<1>10. SingleHolder'
  BY <1>4, <1>5, <1>6 DEF IInv, TypeOK, SingleHolder
<1>11. ASSUME NEW d \in Calls PROVE CallInv(d)'
  <2>1. CASE d = c
    <3>1. grant'[c] = g /\ reply'[c] = "allow"
      BY <1>4 DEF IInv, TypeOK
    <3>2. QED
      BY <1>1, <1>2, <1>3, <1>4, <1>7, <2>1, <3>1 DEF CallInv, Bound, Final
  <2>2. CASE d # c
    BY <1>2, <1>4, <1>5, <2>2, CallFrame DEF IInv, TypeOK
  <2>3. QED
    BY <2>1, <2>2
<1>12. ASSUME NEW k \in CacheKeys PROVE CacheInv(k)'
  BY <1>2, <1>4, <1>6, CacheFrame DEF IInv
<1>13. ASSUME NEW h \in Grants PROVE GrantInv(h)'
  BY <1>2, <1>3, <1>4, <1>7 DEF IInv, GrantInv
<1>14. ASSUME NEW x \in receipts' PROVE ReceiptInv(x)'
  <2>1. x \in receipts /\ ReceiptInv(x)
    BY <1>4 DEF IInv
  <2>2. x.grant # g
    BY <1>7, <2>1 DEF ReceiptInv
  <2>3. QED
    BY <1>4, <2>1, <2>2 DEF IInv, TypeOK, ReceiptInv
<1>15. QED
  BY <1>8, <1>9, <1>10, <1>11, <1>12, <1>13, <1>14 DEF IInv

(* A grant nobody hears of is held by nobody. *)
LEMMA HarborAllowUnheardInv ==
  ASSUME IInv, NEW c \in Calls, NEW g \in Grants, HarborAllowUnheard(c, g)
  PROVE  IInv'
<1>1. call[c] \in CallShape /\ auth_kwargs(call[c]) \in CallShape
  BY AuthKwargsType DEF IInv, CallInv, HarborAllowUnheard
<1>2. /\ \A h \in Grants \ {g} : issued'[h] = issued[h]
      /\ issued' \in [Grants -> GrantRecord \union {None}]
  BY <1>1 DEF IInv, TypeOK, GrantRecord, HarborAllowUnheard
<1>3. /\ issued[g] = None
      /\ UNCHANGED <<pc, call, digest, grant, reply, authorized_calls, in_flight_count,
                     policy, now, sent, reported, handler, receipts>>
  BY DEF HarborAllowUnheard, callVars
<1>4. \A d \in Calls : grant[d] # g
  <2>1. \A d \in Calls : grant[d] \in Grants => issued[grant[d]] # None
    BY HeldIsIssued
  <2>2. QED
    BY <1>3, <2>1
<1>5. \A k \in CacheKeys : authorized_calls[k] # None => authorized_calls[k].grant # g
  BY <1>3 DEF IInv, CacheInv
<1>6. handler[g] = "none" /\ sent[g] = {} /\ reported[g] = {}
  BY <1>3 DEF IInv, GrantInv
<1>7. TypeOK'
  BY <1>2, <1>3 DEF IInv, TypeOK
<1>8. InFlightExact' /\ SingleHolder'
  BY <1>3 DEF IInv, InFlightExact, Active, SingleHolder
<1>9. ASSUME NEW d \in Calls PROVE CallInv(d)'
  BY <1>2, <1>3, <1>4, CallFrame DEF IInv
<1>10. ASSUME NEW k \in CacheKeys PROVE CacheInv(k)'
  BY <1>2, <1>3, <1>5, CacheFrame DEF IInv
<1>11. ASSUME NEW h \in Grants PROVE GrantInv(h)'
  BY <1>2, <1>3, <1>6 DEF IInv, GrantInv
<1>12. ASSUME NEW x \in receipts' PROVE ReceiptInv(x)'
  BY <1>3 DEF IInv, ReceiptInv
<1>13. QED
  BY <1>7, <1>8, <1>9, <1>10, <1>11, <1>12 DEF IInv

LEMMA HarborRefuseInv ==
  ASSUME IInv, NEW c \in Calls, NEW kind \in {"deny", "approval_required"},
         HarborRefuse(c, kind)
  PROVE  IInv'
<1>1. LocalStep(c)
  BY DEF IInv, TypeOK, LocalStep, HarborRefuse, worldVars
<1>2. TypeOK'
  BY DEF IInv, TypeOK, HarborRefuse, worldVars, Replies
<1>3. InFlightExact'
  BY DEF IInv, HarborRefuse, InFlightExact, Active
<1>4. CallInv(c)'
  BY DEF IInv, TypeOK, HarborRefuse, CallInv, Final
<1>5. QED
  BY <1>1, <1>2, <1>3, <1>4, LocalInv, QuietGrant DEF HarborRefuse, worldVars

(* The grant moves from the activation, which ends, into the cache.  An    *)
(* older entry of the same key is lost, its grant held by nobody.          *)
LEMMA AuthorizeAllowedInv ==
  ASSUME IInv, NEW c \in Calls, AuthorizeAllowed(c)
  PROVE  IInv'
<1> DEFINE key == authorization_cache_key(call[c])
           entry == [grant |-> grant[c], policy_digest |-> digest[c], call |-> call[c],
                     cached_at |-> now]
           kept == evict_expired_authorization_cache(authorized_calls, now)
<1>1. /\ Bound(c)
      /\ handler[grant[c]] = "none"
      /\ pc[c] = "authorizing"
  BY DEF IInv, CallInv, AuthorizeAllowed
<1>2. key \in CacheKeys /\ entry \in CacheEntry
  BY <1>1, KeyType, TtlAssumption DEF IInv, TypeOK, Bound, CacheEntry
<1>3. entry.grant = grant[c] /\ entry.call = call[c]
  OBVIOUS
<1>4. /\ kept \in [CacheKeys -> CacheEntry \union {None}]
      /\ \A k \in CacheKeys : kept[k] \in {authorized_calls[k], None}
  BY EvictFacts DEF IInv, TypeOK
<1>5. authorized_calls' = [kept EXCEPT ![key] = entry]
  BY DEF AuthorizeAllowed
<1>6. \E end \in Final : Finish(c, end)
  BY DEF AuthorizeAllowed, Final
<1>7. UNCHANGED <<policy, now, receipts, issued, sent, reported, handler>>
  BY DEF AuthorizeAllowed, worldVars
<1>8. entry # None
  BY <1>2, NoneNoRecord
<1> HIDE DEF key, entry, kept
<1>9. PICK end \in Final : Finish(c, end)
  BY <1>6
<1>10. /\ authorized_calls' \in [CacheKeys -> CacheEntry \union {None}]
       /\ authorized_calls'[key] = entry
       /\ \A k \in CacheKeys \ {key} : authorized_calls'[k] \in {authorized_calls[k], None}
  BY <1>2, <1>4, <1>5
<1>11. /\ \A d \in Calls \ {c} :
            pc'[d] = pc[d] /\ call'[d] = call[d] /\ grant'[d] = grant[d] /\ reply'[d] = reply[d]
       /\ pc'[c] = end /\ grant'[c] = None /\ reply'[c] = "none"
  BY <1>9 DEF IInv, TypeOK, Finish
<1>12. TypeOK'
  BY <1>7, <1>9, <1>10
  DEF IInv, TypeOK, Finish, end_in_flight, Replies, Digests
<1>13. InFlightExact'
  BY <1>1, <1>9, Leaves DEF IInv, Finish, Active, Final, Awaiting
<1>14. grant[c] \in Grants /\ grant[c] # None
  BY <1>1, GrantsAssumption DEF Bound
<1>15. \A k \in CacheKeys : authorized_calls[k] # None => authorized_calls[k].grant # grant[c]
  BY DEF IInv, SingleHolder
<1>16. SingleHolder'
  <2>1. \A d, f \in Calls : grant'[d] # None /\ grant'[d] = grant'[f] => d = f
    BY <1>11 DEF IInv, SingleHolder
  <2>2. \A k, l \in CacheKeys :
          /\ authorized_calls'[k] # None
          /\ authorized_calls'[l] # None
          /\ authorized_calls'[k].grant = authorized_calls'[l].grant
          => k = l
    BY <1>3, <1>10, <1>15 DEF IInv, SingleHolder, entry
  <2>3. \A d \in Calls, k \in CacheKeys :
          authorized_calls'[k] # None => authorized_calls'[k].grant # grant'[d]
    <3> SUFFICES ASSUME NEW d \in Calls, NEW k \in CacheKeys, authorized_calls'[k] # None
                 PROVE  authorized_calls'[k].grant # grant'[d]
      OBVIOUS
    <3>1. authorized_calls'[k].grant \in Grants
      BY <1>10 DEF CacheEntry
    <3>2. CASE d = c
      BY <1>11, <3>1, <3>2, GrantsAssumption
    <3>3. CASE d # c /\ k = key
      BY <1>3, <1>10, <1>11, <1>14, <3>3 DEF IInv, SingleHolder
    <3>4. CASE d # c /\ k # key
      BY <1>10, <1>11, <3>4 DEF IInv, SingleHolder
    <3>5. QED
      BY <3>2, <3>3, <3>4
  <2>4. QED
    BY <2>1, <2>2, <2>3 DEF SingleHolder
<1>17. ASSUME NEW d \in Calls PROVE CallInv(d)'
  <2>1. CASE d = c
    BY <1>11, <2>1 DEF CallInv, Final
  <2>2. CASE d # c
    BY <1>7, <1>11, <2>2, CallFrame DEF IInv
  <2>3. QED
    BY <2>1, <2>2
<1>18. ASSUME NEW k \in CacheKeys PROVE CacheInv(k)'
  <2>1. CASE k = key
    BY <1>1, <1>3, <1>7, <1>10, <2>1 DEF CacheInv, Bound
  <2>2. CASE k # key
    BY <1>7, <1>10, <2>2, CacheFrame DEF IInv
  <2>3. QED
    BY <2>1, <2>2
<1>19. \A g \in Grants : GrantInv(g)'
  BY <1>7, GrantFrame DEF IInv
<1>20. ASSUME NEW x \in receipts' PROVE ReceiptInv(x)'
  <2>1. x \in receipts /\ x.grant \in Grants /\ ReceiptInv(x)
    BY <1>7 DEF IInv, TypeOK
  <2>2. QED
    BY <1>7, <1>11, <2>1, GrantsAssumption DEF ReceiptInv
<1>21. QED
  BY <1>12, <1>13, <1>16, <1>17, <1>18, <1>19, <1>20 DEF IInv
-----------------------------------------------------------------------------
(* The handler and the exchanges after it.  All these steps are local.     *)

(* An activation goes on to another await, with its grant. *)
LEMMA GotoFacts ==
  ASSUME IInv, NEW c \in Calls, Active(c), NEW to \in Awaiting, Goto(c, to)
  PROVE  /\ pc' \in [Calls -> {"idle"} \union Awaiting \union Final]
         /\ reply' \in [Calls -> Replies]
         /\ InFlightExact'
         /\ pc'[c] = to /\ reply'[c] = "none" /\ call'[c] = call[c] /\ grant'[c] = grant[c]
         /\ \A d \in Calls \ {c} :
              pc'[d] = pc[d] /\ call'[d] = call[d] /\ grant'[d] = grant[d] /\ reply'[d] = reply[d]
<1>1. InFlightExact'
  BY Stays DEF IInv, Goto
<1>2. QED
  BY <1>1 DEF IInv, TypeOK, Goto, Replies

(* An activation whose handler leaves "running" as it ends.  *)
LEMMA FinishHandlerInv ==
  ASSUME IInv, NEW c \in Calls, pc[c] = "executing", NEW end \in Final, Finish(c, end),
         NEW h \in {"returned", "raised", "cancelled"},
         handler' = [handler EXCEPT ![grant[c]] = h],
         UNCHANGED <<authorized_calls, policy, now, receipts, issued, sent, reported>>
  PROVE  IInv'
<1>1. LocalStep(c)
  BY DEF IInv, TypeOK, LocalStep, Finish
<1>2. TypeOK'
  <2>1. handler' \in [Grants -> HandlerStates]
    BY DEF IInv, TypeOK, HandlerStates
  <2>2. QED
    BY <2>1 DEF IInv, TypeOK, Finish, end_in_flight, Replies, Digests
<1>3. InFlightExact'
  BY Leaves DEF IInv, Finish, Final, Awaiting, Active
<1>4. CallInv(c)'
  BY DEF IInv, TypeOK, Finish, CallInv, Final, Awaiting
<1>5. Bound(c) /\ handler[grant[c]] = "running"
  BY DEF IInv, CallInv
<1>6. ASSUME NEW g \in Grants, g = grant[c] PROVE GrantInv(g)'
  <2>1. sent[g] = {} /\ reported[g] = {} /\ issued[g] # None
    BY <1>5, <1>6 DEF IInv, GrantInv, Bound
  <2>2. QED
    BY <1>5, <1>6, <2>1 DEF IInv, TypeOK, GrantInv
<1>7. QED
  BY <1>1, <1>2, <1>3, <1>4, <1>6, LocalInv

(* An activation that goes on, moves its handler, if at all, forward, and  *)
(* may have posted a completion.                                           *)
LEMMA GotoInv ==
  ASSUME IInv, NEW c \in Calls, Active(c), NEW to \in Awaiting, Goto(c, to), Bound(c),
         NEW h \in HandlerStates, handler' = [handler EXCEPT ![grant[c]] = h],
         NEW s \in SUBSET Outcomes, sent' = [sent EXCEPT ![grant[c]] = s],
         sent[grant[c]] \subseteq s,
         UNCHANGED <<authorized_calls, policy, now, receipts, issued, reported>>,
         to = "executing" => h = "running" /\ s = {},
         to = "consuming" => h = "returned" /\ s = {"consumed"} /\ issued[grant[c]].decision,
         to = "releasing" =>
           /\ "released" \in s
           /\ h = "returned" \/ (h = "raised" /\ "consumed" \notin s),
         to = "evidence" =>
           /\ h = "returned"
           /\ s = IF issued[grant[c]].decision THEN {"consumed"} ELSE {}
           /\ reported[grant[c]] = s,
         to \in {"executing", "consuming", "releasing", "evidence"}
  PROVE  IInv'
<1>1. /\ pc' \in [Calls -> {"idle"} \union Awaiting \union Final]
      /\ reply' \in [Calls -> Replies]
      /\ InFlightExact'
      /\ pc'[c] = to /\ reply'[c] = "none" /\ call'[c] = call[c] /\ grant'[c] = grant[c]
      /\ \A d \in Calls \ {c} :
           pc'[d] = pc[d] /\ call'[d] = call[d] /\ grant'[d] = grant[d] /\ reply'[d] = reply[d]
  BY GotoFacts
<1>2. LocalStep(c)
  BY <1>1 DEF IInv, TypeOK, LocalStep
<1>3. TypeOK'
  BY <1>1 DEF IInv, TypeOK, Goto
<1>4. handler'[grant[c]] = h /\ sent'[grant[c]] = s
  BY DEF IInv, TypeOK, Bound
<1>5. Bound(c)'
  BY <1>1 DEF Bound
<1>6. CallInv(c)'
  BY <1>1, <1>4, <1>5 DEF CallInv, Final
<1>7. ASSUME NEW g \in Grants, g = grant[c] PROVE GrantInv(g)'
  <2>1. reported'[g] \subseteq sent'[g]
    BY <1>4, <1>7 DEF IInv, GrantInv
  <2>2. QED
    BY <1>4, <1>7, <2>1 DEF GrantInv, Bound
<1>8. QED
  BY <1>1, <1>2, <1>3, <1>6, <1>7, LocalInv

(* An activation that posts a completion and awaits its answer. *)
LEMMA PostInv ==
  ASSUME IInv, NEW c \in Calls, Active(c), Bound(c),
         NEW outcome \in Outcomes, PostComplete(c, outcome),
         NEW h \in HandlerStates, handler' = [handler EXCEPT ![grant[c]] = h],
         UNCHANGED <<authorized_calls, policy, now, receipts, issued, reported>>,
         outcome = "consumed" =>
           h = "returned" /\ sent[grant[c]] = {} /\ issued[grant[c]].decision,
         outcome = "released" =>
           h = "returned" \/ (h = "raised" /\ sent[grant[c]] = {})
  PROVE  IInv'
<1> DEFINE s == sent[grant[c]] \union {outcome}
           to == IF outcome = "consumed" THEN "consuming" ELSE "releasing"
<1>1. sent[grant[c]] \in SUBSET Outcomes
  BY DEF IInv, TypeOK, Bound
<1>2. s \in SUBSET Outcomes /\ sent[grant[c]] \subseteq s
  BY <1>1
<1>3. Goto(c, to) /\ sent' = [sent EXCEPT ![grant[c]] = s]
  BY DEF PostComplete
<1>4. to \in {"consuming", "releasing"} /\ to \in Awaiting
  BY DEF Awaiting
<1>5. to = "consuming" => h = "returned" /\ s = {"consumed"} /\ issued[grant[c]].decision
  OBVIOUS
<1>6. to = "releasing" =>
        "released" \in s /\ (h = "returned" \/ (h = "raised" /\ "consumed" \notin s))
  BY DEF Outcomes
<1> HIDE DEF s, to
<1>7. QED
  BY <1>2, <1>3, <1>4, <1>5, <1>6, GotoInv

(* The handler state of the held grant is unchanged, and what was posted.  *)
LEMMA SameHandler ==
  ASSUME IInv, NEW c \in Calls, UNCHANGED handler
  PROVE  /\ handler' = [handler EXCEPT ![grant[c]] = handler[grant[c]]]
         /\ grant[c] \in Grants => handler[grant[c]] \in HandlerStates
BY DEF IInv, TypeOK

LEMMA SameSent ==
  ASSUME IInv, NEW c \in Calls, UNCHANGED sent
  PROVE  /\ sent' = [sent EXCEPT ![grant[c]] = sent[grant[c]]]
         /\ grant[c] \in Grants => sent[grant[c]] \in SUBSET Outcomes
BY DEF IInv, TypeOK

LEMMA WrapAllowedInv ==
  ASSUME IInv, NEW c \in Calls, WrapAllowed(c)
  PROVE  IInv'
<1>1. /\ Active(c) /\ Bound(c) /\ sent[grant[c]] = {}
      /\ UNCHANGED <<authorized_calls, policy, now, issued, sent, reported, receipts>>
  <2>1. Bound(c) /\ handler[grant[c]] = "none" /\ Active(c)
    BY DEF IInv, CallInv, WrapAllowed, Active, Awaiting
  <2>2. QED
    BY <2>1 DEF IInv, GrantInv, Bound, WrapAllowed
<1>2. CASE Goto(c, "executing") /\ handler' = [handler EXCEPT ![grant[c]] = "running"]
  <2>1. sent' = [sent EXCEPT ![grant[c]] = {}]
    BY <1>1, SameSent
  <2>2. QED
    BY <1>1, <1>2, <2>1, GotoInv DEF Awaiting, HandlerStates
<1>3. CASE Finish(c, "raised") /\ UNCHANGED handler
  BY <1>1, <1>3, FinishInv DEF worldVars, Final
<1>4. QED
  BY <1>2, <1>3 DEF WrapAllowed

(* An executing activation: its grant is running and nothing is reported.  *)
LEMMA ExecutingFacts ==
  ASSUME IInv, NEW c \in Calls, pc[c] = "executing"
  PROVE  /\ Active(c) /\ Bound(c) /\ handler[grant[c]] = "running"
         /\ sent[grant[c]] = {} /\ reported[grant[c]] = {}
<1>1. Bound(c) /\ handler[grant[c]] = "running"
  BY DEF IInv, CallInv
<1>2. QED
  BY <1>1 DEF IInv, GrantInv, Bound, Active, Awaiting

LEMMA HandlerReturnsInv ==
  ASSUME IInv, NEW c \in Calls, HandlerReturns(c)
  PROVE  IInv'
<1>1. /\ Active(c) /\ Bound(c) /\ sent[grant[c]] = {} /\ reported[grant[c]] = {}
      /\ pc[c] = "executing"
      /\ handler' = [handler EXCEPT ![grant[c]] = "returned"]
      /\ UNCHANGED <<authorized_calls, policy, now, issued, reported, receipts>>
  BY ExecutingFacts DEF HandlerReturns
<1>2. CASE HasDecision(c) /\ PostComplete(c, "consumed")
  BY <1>1, <1>2, PostInv DEF Outcomes, HandlerStates, HasDecision
<1>3. CASE ~HasDecision(c) /\ Goto(c, "evidence") /\ UNCHANGED sent
  <2>1. sent' = [sent EXCEPT ![grant[c]] = {}]
    BY <1>1, <1>3, SameSent
  <2>2. QED
    BY <1>1, <1>3, <2>1, GotoInv DEF Awaiting, HandlerStates, HasDecision
<1>4. CASE PostComplete(c, "released")
  BY <1>1, <1>4, PostInv DEF Outcomes, HandlerStates
<1>5. CASE Finish(c, "raised") /\ UNCHANGED sent
  BY <1>1, <1>5, FinishHandlerInv DEF Final
<1>6. QED
  BY <1>2, <1>3, <1>4, <1>5 DEF HandlerReturns

LEMMA HandlerRaisesInv ==
  ASSUME IInv, NEW c \in Calls, HandlerRaises(c)
  PROVE  IInv'
<1>1. /\ Active(c) /\ Bound(c) /\ sent[grant[c]] = {} /\ pc[c] = "executing"
      /\ handler' = [handler EXCEPT ![grant[c]] = "raised"]
      /\ UNCHANGED <<authorized_calls, policy, now, issued, reported, receipts>>
  BY ExecutingFacts DEF HandlerRaises
<1>2. CASE PostComplete(c, "released")
  BY <1>1, <1>2, PostInv DEF Outcomes, HandlerStates
<1>3. CASE Finish(c, "raised") /\ UNCHANGED sent
  BY <1>1, <1>3, FinishHandlerInv DEF Final
<1>4. QED
  BY <1>2, <1>3 DEF HandlerRaises

(* Harbor accepts or rejects the completion it is sent. *)
LEMMA HarborCompleteInv ==
  ASSUME IInv, NEW c \in Calls, HarborComplete(c)
  PROVE  IInv'
<1>1. /\ pc[c] \in {"consuming", "releasing"} /\ reply[c] = "none"
      /\ UNCHANGED <<pc, call, digest, grant, authorized_calls, in_flight_count, policy, now,
                     issued, sent, handler, receipts>>
  BY DEF HarborComplete
<1>2. /\ reported' \in [Grants -> SUBSET Outcomes]
      /\ reply' \in [Calls -> Replies]
      /\ \A d \in Calls \ {c} : reply'[d] = reply[d]
      /\ \A g \in Grants \ {grant[c]} : reported'[g] = reported[g]
  BY DEF HarborComplete, IInv, TypeOK, Outcomes, Replies
<1>3. LocalStep(c)
  BY <1>1, <1>2 DEF LocalStep
<1>4. TypeOK'
  BY <1>1, <1>2 DEF IInv, TypeOK
<1>5. InFlightExact'
  BY <1>1 DEF IInv, InFlightExact, Active
<1>6. /\ Bound(c) /\ Bound(c)' /\ CallInv(c)
      /\ handler[grant[c]] \in {"returned", "raised"}
      /\ pc[c] = "consuming" => handler[grant[c]] = "returned"
  BY <1>1 DEF IInv, CallInv, Bound
<1>7. \/ /\ reported'[grant[c]] = reported[grant[c]]
            \union {IF pc[c] = "consuming" THEN "consumed" ELSE "released"}
         /\ reply'[c] = "ok"
      \/ /\ reported'[grant[c]] = reported[grant[c]]
         /\ reply'[c] = "error"
  BY <1>6 DEF HarborComplete, IInv, TypeOK, Bound
<1>8. /\ pc[c] = "consuming" => sent[grant[c]] = {"consumed"}
      /\ pc[c] = "releasing" => "released" \in sent[grant[c]]
      /\ reported[grant[c]] \subseteq sent[grant[c]]
      /\ reported'[grant[c]] \subseteq sent'[grant[c]]
  <2>1. reported[grant[c]] \subseteq sent[grant[c]]
    BY <1>6 DEF IInv, GrantInv, Bound
  <2>2. QED
    BY <1>1, <1>6, <1>7, <2>1 DEF CallInv
<1>9. CallInv(c)'
  BY <1>1, <1>6, <1>7, <1>8 DEF CallInv, Final
<1>10. ASSUME NEW g \in Grants, g = grant[c] PROVE GrantInv(g)'
  BY <1>1, <1>6, <1>8, <1>10 DEF IInv, GrantInv
<1>11. QED
  BY <1>3, <1>4, <1>5, <1>9, <1>10, LocalInv

(* A late copy tells Harbor nothing that was not posted: an activation     *)
(* that awaits the answer of "consumed" has posted nothing else, and so    *)
(* has one that goes on to evidence, or has drafted a receipt.             *)
LEMMA LateCompleteInv ==
  ASSUME IInv, NEW g \in Grants, NEW outcome \in Outcomes, LateComplete(g, outcome)
  PROVE  IInv'
<1>1. /\ outcome \in sent[g]
      /\ UNCHANGED <<pc, call, digest, grant, reply, authorized_calls, in_flight_count,
                     policy, now, issued, sent, handler, receipts>>
  BY DEF LateComplete, callVars
<1>2. /\ reported' \in [Grants -> SUBSET Outcomes]
      /\ reported'[g] = reported[g] \union {outcome}
      /\ \A h \in Grants \ {g} : reported'[h] = reported[h]
  BY DEF LateComplete, IInv, TypeOK
<1>3. TypeOK'
  BY <1>1, <1>2 DEF IInv, TypeOK
<1>4. InFlightExact'
  BY <1>1 DEF IInv, InFlightExact, Active
<1>5. SingleHolder'
  BY <1>1 DEF IInv, SingleHolder
<1>6. ASSUME NEW c \in Calls PROVE CallInv(c)'
  <2>1. CallInv(c)
    BY DEF IInv
  <2>2. CASE grant[c] # g
    BY <1>1, <1>2, <2>1, <2>2, CallFrame
  <2>3. CASE grant[c] = g
    <3>1. reported[g] \subseteq sent[g]
      BY DEF IInv, GrantInv
    <3>2. pc[c] = "consuming" => outcome = "consumed"
      BY <1>1, <2>1, <2>3 DEF CallInv
    <3>3. pc[c] = "evidence" => reported'[g] = reported[g]
      BY <1>1, <1>2, <2>1, <2>3 DEF CallInv
    <3>4. pc[c] = "consuming" /\ reply[c] = "ok" => reported'[g] = {"consumed"}
      BY <1>2, <2>1, <2>3, <3>2 DEF CallInv
    <3>5. QED
      BY <1>1, <2>1, <2>3, <3>3, <3>4 DEF CallInv, Bound
  <2>4. QED
    BY <2>2, <2>3
<1>7. \A k \in CacheKeys : CacheInv(k)'
  BY <1>1 DEF IInv, CacheInv
<1>8. ASSUME NEW h \in Grants PROVE GrantInv(h)'
  <2>1. GrantInv(h)
    BY DEF IInv
  <2>2. reported'[h] \subseteq sent[h]
    BY <1>1, <1>2, <2>1 DEF GrantInv
  <2>3. QED
    BY <1>1, <2>1, <2>2 DEF GrantInv
<1>9. ASSUME NEW x \in receipts' PROVE ReceiptInv(x)'
  <2>1. x \in receipts /\ x.grant \in Grants /\ ReceiptInv(x)
    BY <1>1 DEF IInv, TypeOK
  <2>2. reported'[x.grant] = {x.outcome}
    BY <1>1, <1>2, <2>1 DEF ReceiptInv
  <2>3. QED
    BY <1>1, <2>1, <2>2 DEF ReceiptInv
<1>10. QED
  BY <1>3, <1>4, <1>5, <1>6, <1>7, <1>8, <1>9 DEF IInv

LEMMA ConsumeConfirmedInv ==
  ASSUME IInv, NEW c \in Calls, ConsumeConfirmed(c)
  PROVE  IInv'
<1>1. /\ Active(c) /\ Bound(c)
      /\ sent[grant[c]] = {"consumed"} /\ reported[grant[c]] = {"consumed"}
      /\ handler[grant[c]] = "returned" /\ issued[grant[c]].decision
      /\ UNCHANGED <<authorized_calls, policy, now, issued, reported, receipts>>
  BY DEF IInv, CallInv, ConsumeConfirmed, Active, Awaiting
<1>2. handler' = [handler EXCEPT ![grant[c]] = "returned"]
  BY <1>1, SameHandler DEF ConsumeConfirmed
<1>3. CASE Goto(c, "evidence") /\ UNCHANGED sent
  <2>1. sent' = [sent EXCEPT ![grant[c]] = {"consumed"}] /\ {"consumed"} \in SUBSET Outcomes
    BY <1>1, <1>3, SameSent DEF Outcomes
  <2>2. QED
    BY <1>1, <1>2, <1>3, <2>1, GotoInv DEF Awaiting, HandlerStates
<1>4. CASE PostComplete(c, "released")
  BY <1>1, <1>2, <1>4, PostInv DEF Outcomes, HandlerStates
<1>5. QED
  BY <1>3, <1>4 DEF ConsumeConfirmed

LEMMA ConsumeFailsInv ==
  ASSUME IInv, NEW c \in Calls, ConsumeFails(c)
  PROVE  IInv'
<1>1. /\ Active(c) /\ Bound(c)
      /\ handler[grant[c]] = "returned" /\ PostComplete(c, "released")
      /\ UNCHANGED <<authorized_calls, policy, now, issued, reported, receipts>>
  BY DEF IInv, CallInv, ConsumeFails, Active, Awaiting
<1>2. handler' = [handler EXCEPT ![grant[c]] = "returned"]
  BY <1>1, SameHandler DEF ConsumeFails
<1>3. QED
  BY <1>1, <1>2, PostInv DEF Outcomes, HandlerStates

LEMMA HarborEvidenceInv ==
  ASSUME IInv, NEW c \in Calls, HarborEvidence(c)
  PROVE  IInv'
<1>1. /\ pc[c] = "evidence"
      /\ UNCHANGED <<pc, call, digest, grant, authorized_calls, in_flight_count, policy, now,
                     issued, sent, reported, handler, receipts>>
      /\ reply' \in [Calls -> Replies]
      /\ \A d \in Calls \ {c} : reply'[d] = reply[d]
  BY DEF HarborEvidence, worldVars, IInv, TypeOK, Replies
<1>2. LocalStep(c)
  BY <1>1 DEF LocalStep
<1>3. TypeOK'
  BY <1>1 DEF IInv, TypeOK
<1>4. InFlightExact'
  BY <1>1 DEF IInv, InFlightExact, Active
<1>5. CallInv(c)'
  BY <1>1 DEF IInv, CallInv, Bound, Final
<1>6. QED
  BY <1>1, <1>2, <1>3, <1>4, <1>5, LocalInv, QuietGrant DEF worldVars

(* The receipt is drafted as the activation lets go of its grant. *)
LEMMA EvidenceConfirmedInv ==
  ASSUME IInv, NEW c \in Calls, EvidenceConfirmed(c)
  PROVE  IInv'
<1>1. /\ pc[c] = "evidence" /\ Active(c) /\ Bound(c) /\ handler[grant[c]] = "returned"
      /\ sent[grant[c]] = IF issued[grant[c]].decision THEN {"consumed"} ELSE {}
      /\ reported[grant[c]] = sent[grant[c]]
      /\ UNCHANGED <<authorized_calls, policy, now, issued, sent, reported, handler>>
  BY DEF IInv, CallInv, EvidenceConfirmed, worldVars, Active, Awaiting
<1>2. CASE (Finish(c, "raised") \/ Finish(c, "returned")) /\ UNCHANGED receipts
  BY <1>1, <1>2, FinishInv DEF worldVars, Final
<1>3. CASE Finish(c, "returned") /\ receipts' = receipts \union build_receipt_draft(c)
  <2>1. /\ SingleHolder
        /\ \A d \in Calls : CallInv(d)
        /\ TypeOK
    BY DEF IInv
  <2>2. /\ pc'[c] = "returned" /\ grant'[c] = None /\ reply'[c] = "none"
        /\ \A d \in Calls \ {c} : pc'[d] = pc[d] /\ call'[d] = call[d]
                                  /\ grant'[d] = grant[d] /\ reply'[d] = reply[d]
    BY <1>3, <2>1 DEF TypeOK, Finish
  <2>3. build_receipt_draft(c) \subseteq
          [grant : Grants, policy_digest : Digests, outcome : {"consumed"}]
    BY <1>1, <2>1 DEF build_receipt_draft, TypeOK, Bound
  <2>4. TypeOK'
    BY <1>1, <1>3, <2>1, <2>3 DEF TypeOK, Finish, end_in_flight, Final, Replies, Digests
  <2>5. InFlightExact'
    BY <1>1, <1>3, Leaves DEF IInv, Finish, Final, Awaiting
  <2>6. SingleHolder'
    <3>1. \A k \in CacheKeys : authorized_calls[k] # None => authorized_calls[k].grant \in Grants
      BY <2>1 DEF TypeOK, CacheEntry
    <3>2. QED
      BY <1>1, <2>1, <2>2, <3>1, GrantsAssumption DEF SingleHolder
  <2>7. ASSUME NEW d \in Calls PROVE CallInv(d)'
    <3>1. CASE d = c
      BY <2>2, <3>1 DEF CallInv, Final
    <3>2. CASE d # c
      BY <1>1, <2>1, <2>2, <3>2, CallFrame
    <3>3. QED
      BY <3>1, <3>2
  <2>8. \A k \in CacheKeys : CacheInv(k)'
    BY <1>1, CacheFrame DEF IInv
  <2>9. \A g \in Grants : GrantInv(g)'
    BY <1>1, GrantFrame DEF IInv
  <2>10. ASSUME NEW x \in receipts' PROVE ReceiptInv(x)'
    <3>1. CASE x \in receipts
      <4>1. ReceiptInv(x) /\ x.grant \in Grants
        BY <3>1 DEF IInv, TypeOK
      <4>2. QED
        BY <1>1, <2>2, <4>1, GrantsAssumption DEF ReceiptInv
    <3>2. CASE x \in build_receipt_draft(c)
      <4>1. /\ x.grant = grant[c] /\ x.outcome = "consumed"
            /\ issued[grant[c]].decision
        BY <3>2 DEF build_receipt_draft, HasDecision
      <4>2. \A d \in Calls : grant'[d] # grant[c]
        BY <1>1, <2>1, <2>2, GrantsAssumption DEF SingleHolder, Bound
      <4>3. QED
        BY <1>1, <4>1, <4>2 DEF ReceiptInv
    <3>3. QED
      BY <1>3, <3>1, <3>2
  <2>11. QED
    BY <2>4, <2>5, <2>6, <2>7, <2>8, <2>9, <2>10 DEF IInv
<1>4. QED
  BY <1>2, <1>3 DEF EvidenceConfirmed

LEMMA CancelInv ==
  ASSUME IInv, NEW c \in Calls, Cancel(c)
  PROVE  IInv'
<1>1. CASE pc[c] = "executing"
  BY <1>1, FinishHandlerInv DEF Cancel, Final
<1>2. CASE pc[c] # "executing"
  BY <1>2, FinishInv DEF Cancel, Final, worldVars
<1>3. QED
  BY <1>1, <1>2
-----------------------------------------------------------------------------
(* Steps of the clock and of a reload touch no activation. *)
LEMMA QuietInv ==
  ASSUME IInv, UNCHANGED <<pc, call, grant, reply, authorized_calls, in_flight_count, issued,
                           sent, reported, handler, receipts>>,
         digest' = digest, policy' \in Policies, now' \in 0..MaxTime
  PROVE  IInv'
<1>1. TypeOK'
  BY DEF IInv, TypeOK
<1>2. InFlightExact'
  BY DEF IInv, InFlightExact, Active
<1>3. SingleHolder'
  BY DEF IInv, SingleHolder
<1>4. \A c \in Calls : CallInv(c)'
  BY CallFrame DEF IInv
<1>5. \A k \in CacheKeys : CacheInv(k)'
  BY CacheFrame DEF IInv
<1>6. \A g \in Grants : GrantInv(g)'
  BY GrantFrame DEF IInv
<1>7. \A x \in receipts' : ReceiptInv(x)'
  BY DEF IInv, ReceiptInv
<1>8. QED
  BY <1>1, <1>2, <1>3, <1>4, <1>5, <1>6, <1>7 DEF IInv
-----------------------------------------------------------------------------
(* Every step keeps the invariant. *)
LEMMA CallerStepInv ==
  ASSUME IInv, NEW c \in Calls, CallerStep(c)
  PROVE  IInv'
<1>1. ASSUME NEW r \in Requests, AuthorizeLocally(c, r) PROVE IInv'
  BY <1>1, FinishAtOnceInv DEF AuthorizeLocally, Final
<1>2. ASSUME NEW r \in Requests, AuthorizeBegin(c, r) PROVE IInv'
  <2>1. /\ authorized_calls' \in [CacheKeys -> CacheEntry \union {None}]
        /\ \A k \in CacheKeys : authorized_calls'[k] \in {authorized_calls[k], None}
    BY <1>2 DEF AuthorizeBegin, IInv, TypeOK
  <2>2. QED
    BY <1>2, <2>1, BeginVerifyInv DEF AuthorizeBegin
<1>3. ASSUME NEW r \in Requests, WrapRefuse(c, r) PROVE IInv'
  BY <1>3, FinishAtOnceInv DEF WrapRefuse, Final
<1>4. ASSUME NEW r \in Requests, WrapPassthrough(c, r) PROVE IInv'
  BY <1>4, WrapPassthroughInv
<1>5. ASSUME NEW r \in Requests, WrapVerify(c, r) PROVE IInv'
  BY <1>5, PopFacts, BeginVerifyInv DEF WrapVerify
<1>6. ASSUME NEW r \in Requests, WrapCached(c, r) PROVE IInv'
  BY <1>6, WrapCachedInv
<1>7. CASE PassthroughEnds(c)
  BY <1>7, FinishInv DEF PassthroughEnds, Active, Awaiting, Final
<1>8. QED
  BY <1>1, <1>2, <1>3, <1>4, <1>5, <1>6, <1>7, HandlerReturnsInv, HandlerRaisesInv, CancelInv
  DEF CallerStep

LEMMA HarborStepInv ==
  ASSUME IInv, NEW c \in Calls, HarborStep(c)
  PROVE  IInv'
BY HarborAllowInv, HarborRefuseInv, HarborCompleteInv, HarborEvidenceInv DEF HarborStep

LEMMA SdkStepInv ==
  ASSUME IInv, NEW c \in Calls, SdkStep(c)
  PROVE  IInv'
<1>1. CASE AuthorizeRefused(c)
  BY <1>1, FinishInv DEF AuthorizeRefused, Active, Awaiting, Final
<1>2. CASE WrapRefused(c)
  BY <1>2, FinishInv DEF WrapRefused, Active, Awaiting, Final
<1>3. CASE VerifyLost(c)
  BY <1>3, FinishInv DEF VerifyLost, Active, Awaiting, Final
<1>4. CASE ReleaseEnds(c)
  BY <1>4, FinishInv DEF ReleaseEnds, Active, Awaiting, Final
<1>5. CASE EvidenceFails(c)
  BY <1>5, FinishInv DEF EvidenceFails, Active, Awaiting, Final
<1>6. QED
  BY <1>1, <1>2, <1>3, <1>4, <1>5, AuthorizeAllowedInv, WrapAllowedInv, ConsumeConfirmedInv,
     ConsumeFailsInv, EvidenceConfirmedInv DEF SdkStep

LEMMA InitInv ==
  ASSUME Init
  PROVE  IInv
<1>1. TypeOK
  <2>1. /\ pc \in [Calls -> {"idle"} \union Awaiting \union Final]
        /\ call \in [Calls -> CallShape \union {None}]
        /\ digest \in [Calls -> Digests]
        /\ grant \in [Calls -> Grants \union {None}]
        /\ reply \in [Calls -> Replies]
    BY DEF Init, Digests, Replies
  <2>2. /\ authorized_calls \in [CacheKeys -> CacheEntry \union {None}]
        /\ issued \in [Grants -> GrantRecord \union {None}]
        /\ sent \in [Grants -> SUBSET Outcomes]
        /\ reported \in [Grants -> SUBSET Outcomes]
        /\ handler \in [Grants -> HandlerStates]
    BY DEF Init, HandlerStates
  <2>3. /\ in_flight_count \in Nat
        /\ policy \in Policies
        /\ now \in 0..MaxTime
        /\ receipts = {}
    BY TtlAssumption DEF Init
  <2>4. QED
    BY <2>1, <2>2, <2>3 DEF TypeOK
<1>2. InFlightExact
  <2>1. {c \in Calls : Active(c)} = {}
    BY DEF Init, Active, Awaiting
  <2>2. QED
    BY <2>1, FS_EmptySet DEF Init, InFlightExact
<1>3. SingleHolder
  BY DEF Init, SingleHolder
<1>4. \A c \in Calls : CallInv(c)
  BY DEF Init, CallInv
<1>5. \A k \in CacheKeys : CacheInv(k)
  BY DEF Init, CacheInv
<1>6. \A g \in Grants : GrantInv(g)
  BY DEF Init, GrantInv
<1>7. QED
  BY <1>1, <1>2, <1>3, <1>4, <1>5, <1>6 DEF IInv, Init

LEMMA NextInv ==
  ASSUME IInv, [Next]_vars
  PROVE  IInv'
<1>1. CASE \E c \in Calls : CallerStep(c) \/ HarborStep(c) \/ SdkStep(c)
  BY <1>1, CallerStepInv, HarborStepInv, SdkStepInv
<1>2. CASE Tick
  <2>1. now' \in 0..MaxTime /\ policy' \in Policies
    BY <1>2, TtlAssumption DEF Tick, IInv, TypeOK
  <2>2. QED
    BY <1>2, <2>1, QuietInv DEF Tick, callVars, worldVars
<1>3. ASSUME NEW p \in Policies, apply_policy_snapshot(p) PROVE IInv'
  <2>1. now' \in 0..MaxTime /\ policy' \in Policies
    BY <1>3 DEF apply_policy_snapshot, IInv, TypeOK
  <2>2. QED
    BY <1>3, <2>1, QuietInv DEF apply_policy_snapshot, callVars, worldVars
<1>4. CASE UNCHANGED vars
  <2>1. now' \in 0..MaxTime /\ policy' \in Policies
    BY <1>4 DEF vars, IInv, TypeOK
  <2>2. QED
    BY <1>4, <2>1, QuietInv DEF vars
<1>5. CASE NetworkStep
  BY <1>5, HarborAllowUnheardInv, LateCompleteInv DEF NetworkStep
<1>6. QED
  BY <1>1, <1>2, <1>3, <1>4, <1>5 DEF Next, Terminated

(* The inductive invariant holds in every reachable state of the           *)
(* interceptor: each await knows the state of the grant it holds.          *)
THEOREM Inductive == Spec => []IInv
<1>1. Init => IInv
  BY InitInv
<1>2. IInv /\ [Next]_vars => IInv'
  BY NextInv
<1>3. QED
  BY <1>1, <1>2, PTL DEF Spec

-----------------------------------------------------------------------------
(* Type correctness of the interceptor, its cache and Harbor's records.    *)
THEOREM TypeCorrect == Spec => []TypeOK
BY Inductive, PTL DEF IInv

(* _in_flight_count is exact on every path out of authorize_tool_call and  *)
(* wrap_execute, for any number of concurrent calls.                       *)
THEOREM CountExact == Spec => []InFlightExact
BY Inductive, PTL DEF IInv

(* A grant is never used twice: one activation or one cache entry has it.  *)
THEOREM NoSharedGrant == Spec => []SingleHolder
BY Inductive, PTL DEF IInv

(* No side-effecting handler runs except under an unreported grant given   *)
(* for exactly that call.                                                  *)
THEOREM Authorized == Spec => []ExecutionAuthorized
<1>1. IInv => ExecutionAuthorized
  <2> SUFFICES ASSUME IInv, NEW c \in Calls, pc[c] = "executing"
               PROVE  /\ grant[c] # None
                      /\ issued[grant[c]] # None
                      /\ issued[grant[c]].call = auth_kwargs(call[c])
                      /\ handler[grant[c]] = "running"
                      /\ reported[grant[c]] = {}
    BY DEF ExecutionAuthorized
  <2>1. QED
    BY ExecutingFacts, GrantsAssumption DEF Bound
<1>2. QED
  BY <1>1, Inductive, PTL

(* A receipt draft never contradicts what Harbor was told. *)
THEOREM Truthful == Spec => []ReceiptTruthful
<1>1. IInv => ReceiptTruthful
  BY DEF IInv, ReceiptInv, ReceiptTruthful
<1>2. QED
  BY <1>1, Inductive, PTL
-----------------------------------------------------------------------------
(* The policy digest.  A run bound from a policy file always has one; only *)
(* a run bound from a bare registry does not.                              *)

(* A step of one activation that issues no grant, fills no cache entry and *)
(* drafts no receipt.                                                      *)
LEMMA DigestFrame ==
  ASSUME IInv, DigestInv, NEW c \in Calls,
         \A d \in Calls \ {c} : pc'[d] = pc[d] /\ grant'[d] = grant[d] /\ digest'[d] = digest[d],
         \A k \in CacheKeys : authorized_calls'[k] \in {authorized_calls[k], None},
         issued' = issued, receipts' = receipts,
         grant'[c] # None => digest'[c] = issued[grant'[c]].policy_digest,
         pc'[c] \in {"authorizing", "verifying"} => digest'[c] # None
  PROVE  DigestInv'
BY DEF DigestInv

LEMMA DigestFinish ==
  ASSUME IInv, DigestInv, NEW c \in Calls, NEW end \in Final, Finish(c, end),
         UNCHANGED <<authorized_calls, issued, receipts>>
  PROVE  DigestInv'
<1>1. /\ grant'[c] = None /\ pc'[c] = end
      /\ \A d \in Calls \ {c} : pc'[d] = pc[d] /\ grant'[d] = grant[d] /\ digest'[d] = digest[d]
  BY DEF Finish, IInv, TypeOK
<1>2. QED
  BY <1>1, DigestFrame DEF Final

LEMMA DigestGoto ==
  ASSUME IInv, DigestInv, NEW c \in Calls, NEW to, to \notin {"authorizing", "verifying"},
         Goto(c, to), UNCHANGED <<authorized_calls, issued, receipts>>
  PROVE  DigestInv'
<1>1. /\ grant' = grant /\ digest' = digest /\ pc'[c] = to
      /\ \A d \in Calls \ {c} : pc'[d] = pc[d]
  BY DEF Goto, IInv, TypeOK
<1>2. QED
  BY <1>1, DigestFrame DEF DigestInv

LEMMA DigestAtOnce ==
  ASSUME IInv, DigestInv, NEW c \in Calls, NEW end \in Final, FinishAtOnce(c, end)
  PROVE  DigestInv'
<1>1. /\ grant' = grant /\ digest' = digest /\ pc'[c] = end
      /\ \A d \in Calls \ {c} : pc'[d] = pc[d]
      /\ UNCHANGED <<authorized_calls, issued, receipts>>
  BY DEF FinishAtOnce, worldVars, IInv, TypeOK
<1>2. QED
  BY <1>1, DigestFrame DEF DigestInv, Final

LEMMA DigestBegin ==
  ASSUME IInv, DigestInv, NEW c \in Calls, NEW r \in Requests, NEW to, pc[c] = "idle",
         BeginVerify(c, r, to), Digest[policy] # None,
         \A k \in CacheKeys : authorized_calls'[k] \in {authorized_calls[k], None}
  PROVE  DigestInv'
<1>1. /\ grant'[c] = None /\ digest'[c] = Digest[policy]
      /\ \A d \in Calls \ {c} : pc'[d] = pc[d] /\ grant'[d] = grant[d] /\ digest'[d] = digest[d]
      /\ UNCHANGED <<issued, receipts>>
  BY DEF BeginVerify, worldVars, IInv, TypeOK, CallInv
<1>2. QED
  BY <1>1, DigestFrame

(* The cached digest wins over the digest of a policy loaded meanwhile.    *)
LEMMA DigestCached ==
  ASSUME IInv, DigestInv, NEW c \in Calls, NEW r \in Requests, WrapCached(c, r)
  PROVE  DigestInv'
<1> DEFINE k == resolve_side_effecting_call(policy, r)
           key == authorization_cache_key(k)
           e == authorized_calls[key]
<1>1. policy \in Policies /\ k \in CallShape /\ key \in CacheKeys
  BY ResolvedType, KeyType DEF IInv, TypeOK
<1>2. Cached(r) = e /\ e # None
  BY TakeFacts DEF WrapCached, Cached
<1>3. e.policy_digest # None /\ e.policy_digest = issued[e.grant].policy_digest
  BY <1>1, <1>2 DEF DigestInv
<1> HIDE DEF k, key, e
<1>4. /\ pc'[c] = "executing" /\ grant'[c] = e.grant /\ digest'[c] = e.policy_digest
      /\ \A d \in Calls \ {c} : pc'[d] = pc[d] /\ grant'[d] = grant[d] /\ digest'[d] = digest[d]
      /\ UNCHANGED <<issued, receipts>>
  BY <1>2, <1>3 DEF WrapCached, evidence_policy_digest, IInv, TypeOK
<1>5. \A l \in CacheKeys : authorized_calls'[l] \in {authorized_calls[l], None}
  BY PopFacts DEF WrapCached
<1>6. QED
  BY <1>3, <1>4, <1>5, DigestFrame

(* Harbor's record of a new grant carries the digest pinned by the call.   *)
LEMMA DigestAllow ==
  ASSUME IInv, DigestInv, NEW c \in Calls, NEW g \in Grants, NEW decision \in BOOLEAN,
         HarborAllow(c, g, decision)
  PROVE  DigestInv'
<1>1. /\ issued'[g].policy_digest = digest[c]
      /\ \A h \in Grants \ {g} : issued'[h] = issued[h]
      /\ issued[g] = None
      /\ grant'[c] = g
      /\ \A d \in Calls \ {c} : grant'[d] = grant[d]
      /\ UNCHANGED <<pc, digest, authorized_calls, receipts>>
  BY DEF HarborAllow, IInv, TypeOK
<1>2. \A d \in Calls : grant[d] # None => grant[d] \in Grants \ {g}
  BY <1>1, HeldIsIssued DEF IInv, TypeOK
<1>3. \A k \in CacheKeys : authorized_calls[k] # None => authorized_calls[k].grant \in Grants \ {g}
  BY <1>1 DEF IInv, TypeOK, CacheInv, CacheEntry
<1>4. \A x \in receipts : x.grant \in Grants \ {g}
  <2>1. handler[g] = "none"
    BY <1>1 DEF IInv, GrantInv
  <2>2. QED
    BY <2>1 DEF IInv, TypeOK, ReceiptInv
<1>5. QED
  BY <1>1, <1>2, <1>3, <1>4 DEF DigestInv

LEMMA DigestUnheard ==
  ASSUME IInv, DigestInv, NEW c \in Calls, NEW g \in Grants, HarborAllowUnheard(c, g)
  PROVE  DigestInv'
<1>1. /\ \A h \in Grants \ {g} : issued'[h] = issued[h]
      /\ issued[g] = None
      /\ UNCHANGED <<pc, grant, digest, authorized_calls, receipts>>
  BY DEF HarborAllowUnheard, callVars, IInv, TypeOK
<1>2. \A d \in Calls : grant[d] # None => grant[d] \in Grants \ {g}
  BY <1>1, HeldIsIssued DEF IInv, TypeOK
<1>3. \A k \in CacheKeys : authorized_calls[k] # None => authorized_calls[k].grant \in Grants \ {g}
  BY <1>1 DEF IInv, TypeOK, CacheInv, CacheEntry
<1>4. \A x \in receipts : x.grant \in Grants \ {g}
  <2>1. handler[g] = "none"
    BY <1>1 DEF IInv, GrantInv
  <2>2. QED
    BY <2>1 DEF IInv, TypeOK, ReceiptInv
<1>5. QED
  BY <1>1, <1>2, <1>3, <1>4 DEF DigestInv

LEMMA DigestInsert ==
  ASSUME IInv, DigestInv, NEW c \in Calls, AuthorizeAllowed(c)
  PROVE  DigestInv'
<1> DEFINE key == authorization_cache_key(call[c])
           entry == [grant |-> grant[c], policy_digest |-> digest[c], call |-> call[c],
                     cached_at |-> now]
           kept == evict_expired_authorization_cache(authorized_calls, now)
<1>1. pc[c] = "authorizing" /\ Bound(c) /\ key \in CacheKeys
  BY KeyType DEF IInv, CallInv, Bound, AuthorizeAllowed
<1>2. /\ kept \in [CacheKeys -> CacheEntry \union {None}]
      /\ \A k \in CacheKeys : kept[k] \in {authorized_calls[k], None}
  BY EvictFacts DEF IInv, TypeOK
<1>3. authorized_calls' = [kept EXCEPT ![key] = entry]
  BY DEF AuthorizeAllowed
<1>4. entry.policy_digest = issued[entry.grant].policy_digest /\ entry.policy_digest # None
  BY <1>1, GrantsAssumption DEF DigestInv, Bound
<1>5. PICK end \in Final : Finish(c, end)
  BY DEF AuthorizeAllowed, Final
<1>6. UNCHANGED <<receipts, issued>>
  BY DEF AuthorizeAllowed, worldVars
<1> HIDE DEF key, entry, kept
<1>7. /\ authorized_calls'[key] = entry
      /\ \A k \in CacheKeys \ {key} : authorized_calls'[k] \in {authorized_calls[k], None}
  BY <1>1, <1>2, <1>3
<1>8. /\ grant'[c] = None /\ pc'[c] = end
      /\ \A d \in Calls \ {c} : pc'[d] = pc[d] /\ grant'[d] = grant[d] /\ digest'[d] = digest[d]
  BY <1>5 DEF Finish, IInv, TypeOK
<1>9. QED
  BY <1>4, <1>6, <1>7, <1>8 DEF DigestInv, Final

LEMMA DigestReceipt ==
  ASSUME IInv, DigestInv, NEW c \in Calls, EvidenceConfirmed(c)
  PROVE  DigestInv'
<1>1. CASE (Finish(c, "raised") \/ Finish(c, "returned")) /\ UNCHANGED receipts
  BY <1>1, DigestFinish DEF EvidenceConfirmed, worldVars, Final
<1>2. CASE Finish(c, "returned") /\ receipts' = receipts \union build_receipt_draft(c)
  <2>1. Bound(c)
    BY DEF IInv, CallInv, EvidenceConfirmed
  <2>2. \A x \in build_receipt_draft(c) : x.policy_digest = issued[x.grant].policy_digest
    BY <2>1, GrantsAssumption DEF DigestInv, build_receipt_draft, Bound
  <2>3. /\ grant'[c] = None /\ pc'[c] = "returned"
        /\ \A d \in Calls \ {c} : pc'[d] = pc[d] /\ grant'[d] = grant[d] /\ digest'[d] = digest[d]
    BY <1>2 DEF Finish, IInv, TypeOK
  <2>4. UNCHANGED <<authorized_calls, issued>>
    BY DEF EvidenceConfirmed, worldVars
  <2>5. QED
    BY <1>2, <2>2, <2>3, <2>4 DEF DigestInv
<1>3. QED
  BY <1>1, <1>2 DEF EvidenceConfirmed

LEMMA DigestNext ==
  ASSUME \A p \in Policies : Digest[p] # None, IInv, DigestInv, [Next]_vars
  PROVE  DigestInv'
<1>0. policy \in Policies /\ Digest[policy] # None
  BY DEF IInv, TypeOK
<1>1. ASSUME NEW c \in Calls, CallerStep(c) PROVE DigestInv'
  <2>1. ASSUME NEW r \in Requests, AuthorizeLocally(c, r) PROVE DigestInv'
    BY <2>1, DigestAtOnce DEF AuthorizeLocally, Final
  <2>2. ASSUME NEW r \in Requests, AuthorizeBegin(c, r) PROVE DigestInv'
    BY <1>0, <2>2, DigestBegin DEF AuthorizeBegin
  <2>3. ASSUME NEW r \in Requests, WrapRefuse(c, r) PROVE DigestInv'
    BY <2>3, DigestAtOnce DEF WrapRefuse, Final
  <2>4. ASSUME NEW r \in Requests, WrapPassthrough(c, r) PROVE DigestInv'
    <3>1. /\ pc'[c] = "passthrough" /\ \A d \in Calls \ {c} : pc'[d] = pc[d]
          /\ UNCHANGED <<grant, digest, authorized_calls, issued, receipts>>
      BY <2>4 DEF WrapPassthrough, worldVars, IInv, TypeOK
    <3>2. QED
      BY <3>1, DigestFrame DEF DigestInv
  <2>5. ASSUME NEW r \in Requests, WrapVerify(c, r) PROVE DigestInv'
    BY <1>0, <2>5, PopFacts, DigestBegin DEF WrapVerify
  <2>6. ASSUME NEW r \in Requests, WrapCached(c, r) PROVE DigestInv'
    BY <2>6, DigestCached
  <2>7. CASE PassthroughEnds(c)
    BY <2>7, DigestFinish DEF PassthroughEnds, worldVars, Final
  <2>8. CASE HandlerReturns(c)
    <3>1. UNCHANGED <<authorized_calls, issued, receipts>>
      BY <2>8 DEF HandlerReturns
    <3>2. \/ \E to \in {"consuming", "releasing", "evidence"} : Goto(c, to)
          \/ Finish(c, "raised")
      BY <2>8 DEF HandlerReturns, PostComplete
    <3>3. QED
      BY <3>1, <3>2, DigestGoto, DigestFinish DEF Final
  <2>9. CASE HandlerRaises(c)
    <3>1. UNCHANGED <<authorized_calls, issued, receipts>>
      BY <2>9 DEF HandlerRaises
    <3>2. (\E to \in {"consuming", "releasing"} : Goto(c, to)) \/ Finish(c, "raised")
      BY <2>9 DEF HandlerRaises, PostComplete
    <3>3. QED
      BY <3>1, <3>2, DigestGoto, DigestFinish DEF Final
  <2>10. CASE Cancel(c)
    BY <2>10, DigestFinish DEF Cancel, Final
  <2>11. QED
    BY <1>1, <2>1, <2>2, <2>3, <2>4, <2>5, <2>6, <2>7, <2>8, <2>9, <2>10 DEF CallerStep
<1>2. ASSUME NEW c \in Calls, HarborStep(c) PROVE DigestInv'
  <2>1. ASSUME NEW kind \in {"deny", "approval_required"}, HarborRefuse(c, kind) PROVE DigestInv'
    BY <2>1 DEF HarborRefuse, worldVars, DigestInv
  <2>2. CASE HarborComplete(c)
    BY <2>2 DEF HarborComplete, DigestInv
  <2>3. CASE HarborEvidence(c)
    BY <2>3 DEF HarborEvidence, worldVars, DigestInv
  <2>4. QED
    BY <1>2, <2>1, <2>2, <2>3, DigestAllow DEF HarborStep
<1>3. ASSUME NEW c \in Calls, SdkStep(c) PROVE DigestInv'
  <2>1. CASE AuthorizeRefused(c)
    BY <2>1, DigestFinish DEF AuthorizeRefused, worldVars, Final
  <2>2. CASE WrapAllowed(c)
    BY <2>2, DigestFinish, DigestGoto DEF WrapAllowed, Final
  <2>3. CASE WrapRefused(c)
    BY <2>3, DigestFinish DEF WrapRefused, worldVars, Final
  <2>4. CASE VerifyLost(c)
    BY <2>4, DigestFinish DEF VerifyLost, worldVars, Final
  <2>5. CASE ConsumeConfirmed(c)
    <3>1. UNCHANGED <<authorized_calls, issued, receipts>>
      BY <2>5 DEF ConsumeConfirmed
    <3>2. \E to \in {"consuming", "releasing", "evidence"} : Goto(c, to)
      BY <2>5 DEF ConsumeConfirmed, PostComplete
    <3>3. QED
      BY <3>1, <3>2, DigestGoto
  <2>6. CASE ConsumeFails(c)
    <3>1. UNCHANGED <<authorized_calls, issued, receipts>>
      BY <2>6 DEF ConsumeFails
    <3>2. \E to \in {"consuming", "releasing"} : Goto(c, to)
      BY <2>6 DEF ConsumeFails, PostComplete
    <3>3. QED
      BY <3>1, <3>2, DigestGoto
  <2>7. CASE ReleaseEnds(c)
    BY <2>7, DigestFinish DEF ReleaseEnds, worldVars, Final
  <2>8. CASE EvidenceFails(c)
    BY <2>8, DigestFinish DEF EvidenceFails, worldVars, Final
  <2>9. QED
    BY <1>3, <2>1, <2>2, <2>3, <2>4, <2>5, <2>6, <2>7, <2>8, DigestInsert, DigestReceipt
    DEF SdkStep
<1>4. CASE Tick
  BY <1>4 DEF Tick, callVars, worldVars, DigestInv
<1>5. ASSUME NEW p \in Policies, apply_policy_snapshot(p) PROVE DigestInv'
  BY <1>5 DEF apply_policy_snapshot, callVars, worldVars, DigestInv
<1>6. CASE UNCHANGED vars
  BY <1>6 DEF vars, DigestInv
<1>7. CASE NetworkStep
  <2>1. ASSUME NEW g \in Grants, NEW outcome \in Outcomes, LateComplete(g, outcome)
        PROVE  DigestInv'
    BY <2>1 DEF LateComplete, callVars, DigestInv
  <2>2. QED
    BY <1>7, <2>1, DigestUnheard DEF NetworkStep
<1>8. QED
  BY <1>1, <1>2, <1>3, <1>4, <1>5, <1>6, <1>7 DEF Next, Terminated

(* When every policy has a digest, an activation and its receipt state the *)
(* digest of the policy Harbor's authorization was asked under, whatever   *)
(* reloads happen between authorization, execution and evidence.           *)
THEOREM DigestNeverDrifts ==
  ASSUME \A p \in Policies : Digest[p] # None
  PROVE  Spec => []DigestPinned
<1>1. Init => DigestInv
  BY DEF Init, DigestInv
<1>2. IInv /\ DigestInv /\ [Next]_vars => DigestInv'
  BY DigestNext
<1>3. IInv /\ DigestInv => DigestPinned
  <2> SUFFICES ASSUME IInv, DigestInv PROVE DigestPinned
    OBVIOUS
  <2>1. \A c \in Calls : pc[c] \in {"executing", "consuming", "releasing", "evidence"} =>
          grant[c] # None
    BY GrantsAssumption DEF IInv, CallInv, Bound
  <2>2. QED
    BY <2>1 DEF DigestInv, DigestPinned
<1>4. QED
  BY <1>1, <1>2, <1>3, Inductive, PTL DEF Spec
-----------------------------------------------------------------------------
(* What Harbor is told, where nothing but the evidence mapper can fail.    *)

Reliable == Faults \subseteq {"mapper"}

Told(g) ==
  issued[g] # None /\ issued[g].decision =>
    /\ handler[g] = "returned" => reported[g] = {"consumed"}
    /\ handler[g] = "raised" => reported[g] = {"released"}

(* A step of one activation: it may change what is known of the grant it   *)
(* holds, or gets, and owes Harbor nothing for one it lets go.             *)
LEMMA ToldFrame ==
  ASSUME IInv, IInv', FinalInv, NEW c \in Calls,
         \A d \in Calls \ {c} : pc'[d] = pc[d] /\ grant'[d] = grant[d] /\ reply'[d] = reply[d],
         \A g \in Grants : g \notin {grant[c], grant'[c]} =>
           issued'[g] = issued[g] /\ handler'[g] = handler[g] /\ reported'[g] = reported[g],
         ReleaseInv(c)',
         \A g \in Grants : g = grant[c] /\ g # grant'[c] => Told(g)'
  PROVE  FinalInv'
<1>1. ASSUME NEW d \in Calls \ {c}
      PROVE  ReleaseInv(d)'
  <2>1. CASE pc[d] = "releasing"
    <3>1. grant[d] \in Grants /\ grant[d] # None
      BY <2>1, GrantsAssumption DEF IInv, CallInv, Bound
    <3>2. grant[d] # grant[c] /\ grant[d] # grant'[c]
      BY <3>1 DEF IInv, SingleHolder
    <3>3. QED
      BY <3>1, <3>2 DEF FinalInv, ReleaseInv
  <2>2. CASE pc[d] # "releasing"
    BY <2>2 DEF FinalInv, ReleaseInv
  <2>3. QED
    BY <2>1, <2>2
<1>2. ASSUME NEW g \in Grants, issued'[g] # None, issued'[g].decision,
             \A d \in Calls : grant'[d] # g
      PROVE  Told(g)'
  <2>1. CASE g = grant[c]
    BY <1>2, <2>1
  <2>2. CASE g # grant[c]
    <3>1. \A d \in Calls : grant[d] # g
      BY <1>2, <2>2
    <3>2. issued'[g] = issued[g] /\ handler'[g] = handler[g] /\ reported'[g] = reported[g]
      BY <1>2, <2>2
    <3>3. QED
      BY <1>2, <3>1, <3>2 DEF FinalInv, FinalizedAsItHappened, Told
  <2>3. QED
    BY <2>1, <2>2
<1>3. FinalizedAsItHappened'
  BY <1>2 DEF FinalizedAsItHappened, Told
<1>4. QED
  BY <1>1, <1>3 DEF FinalInv

(* An activation without a grant starts, or ends.                          *)
LEMMA ToldWithout ==
  ASSUME IInv, IInv', FinalInv, NEW c \in Calls, grant[c] = None, grant'[c] = None,
         \A d \in Calls \ {c} : pc'[d] = pc[d] /\ grant'[d] = grant[d] /\ reply'[d] = reply[d],
         UNCHANGED worldVars, pc'[c] \notin {"consuming", "releasing"}
  PROVE  FinalInv'
BY ToldFrame, GrantsAssumption DEF worldVars, ReleaseInv

LEMMA ToldFinish ==
  ASSUME IInv, IInv', FinalInv, NEW c \in Calls, NEW end \in Final, Finish(c, end),
         UNCHANGED <<issued, reported>>,
         \A g \in Grants \ {grant[c]} : handler'[g] = handler[g],
         \A g \in Grants : g = grant[c] => Told(g)'
  PROVE  FinalInv'
<1>1. /\ grant'[c] = None /\ pc'[c] = end
      /\ \A d \in Calls \ {c} : pc'[d] = pc[d] /\ grant'[d] = grant[d] /\ reply'[d] = reply[d]
  BY DEF Finish, IInv, TypeOK
<1>2. ReleaseInv(c)'
  BY <1>1 DEF ReleaseInv, Final
<1>3. QED
  BY <1>1, <1>2, ToldFrame

LEMMA ToldGoto ==
  ASSUME IInv, IInv', FinalInv, NEW c \in Calls, NEW to, Goto(c, to),
         UNCHANGED <<issued, reported>>,
         \A g \in Grants \ {grant[c]} : handler'[g] = handler[g],
         to = "releasing" => handler'[grant[c]] = "raised" /\ reported[grant[c]] = {}
  PROVE  FinalInv'
<1>1. /\ grant' = grant /\ pc'[c] = to /\ reply'[c] = "none"
      /\ \A d \in Calls \ {c} : pc'[d] = pc[d] /\ reply'[d] = reply[d]
  BY DEF Goto, IInv, TypeOK
<1>2. ReleaseInv(c)'
  BY <1>1 DEF ReleaseInv
<1>3. QED
  BY <1>1, <1>2, ToldFrame

LEMMA ToldCallerStep ==
  ASSUME Reliable, IInv, IInv', FinalInv, NEW c \in Calls, CallerStep(c)
  PROVE  FinalInv'
<1>0. ~SinkRaises /\ "cancel" \notin Faults
  BY DEF Reliable, SinkRaises
<1>1. ASSUME NEW end \in Final, FinishAtOnce(c, end), pc[c] = "idle"
      PROVE  FinalInv'
  <2>1. /\ grant' = grant /\ reply' = reply /\ pc'[c] = end /\ grant[c] = None
        /\ \A d \in Calls \ {c} : pc'[d] = pc[d]
        /\ UNCHANGED worldVars
    BY <1>1 DEF FinishAtOnce, IInv, TypeOK, CallInv
  <2>2. pc'[c] \notin {"consuming", "releasing"}
    BY <2>1 DEF Final
  <2>3. QED
    BY <2>1, <2>2, ToldWithout
<1>2. ASSUME NEW r \in Requests, NEW to \in {"authorizing", "verifying"}, BeginVerify(c, r, to),
             pc[c] = "idle"
      PROVE  FinalInv'
  <2>1. /\ grant' = grant /\ reply' = reply /\ pc'[c] = to /\ grant[c] = None
        /\ \A d \in Calls \ {c} : pc'[d] = pc[d]
        /\ UNCHANGED worldVars
    BY <1>2 DEF BeginVerify, IInv, TypeOK, CallInv
  <2>2. QED
    BY <2>1, ToldWithout
<1>3. ASSUME NEW r \in Requests, WrapPassthrough(c, r)
      PROVE  FinalInv'
  <2>1. /\ grant' = grant /\ reply' = reply /\ pc'[c] = "passthrough" /\ grant[c] = None
        /\ \A d \in Calls \ {c} : pc'[d] = pc[d]
        /\ UNCHANGED worldVars
    BY <1>3 DEF WrapPassthrough, IInv, TypeOK, CallInv
  <2>2. QED
    BY <2>1, ToldWithout
<1>4. ASSUME NEW r \in Requests, WrapCached(c, r)
      PROVE  FinalInv'
  <2>1. /\ pc'[c] = "executing" /\ grant[c] = None /\ reply' = reply
        /\ grant'[c] = Cached(r).grant
        /\ \A d \in Calls \ {c} : pc'[d] = pc[d] /\ grant'[d] = grant[d]
        /\ \A g \in Grants \ {Cached(r).grant} : handler'[g] = handler[g]
        /\ UNCHANGED <<issued, reported>>
    BY <1>4 DEF WrapCached, IInv, TypeOK, CallInv
  <2>2. ReleaseInv(c)'
    BY <2>1 DEF ReleaseInv
  <2>3. QED
    BY <2>1, <2>2, ToldFrame, GrantsAssumption
<1>5. CASE PassthroughEnds(c)
  <2>1. PICK end \in Final : Finish(c, end)
    BY <1>5 DEF PassthroughEnds, Final
  <2>2. grant[c] \notin Grants /\ UNCHANGED worldVars
    BY <1>5, GrantsAssumption DEF PassthroughEnds, IInv, CallInv
  <2>3. QED
    BY <2>1, <2>2, ToldFinish DEF worldVars
<1>6. ASSUME HandlerReturns(c) \/ HandlerRaises(c)
      PROVE  FinalInv'
  <2>1. grant[c] \in Grants /\ handler[grant[c]] = "running" /\ reported[grant[c]] = {}
    BY <1>6 DEF HandlerReturns, HandlerRaises, IInv, CallInv, Bound, GrantInv
  <2>2. /\ \A g \in Grants \ {grant[c]} : handler'[g] = handler[g]
        /\ UNCHANGED <<issued, reported>>
    BY <1>6 DEF HandlerReturns, HandlerRaises, IInv, TypeOK
  <2>3. CASE HandlerReturns(c)
    <3>1. Goto(c, "consuming") \/ Goto(c, "evidence")
      BY <1>0, <2>3 DEF HandlerReturns, PostComplete
    <3>2. QED
      BY <2>2, <3>1, ToldGoto
  <2>4. CASE HandlerRaises(c)
    <3>1. handler'[grant[c]] = "raised"
      BY <2>1, <2>4 DEF HandlerRaises, IInv, TypeOK
    <3>2. CASE Goto(c, "releasing")
      BY <2>1, <2>2, <3>1, <3>2, ToldGoto
    <3>3. CASE ~HasDecision(c) /\ Finish(c, "raised")
      <4>1. \A g \in Grants : g = grant[c] => Told(g)'
        BY <2>2, <3>3 DEF Told, HasDecision
      <4>2. QED
        BY <2>2, <3>3, <4>1, ToldFinish DEF Final
    <3>4. QED
      BY <2>4, <3>2, <3>3 DEF HandlerRaises, PostComplete
  <2>5. QED
    BY <1>6, <2>3, <2>4
<1>7. ASSUME NEW r \in Requests, AuthorizeLocally(c, r) \/ WrapRefuse(c, r)
      PROVE  FinalInv'
  BY <1>1, <1>7 DEF AuthorizeLocally, WrapRefuse, Final
<1>8. ASSUME NEW r \in Requests, AuthorizeBegin(c, r) \/ WrapVerify(c, r)
      PROVE  FinalInv'
  BY <1>2, <1>8 DEF AuthorizeBegin, WrapVerify
<1>9. QED
  BY <1>0, <1>3, <1>4, <1>5, <1>6, <1>7, <1>8 DEF CallerStep, Cancel

LEMMA ToldHarborStep ==
  ASSUME Reliable, IInv, IInv', FinalInv, NEW c \in Calls, HarborStep(c)
  PROVE  FinalInv'
<1>1. ASSUME NEW g \in Grants, NEW decision \in BOOLEAN, HarborAllow(c, g, decision)
      PROVE  FinalInv'
  <2>1. /\ grant[c] = None /\ grant'[c] = g /\ pc' = pc /\ pc[c] \in {"authorizing", "verifying"}
        /\ \A d \in Calls \ {c} : grant'[d] = grant[d] /\ reply'[d] = reply[d]
        /\ \A h \in Grants \ {g} : issued'[h] = issued[h]
        /\ UNCHANGED <<handler, reported>>
    BY <1>1 DEF HarborAllow, IInv, TypeOK, CallInv
  <2>2. ReleaseInv(c)'
    BY <2>1 DEF ReleaseInv
  <2>3. QED
    BY <2>1, <2>2, ToldFrame, GrantsAssumption
<1>2. ASSUME NEW kind \in {"deny", "approval_required"}, HarborRefuse(c, kind)
      PROVE  FinalInv'
  <2>1. /\ grant' = grant /\ pc' = pc /\ pc[c] \in {"authorizing", "verifying"}
        /\ \A d \in Calls \ {c} : reply'[d] = reply[d]
        /\ UNCHANGED worldVars
    BY <1>2 DEF HarborRefuse, IInv, TypeOK
  <2>2. ReleaseInv(c)'
    BY <2>1 DEF ReleaseInv
  <2>3. QED
    BY <2>1, <2>2, ToldFrame DEF worldVars
<1>3. CASE HarborComplete(c)
  <2>1. grant[c] \in Grants
    BY <1>3 DEF HarborComplete, IInv, CallInv, Bound
  <2>2. /\ grant' = grant /\ pc' = pc /\ reply'[c] = "ok"
        /\ \A d \in Calls \ {c} : reply'[d] = reply[d]
        /\ reported'[grant[c]] = reported[grant[c]] \union {IF pc[c] = "consuming" THEN "consumed" ELSE "released"}
        /\ \A h \in Grants \ {grant[c]} : reported'[h] = reported[h]
        /\ UNCHANGED <<handler, issued>>
    BY <1>3, <2>1 DEF HarborComplete, Reliable, IInv, TypeOK
  <2>3. ReleaseInv(c)'
    BY <1>3, <2>2 DEF HarborComplete, ReleaseInv, FinalInv
  <2>4. QED
    BY <2>2, <2>3, ToldFrame
<1>4. CASE HarborEvidence(c)
  <2>1. /\ grant' = grant /\ pc' = pc /\ pc[c] = "evidence"
        /\ \A d \in Calls \ {c} : reply'[d] = reply[d]
        /\ UNCHANGED worldVars
    BY <1>4 DEF HarborEvidence, IInv, TypeOK
  <2>2. ReleaseInv(c)'
    BY <2>1 DEF ReleaseInv
  <2>3. QED
    BY <2>1, <2>2, ToldFrame DEF worldVars
<1>5. QED
  BY <1>1, <1>2, <1>3, <1>4 DEF HarborStep

LEMMA ToldSdkStep ==
  ASSUME Reliable, IInv, IInv', FinalInv, NEW c \in Calls, SdkStep(c)
  PROVE  FinalInv'
<1>0. ~SinkRaises /\ ~Lost
  BY DEF Reliable, SinkRaises, Lost
<1>1. CASE AuthorizeAllowed(c)
  <2>1. Finish(c, "returned") /\ UNCHANGED worldVars /\ handler[grant[c]] = "none"
    BY <1>0, <1>1 DEF AuthorizeAllowed, IInv, CallInv
  <2>2. \A g \in Grants : g = grant[c] => Told(g)'
    BY <2>1 DEF worldVars, Told
  <2>3. QED
    BY <2>1, <2>2, ToldFinish DEF worldVars, Final
<1>2. CASE AuthorizeRefused(c) \/ WrapRefused(c)
  <2>1. PICK end \in Final : Finish(c, end)
    BY <1>2 DEF AuthorizeRefused, WrapRefused, Final
  <2>2. grant[c] \notin Grants /\ UNCHANGED worldVars
    BY <1>2, GrantsAssumption DEF AuthorizeRefused, WrapRefused, IInv, CallInv
  <2>3. QED
    BY <2>1, <2>2, ToldFinish DEF worldVars
<1>3. CASE WrapAllowed(c)
  <2>1. /\ Goto(c, "executing") /\ UNCHANGED <<issued, reported>>
        /\ \A g \in Grants \ {grant[c]} : handler'[g] = handler[g]
    BY <1>0, <1>3 DEF WrapAllowed, IInv, TypeOK
  <2>2. QED
    BY <2>1, ToldGoto
<1>4. CASE ConsumeConfirmed(c)
  <2>1. Goto(c, "evidence") /\ UNCHANGED <<issued, reported, handler>>
    BY <1>0, <1>4 DEF ConsumeConfirmed
  <2>2. QED
    BY <2>1, ToldGoto
<1>5. ~ConsumeFails(c)
  BY <1>0 DEF ConsumeFails, FinalInv, ReleaseInv
<1>6. CASE ReleaseEnds(c)
  <2>1. reply[c] = "ok" /\ handler[grant[c]] = "raised" /\ reported[grant[c]] = {"released"}
    BY <1>0, <1>6 DEF ReleaseEnds, FinalInv, ReleaseInv
  <2>2. Finish(c, "raised") /\ UNCHANGED worldVars
    BY <1>6 DEF ReleaseEnds
  <2>3. \A g \in Grants : g = grant[c] => Told(g)'
    BY <2>1, <2>2 DEF worldVars, Told
  <2>4. QED
    BY <2>2, <2>3, ToldFinish DEF worldVars, Final
<1>7. CASE EvidenceConfirmed(c) \/ EvidenceFails(c)
  <2>1. /\ handler[grant[c]] = "returned"
        /\ reported[grant[c]] = IF issued[grant[c]].decision THEN {"consumed"} ELSE {}
    BY <1>7 DEF EvidenceConfirmed, EvidenceFails, IInv, CallInv
  <2>2. PICK end \in Final : Finish(c, end)
    BY <1>7 DEF EvidenceConfirmed, EvidenceFails, Final
  <2>3. UNCHANGED worldVars
    BY <1>7 DEF EvidenceConfirmed, EvidenceFails
  <2>4. \A g \in Grants : g = grant[c] => Told(g)'
    BY <2>1, <2>3 DEF worldVars, Told
  <2>5. QED
    BY <2>2, <2>3, <2>4, ToldFinish DEF worldVars
<1>8. QED
  BY <1>0, <1>1, <1>2, <1>3, <1>4, <1>5, <1>6, <1>7 DEF SdkStep, VerifyLost

LEMMA ToldNext ==
  ASSUME Reliable, IInv, FinalInv, [Next]_vars
  PROVE  FinalInv'
<1>1. IInv'
  BY NextInv
<1>2. CASE Tick
  BY <1>2 DEF Tick, callVars, worldVars, FinalInv, ReleaseInv, FinalizedAsItHappened
<1>3. ASSUME NEW p \in Policies, apply_policy_snapshot(p)
      PROVE  FinalInv'
  BY <1>3 DEF apply_policy_snapshot, callVars, worldVars, FinalInv, ReleaseInv, FinalizedAsItHappened
<1>4. CASE UNCHANGED vars
  BY <1>4 DEF vars, FinalInv, ReleaseInv, FinalizedAsItHappened
<1>5. ~NetworkStep
  BY DEF Reliable, NetworkStep, HarborAllowUnheard, Lost, LateComplete, LateCopies
<1>6. QED
  BY <1>1, <1>2, <1>3, <1>4, <1>5, ToldCallerStep, ToldHarborStep, ToldSdkStep
  DEF Next, Terminated

(* As long as nothing but the evidence mapper fails, Harbor is told of     *)
(* every ended execution exactly what happened, before the activation that *)
(* ran it lets go of the reservation, for any number of activations and    *)
(* through any reloads.                                                    *)
THEOREM ToldExactly ==
  ASSUME Reliable
  PROVE  Spec => []FinalizedAsItHappened
<1>1. Init => FinalInv
  BY DEF Init, FinalInv, ReleaseInv, FinalizedAsItHappened
<1>2. IInv /\ FinalInv /\ [Next]_vars => FinalInv'
  BY ToldNext
<1>3. FinalInv => FinalizedAsItHappened
  BY DEF FinalInv
<1>4. QED
  BY <1>1, <1>2, <1>3, Inductive, PTL DEF Spec
-----------------------------------------------------------------------------
(* The interceptor implements SpendLifecycle. *)

(* Steps that touch neither Harbor's records nor a handler nor a receipt   *)
(* are stutters.                                                           *)
LEMMA Stutters ==
  ASSUME UNCHANGED <<issued, reported, handler, receipts>>
  PROVE  UNCHANGED Lifecycle!vars
<1>1. \A g \in Grants : Phase(g)' = Phase(g)
  BY DEF Phase
<1>2. QED
  BY <1>1 DEF Lifecycle!vars

(* A grant changes its phase, and nothing else of the lifecycle changes.   *)
LEMMA PhaseMoves ==
  ASSUME NEW g \in Grants, NEW from, NEW to, reported' = reported, receipts' = receipts,
         \A h \in Grants \ {g} : issued'[h] = issued[h] /\ handler'[h] = handler[h],
         Phase(g) = from, Phase(g)' = to
  PROVE  Lifecycle!Move(g, from, to)
<1>1. \A h \in Grants \ {g} : Phase(h)' = Phase(h)
  BY DEF Phase
<1>2. QED
  BY <1>1 DEF Lifecycle!Move

LEMMA AllowRefines ==
  ASSUME IInv, NEW c \in Calls, NEW g \in Grants, NEW decision \in BOOLEAN,
         HarborAllow(c, g, decision) \/ HarborAllowUnheard(c, g)
  PROVE  Lifecycle!Next
<1>1. issued'[g] \in GrantRecord
  <2>1. auth_kwargs(call[c]) \in CallShape
    BY AuthKwargsType DEF IInv, CallInv, HarborAllow, HarborAllowUnheard
  <2>2. digest[c] \in Digests /\ issued \in [Grants -> GrantRecord \union {None}]
    BY DEF IInv, TypeOK
  <2>3. CASE HarborAllow(c, g, decision)
    BY <2>1, <2>2, <2>3 DEF GrantRecord, HarborAllow
  <2>4. CASE HarborAllowUnheard(c, g)
    BY <2>1, <2>2, <2>4 DEF GrantRecord, HarborAllowUnheard
  <2>5. QED
    BY <2>3, <2>4
<1>2. /\ issued[g] = None /\ issued'[g] # None /\ handler'[g] = "none"
      /\ reported' = reported /\ receipts' = receipts
      /\ \A h \in Grants \ {g} : issued'[h] = issued[h] /\ handler'[h] = handler[h]
  BY <1>1, NoneNoRecord DEF HarborAllow, HarborAllowUnheard, IInv, TypeOK, GrantInv
<1>3. Phase(g) = "free" /\ Phase(g)' = "granted"
  BY <1>2 DEF Phase
<1>4. QED
  BY <1>2, <1>3, PhaseMoves DEF Lifecycle!Next, Lifecycle!Allow

(* The handler of one issued grant changes its state. *)
LEMMA HandlerMoves ==
  ASSUME IInv, NEW g \in Grants, issued[g] # None,
         NEW to \in HandlerStates \ {"none"}, handler' = [handler EXCEPT ![g] = to],
         UNCHANGED <<issued, reported, receipts>>,
         \/ handler[g] = "none" /\ to = "running"
         \/ handler[g] = "running" /\ to \in {"returned", "raised", "cancelled"}
  PROVE  Lifecycle!Next
<1>1. handler'[g] = to /\ \A h \in Grants \ {g} : handler'[h] = handler[h]
  BY DEF IInv, TypeOK
<1>2. Phase(g)' = to
  BY <1>1 DEF Phase
<1>3. CASE handler[g] = "none" /\ to = "running"
  <2>1. Phase(g) = "granted"
    BY <1>3 DEF Phase
  <2>2. QED
    BY <1>1, <1>2, <1>3, <2>1, PhaseMoves DEF Lifecycle!Next, Lifecycle!Start
<1>4. CASE handler[g] = "running" /\ to \in {"returned", "raised", "cancelled"}
  <2>1. Phase(g) = "running"
    BY <1>4 DEF Phase
  <2>2. Lifecycle!Move(g, "running", to)
    BY <1>1, <1>2, <2>1, PhaseMoves
  <2>3. QED
    BY <1>4, <2>2 DEF Lifecycle!Next, Lifecycle!End, Lifecycle!Ended
<1>5. QED
  BY <1>3, <1>4

LEMMA CachedRefines ==
  ASSUME IInv, NEW c \in Calls, NEW r \in Requests, WrapCached(c, r)
  PROVE  Lifecycle!Next
<1> DEFINE k == resolve_side_effecting_call(policy, r)
           key == authorization_cache_key(k)
           e == authorized_calls[key]
<1>1. key \in CacheKeys
  BY ResolvedType, KeyType DEF IInv, TypeOK
<1>2. Cached(r) = e /\ e # None
  BY TakeFacts DEF WrapCached, Cached
<1>3. e.grant \in Grants /\ issued[e.grant] # None /\ handler[e.grant] = "none"
  BY <1>1, <1>2 DEF IInv, TypeOK, CacheInv, CacheEntry
<1>4. handler' = [handler EXCEPT ![e.grant] = "running"]
      /\ UNCHANGED <<issued, reported, receipts>>
  BY <1>2 DEF WrapCached
<1> HIDE DEF e
<1>5. QED
  BY <1>3, <1>4, HandlerMoves DEF HandlerStates

(* Harbor hears, in time or late, of a completion that was posted.  Only a *)
(* handler that ended by itself is posted of, "consumed" only if it        *)
(* returned, and "released" never once a receipt was drafted.              *)
LEMMA ReportRefines ==
  ASSUME IInv, NEW g \in Grants, NEW outcome \in sent[g],
         reported' = [reported EXCEPT ![g] = @ \union {outcome}],
         UNCHANGED <<issued, handler, receipts>>
  PROVE  Lifecycle!Next
<1>1. GrantInv(g) /\ outcome \in {"consumed", "released"}
  BY DEF IInv, TypeOK, Outcomes
<1>2. issued[g] # None /\ handler[g] \in {"returned", "raised"}
  BY <1>1 DEF IInv, TypeOK, GrantInv, HandlerStates
<1>3. Phase(g) = handler[g]
  BY <1>2 DEF Phase
<1>4. \A h \in Grants : Phase(h)' = Phase(h)
  BY DEF Phase
<1>5. Lifecycle!Report(g, outcome)
  BY <1>4 DEF Lifecycle!Report
<1>6. CASE outcome = "consumed"
  <2>1. handler[g] = "returned"
    BY <1>1, <1>2, <1>6 DEF GrantInv
  <2>2. Lifecycle!Consume(g)
    BY <1>3, <1>5, <1>6, <2>1 DEF Lifecycle!Consume
  <2>3. QED
    BY <2>2 DEF Lifecycle!Next
<1>7. CASE outcome = "released"
  <2>1. g \notin {x.grant : x \in receipts}
    BY <1>7 DEF IInv, TypeOK, ReceiptInv
  <2>2. Lifecycle!Release(g)
    BY <1>2, <1>3, <1>5, <1>7, <2>1 DEF Lifecycle!Release
  <2>3. QED
    BY <2>2 DEF Lifecycle!Next
<1>8. QED
  BY <1>1, <1>6, <1>7

LEMMA CompleteRefines ==
  ASSUME IInv, NEW c \in Calls, HarborComplete(c)
  PROVE  Lifecycle!Next \/ UNCHANGED Lifecycle!vars
<1>1. UNCHANGED <<issued, handler, receipts>>
  BY DEF HarborComplete
<1>2. CASE reported' = reported
  BY <1>1, <1>2, Stutters
<1>3. CASE reported' = [reported EXCEPT ![grant[c]] =
             @ \union {IF pc[c] = "consuming" THEN "consumed" ELSE "released"}]
  <2>1. /\ grant[c] \in Grants
        /\ (IF pc[c] = "consuming" THEN "consumed" ELSE "released") \in sent[grant[c]]
    BY DEF HarborComplete, IInv, CallInv, Bound
  <2>2. QED
    BY <1>1, <1>3, <2>1, ReportRefines
<1>4. QED
  BY <1>2, <1>3 DEF HarborComplete

(* A receipt is drafted for a reservation told consumed, and only that.    *)
LEMMA ReceiptRefines ==
  ASSUME IInv, NEW c \in Calls, EvidenceConfirmed(c)
  PROVE  Lifecycle!Next \/ UNCHANGED Lifecycle!vars
<1>1. /\ grant[c] \in Grants /\ issued[grant[c]] # None /\ handler[grant[c]] = "returned"
      /\ reported[grant[c]] = IF issued[grant[c]].decision THEN {"consumed"} ELSE {}
      /\ UNCHANGED <<issued, reported, handler>>
  BY DEF EvidenceConfirmed, IInv, CallInv, Bound, worldVars
<1>2. CASE receipts' = receipts
  BY <1>1, <1>2, Stutters
<1>3. CASE receipts' = receipts \union build_receipt_draft(c) /\ receipts' # receipts
  <2>1. PICK g \in Grants : g = grant[c]
    BY <1>1
  <2>2. /\ issued[g].decision
        /\ receipts' = receipts \union
             {[grant |-> g, policy_digest |-> digest[c], outcome |-> "consumed"]}
    BY <1>3, <2>1 DEF build_receipt_draft, HasDecision
  <2>3. {x.grant : x \in receipts'} = {x.grant : x \in receipts} \union {g}
    <3> DEFINE draft == [grant |-> g, policy_digest |-> digest[c], outcome |-> "consumed"]
    <3>1. draft.grant = g /\ receipts' = receipts \union {draft}
      BY <2>2
    <3> HIDE DEF draft
    <3>2. QED
      BY <3>1
  <2>4. Phase(g) = "returned"
    BY <1>1, <2>1 DEF Phase
  <2>5. \A h \in Grants : Phase(h)' = Phase(h)
    BY <1>1 DEF Phase
  <2>6. Lifecycle!Certify(g)
    BY <1>1, <2>1, <2>2, <2>3, <2>4, <2>5 DEF Lifecycle!Certify
  <2>7. QED
    BY <2>6 DEF Lifecycle!Next
<1>4. \/ receipts' = receipts
      \/ receipts' = receipts \union build_receipt_draft(c) /\ receipts' # receipts
  BY DEF EvidenceConfirmed
<1>5. QED
  BY <1>2, <1>3, <1>4

(* Steps that start or end the handler of the grant an activation holds.   *)
LEMMA HandlerStepRefines ==
  ASSUME IInv, NEW c \in Calls,
         WrapAllowed(c) \/ HandlerReturns(c) \/ HandlerRaises(c) \/ Cancel(c)
  PROVE  Lifecycle!Next \/ UNCHANGED Lifecycle!vars
<1>1. CASE UNCHANGED handler
  BY <1>1, Stutters DEF WrapAllowed, HandlerReturns, HandlerRaises, Cancel
<1>2. CASE WrapAllowed(c) /\ handler' = [handler EXCEPT ![grant[c]] = "running"]
  <2>1. Bound(c) /\ handler[grant[c]] = "none" /\ UNCHANGED <<issued, reported, receipts>>
    BY <1>2 DEF WrapAllowed, IInv, CallInv
  <2>2. QED
    BY <1>2, <2>1, HandlerMoves DEF HandlerStates, Bound
<1>3. CASE /\ pc[c] = "executing"
           /\ \E h \in {"returned", "raised", "cancelled"} :
                handler' = [handler EXCEPT ![grant[c]] = h]
           /\ UNCHANGED <<issued, reported, receipts>>
  <2>1. Bound(c) /\ handler[grant[c]] = "running"
    BY <1>3, ExecutingFacts
  <2>2. QED
    BY <1>3, <2>1, HandlerMoves DEF HandlerStates, Bound
<1>4. QED
  BY <1>1, <1>2, <1>3 DEF WrapAllowed, HandlerReturns, HandlerRaises, Cancel

LEMMA StepRefines ==
  ASSUME IInv, [Next]_vars
  PROVE  Lifecycle!Next \/ UNCHANGED Lifecycle!vars
<1>1. ASSUME NEW c \in Calls, CallerStep(c)
      PROVE  Lifecycle!Next \/ UNCHANGED Lifecycle!vars
  <2>1. ASSUME NEW r \in Requests, \/ AuthorizeLocally(c, r) \/ AuthorizeBegin(c, r)
                                   \/ WrapRefuse(c, r) \/ WrapPassthrough(c, r)
                                   \/ WrapVerify(c, r)
        PROVE  UNCHANGED Lifecycle!vars
    BY <2>1, Stutters
    DEF AuthorizeLocally, AuthorizeBegin, WrapRefuse, WrapPassthrough, WrapVerify,
        FinishAtOnce, BeginVerify, worldVars
  <2>2. CASE PassthroughEnds(c)
    BY <2>2, Stutters DEF PassthroughEnds, worldVars
  <2>3. QED
    BY <1>1, <2>1, <2>2, CachedRefines, HandlerStepRefines DEF CallerStep
<1>2. ASSUME NEW c \in Calls, HarborStep(c)
      PROVE  Lifecycle!Next \/ UNCHANGED Lifecycle!vars
  <2>1. ASSUME NEW kind \in {"deny", "approval_required"}, HarborRefuse(c, kind)
        PROVE  UNCHANGED Lifecycle!vars
    BY <2>1, Stutters DEF HarborRefuse, worldVars
  <2>2. CASE HarborEvidence(c)
    BY <2>2, Stutters DEF HarborEvidence, worldVars
  <2>3. QED
    BY <1>2, <2>1, <2>2, AllowRefines, CompleteRefines DEF HarborStep
<1>3. ASSUME NEW c \in Calls, SdkStep(c)
      PROVE  Lifecycle!Next \/ UNCHANGED Lifecycle!vars
  <2>1. CASE UNCHANGED <<issued, reported, handler, receipts>>
    BY <2>1, Stutters
  <2>2. QED
    BY <1>3, <2>1, HandlerStepRefines, ReceiptRefines
    DEF SdkStep, AuthorizeAllowed, AuthorizeRefused, WrapRefused, VerifyLost, ConsumeConfirmed,
        ConsumeFails, ReleaseEnds, EvidenceFails, worldVars
<1>4. CASE NetworkStep
  <2>1. ASSUME NEW g \in Grants, NEW outcome \in Outcomes, LateComplete(g, outcome)
        PROVE  Lifecycle!Next
    BY <2>1, ReportRefines DEF LateComplete
  <2>2. QED
    BY <1>4, <2>1, AllowRefines DEF NetworkStep
<1>5. CASE UNCHANGED <<worldVars, receipts>>
  BY <1>5, Stutters DEF worldVars
<1>6. QED
  BY <1>1, <1>2, <1>3, <1>4, <1>5 DEF Next, Tick, apply_policy_snapshot, Terminated, vars, worldVars

(* Every behaviour of the interceptor, with any interleaving, all the      *)
(* faults and completions that reach Harbor late and in any order, is a    *)
(* behaviour SpendLifecycle allows: one handler run per grant, "consumed"  *)
(* only after a return, a receipt only for what was told consumed and only *)
(* that, and nothing told afterwards that contradicts it.                  *)
THEOREM Refinement == Spec => LifecycleSpec
<1>1. Init => Lifecycle!Init
  <2> SUFFICES ASSUME Init PROVE Lifecycle!Init
    OBVIOUS
  <2>1. \A g \in Grants : Phase(g) = "free"
    BY DEF Init, Phase
  <2>2. QED
    BY <2>1 DEF Init, Lifecycle!Init
<1>2. IInv /\ [Next]_vars => [Lifecycle!Next]_(Lifecycle!vars)
  BY StepRefines
<1>3. QED
  BY <1>1, <1>2, Inductive, PTL DEF Spec, LifecycleSpec, Lifecycle!Spec
=============================================================================
