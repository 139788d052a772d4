-------------------------- MODULE SpendInterceptor --------------------------
(***************************************************************************)
(* PaybondToolInterceptor (agent/interceptor.py) of one agent run, with    *)
(* the authorization cache (agent/authorization_cache.py), the spend guard *)
(* (spend_guard.py) and the Harbor service it talks to.                    *)
(*                                                                         *)
(* A member of Calls is one activation of authorize_tool_call or of        *)
(* wrap_execute.  All activations share one event loop: the code between   *)
(* two awaits is one action, and activations interleave at the awaits      *)
(* (Harbor verify, the tool handler, Harbor complete, evidence submit).    *)
(* Harbor's own step and the receipt of its answer are separate actions,   *)
(* so answers overtake each other, get lost, or come after a cancellation. *)
(* Requests go through the gateway retry loop: a copy whose answer was     *)
(* given up may still reach Harbor at any later time.                      *)
(*                                                                         *)
(* A member of Grants is one allow answer of Harbor (an audit_id).  A      *)
(* grant that carries a decision_id holds a scope reservation, which the   *)
(* interceptor must report "consumed" or "released".                       *)
(*                                                                         *)
(* A policy is named by a member of Policies.  Its registry is             *)
(* Registry[p], its digest Digest[p]; a run bound from a bare registry has *)
(* no policy snapshot, and its digest is None.                             *)
(***************************************************************************)
EXTENDS ToolRegistry, FiniteSets

CONSTANTS
  Policies,     \* the policies a run may be bound to or reloaded with
  Registry,     \* [Policies -> Registries]
  Digest,       \* [Policies -> digest or None]
  SandboxSpendCents,  \* spend of the sandbox binding, or None in production
  Calls,        \* interceptor activations
  ToolCallIds,  \* the framework's tool_call_id values
  Requests,     \* the requests the framework may make
  Grants,       \* allow answers Harbor may give
  Faults,       \* which of the faults below can happen
  Ttl,          \* AUTHORIZATION_CACHE_TTL_SEC, in ticks
  MaxTime       \* bound on the clock

(* "sink": the trace sink raises; "lost": no answer reaches the client;    *)
(* "rejected": Harbor answers a completion or evidence with an error;      *)
(* "mapper": the evidence payload cannot be built; "cancel": the task      *)
(* running the activation is cancelled at an await.                        *)
FaultKinds == {"sink", "lost", "rejected", "mapper", "cancel"}

RequestType ==
  [tool_name : Tools, tool_call_id : ToolCallIds,
   operation : Operations \union {None}, requested_spend_cents : SpendCents]

ASSUME RegistryAssumption == Registry \in [Policies -> Registries]
ASSUME SandboxAssumption == SandboxSpendCents \in SpendCents
ASSUME NormalizedAssumption ==
  \A p \in Policies : normalized(Registry[p]) /\ validate_for_bind(Registry[p])
ASSUME CallsAssumption == IsFiniteSet(Calls)
ASSUME RequestsAssumption == Requests \subseteq RequestType
ASSUME FaultsAssumption == Faults \subseteq FaultKinds
ASSUME TtlAssumption == Ttl \in Nat /\ MaxTime \in Nat
ASSUME GrantsAssumption == None \notin Grants

VARIABLES
  pc,                 \* where each activation is
  call,               \* its resolved call
  digest,             \* the policy digest it will state in its result
  grant,              \* the grant it was answered with, or holds
  reply,              \* Harbor's answer on its way to it
  authorized_calls,   \* _authorized_calls: cache key -> entry
  in_flight_count,    \* _in_flight_count
  policy,             \* binding.registry and binding.policy_snapshot
  now,                \* time.monotonic()
  issued,             \* Harbor: what each grant was given for
  sent,               \* completion outcomes the SDK has posted per grant
  reported,           \* Harbor: completion outcomes received per grant
  handler,            \* the world: the tool handler run under each grant
  receipts            \* receipt drafts returned to callers

callVars == <<pc, call, digest, grant, reply>>
worldVars == <<issued, sent, reported, handler>>
vars == <<pc, call, digest, grant, reply, authorized_calls, in_flight_count,
          policy, now, issued, sent, reported, handler, receipts>>

-----------------------------------------------------------------------------
(* An activation ends by returning (the verdict, or the tool's result), by *)
(* raising, or by being cancelled.                                         *)
Final == {"returned", "raised", "cancelled"}
Awaiting ==
  {"authorizing", "verifying", "passthrough", "executing", "consuming", "releasing", "evidence"}

CallShape ==
  [tool_call_id : ToolCallIds, tool_name : Tools, operation : Operations,
   requested_spend_cents : SpendCents]
Digests == {Digest[p] : p \in Policies} \union {None}
CacheKeys == ToolCallIds \X Operations
CacheEntry == [grant : Grants, policy_digest : Digests, call : CallShape, cached_at : Nat]
GrantRecord == [call : CallShape, policy_digest : Digests, decision : BOOLEAN]
Outcomes == {"consumed", "released"}
HandlerStates == {"none", "running", "returned", "raised", "cancelled"}
Replies == {"none", "allow", "deny", "approval_required", "ok", "error"}

(* None is no record: an absent entry or grant is never a present one. *)
ASSUME NoneNoRecord == None \notin CacheEntry \union GrantRecord

Active(c) == pc[c] \in Awaiting

-----------------------------------------------------------------------------
(* One call of a tool under a policy. *)

(* A request names the tool and may override the operation and the spend.  *)
resolved_operation(p, r) ==
  IF r.operation # None THEN r.operation ELSE resolve_operation(Registry[p], r.tool_name)

(* The sandbox binding fills in a missing spend and caps a larger one. *)
resolved_spend_cents(p, r) ==
  LET spend == IF r.requested_spend_cents # None
               THEN r.requested_spend_cents
               ELSE resolve_spend_cents(Registry[p], r.tool_name)
  IN  CASE SandboxSpendCents = None -> spend
        [] SandboxSpendCents # None /\ spend = None -> SandboxSpendCents
        [] SandboxSpendCents # None /\ spend # None ->
             IF spend < SandboxSpendCents THEN spend ELSE SandboxSpendCents

(* The call shape the authorization cache compares, with its call id. *)
resolve_side_effecting_call(p, r) ==
  [tool_call_id          |-> r.tool_call_id,
   tool_name             |-> r.tool_name,
   operation             |-> resolved_operation(p, r),
   requested_spend_cents |-> resolved_spend_cents(p, r)]

operation_allowed(p, r) == resolved_operation(p, r) \in AllowedTools

(* _authorization_cache_key *)
authorization_cache_key(k) == <<k.tool_call_id, k.operation>>

(* Mutant: the tool name is not forwarded to verify. *)
AuthKwargsWithoutTool(k) ==
  [tool_call_id |-> k.tool_call_id, operation |-> k.operation,
   requested_spend_cents |-> IF k.requested_spend_cents = None THEN 0 ELSE k.requested_spend_cents]

(* What verify is asked: a missing spend is sent as 0. *)
auth_kwargs(k) ==
  [k EXCEPT !.requested_spend_cents = IF @ = None THEN 0 ELSE @]

-----------------------------------------------------------------------------
(* The authorization cache. *)

expired(entry, t) == t - entry.cached_at > Ttl

evict_expired_authorization_cache(cache, t) ==
  [k \in CacheKeys |->
     IF cache[k] # None /\ expired(cache[k], t) THEN None ELSE cache[k]]

(* Mutant: any live entry of the key is used, whatever it was given for. *)
TakeAnyShape(cache, key, expected, t) ==
  IF cache[key] # None /\ ~expired(cache[key], t) THEN cache[key] ELSE None

(* The entry to use, or None.  The caller pops the key in either case. *)
take_valid_cached_authorization(cache, key, expected, t) ==
  IF cache[key] # None /\ ~expired(cache[key], t) /\ cache[key].call = expected
  THEN cache[key]
  ELSE None

-----------------------------------------------------------------------------
(* In-flight accounting, the trace sink, and the end of an activation. *)

begin_in_flight(n) == n + 1

end_in_flight(n) == IF n > 0 THEN n - 1 ELSE 0

SinkRaises == "sink" \in Faults
Lost == "lost" \in Faults

(* Mutant: the count is decremented by an except Exception, not a finally. *)
FinishUncancelled(c, end) ==
  /\ pc' = [pc EXCEPT ![c] = end]
  /\ call' = [call EXCEPT ![c] = None]
  /\ digest' = [digest EXCEPT ![c] = None]
  /\ grant' = [grant EXCEPT ![c] = None]
  /\ reply' = [reply EXCEPT ![c] = "none"]
  /\ in_flight_count' =
       IF end = "cancelled" THEN in_flight_count ELSE end_in_flight(in_flight_count)

(* An activation ends: its finally clause runs, its locals are gone. *)
Finish(c, end) ==
  /\ pc' = [pc EXCEPT ![c] = end]
  /\ call' = [call EXCEPT ![c] = None]
  /\ digest' = [digest EXCEPT ![c] = None]
  /\ grant' = [grant EXCEPT ![c] = None]
  /\ reply' = [reply EXCEPT ![c] = "none"]
  /\ in_flight_count' = end_in_flight(in_flight_count)

(* An activation that ends before its first await. *)
FinishAtOnce(c, end) ==
  /\ pc' = [pc EXCEPT ![c] = end]
  /\ in_flight_count' = end_in_flight(begin_in_flight(in_flight_count))
  /\ UNCHANGED <<call, digest, grant, reply, authorized_calls, policy, now, receipts, worldVars>>

(* It goes on to another await. *)
Goto(c, to) ==
  /\ pc' = [pc EXCEPT ![c] = to]
  /\ reply' = [reply EXCEPT ![c] = "none"]
  /\ UNCHANGED <<call, digest, grant, in_flight_count>>

-----------------------------------------------------------------------------
Init ==
  /\ pc = [c \in Calls |-> "idle"]
  /\ call = [c \in Calls |-> None]
  /\ digest = [c \in Calls |-> None]
  /\ grant = [c \in Calls |-> None]
  /\ reply = [c \in Calls |-> "none"]
  /\ authorized_calls = [k \in CacheKeys |-> None]
  /\ in_flight_count = 0
  /\ policy \in Policies
  /\ now = 0
  /\ issued = [g \in Grants |-> None]
  /\ sent = [g \in Grants |-> {}]
  /\ reported = [g \in Grants |-> {}]
  /\ handler = [g \in Grants |-> "none"]
  /\ receipts = {}

-----------------------------------------------------------------------------
(* authorize_tool_call, up to the await of Harbor's verify. *)

(* The registry or the bound intent settles the call without Harbor.       *)
AuthorizeLocally(c, r) ==
  LET kind == resolve_tool(Registry[policy], r.tool_name)
  IN  /\ pc[c] = "idle"
      /\ \/ kind = "passthrough" /\ FinishAtOnce(c, "returned")
         \/ kind = "denied" /\ FinishAtOnce(c, "returned")
         \/ kind = "side_effecting" /\ ~operation_allowed(policy, r) /\ FinishAtOnce(c, "returned")
         \/ kind = "side_effecting" /\ operation_allowed(policy, r) /\ SinkRaises
            /\ FinishAtOnce(c, "raised")

(* The digest is pinned in the same step as the registry is consulted.     *)
BeginVerify(c, r, to) ==
  /\ pc' = [pc EXCEPT ![c] = to]
  /\ call' = [call EXCEPT ![c] = resolve_side_effecting_call(policy, r)]
  /\ digest' = [digest EXCEPT ![c] = Digest[policy]]
  /\ in_flight_count' = begin_in_flight(in_flight_count)
  /\ UNCHANGED <<grant, reply, policy, now, receipts, worldVars>>

AuthorizeBegin(c, r) ==
  /\ pc[c] = "idle"
  /\ resolve_tool(Registry[policy], r.tool_name) = "side_effecting"
  /\ operation_allowed(policy, r)
  /\ BeginVerify(c, r, "authorizing")
  /\ UNCHANGED authorized_calls

-----------------------------------------------------------------------------
(* wrap_execute, up to its first await. *)

WrapRefuse(c, r) ==
  LET kind == resolve_tool(Registry[policy], r.tool_name)
  IN  /\ pc[c] = "idle"
      /\ \/ kind = "denied"
         \/ kind = "side_effecting" /\ ~operation_allowed(policy, r)
         \/ kind = "side_effecting" /\ operation_allowed(policy, r) /\ SinkRaises
      /\ FinishAtOnce(c, "raised")

WrapPassthrough(c, r) ==
  /\ pc[c] = "idle"
  /\ resolve_tool(Registry[policy], r.tool_name) = "passthrough"
  /\ pc' = [pc EXCEPT ![c] = "passthrough"]
  /\ in_flight_count' = begin_in_flight(in_flight_count)
  /\ UNCHANGED <<call, digest, grant, reply, authorized_calls, policy, now, receipts, worldVars>>

(* The cache entry is popped whether or not it can be used. *)
Cached(r) ==
  LET k == resolve_side_effecting_call(policy, r)
  IN  take_valid_cached_authorization(authorized_calls, authorization_cache_key(k), k, now)

(* Mutant: the entry is read, not popped. *)
PeekCache(r) == UNCHANGED authorized_calls

PopCache(r) ==
  authorized_calls' = [authorized_calls EXCEPT
    ![authorization_cache_key(resolve_side_effecting_call(policy, r))] = None]

(* No usable entry: verify inline. *)
WrapVerify(c, r) ==
  /\ pc[c] = "idle"
  /\ resolve_tool(Registry[policy], r.tool_name) = "side_effecting"
  /\ operation_allowed(policy, r)
  /\ Cached(r) = None
  /\ PopCache(r)
  /\ BeginVerify(c, r, "verifying")

(* Mutant: the digest in force at execution is stated. *)
PinnedAtExecution(e) == Digest[policy]

evidence_policy_digest(e) ==
  IF e.policy_digest # None THEN e.policy_digest ELSE Digest[policy]

(* A cached authorization: the handler starts without a round trip.        *)
WrapCached(c, r) ==
  LET e == Cached(r)
  IN  /\ pc[c] = "idle"
      /\ resolve_tool(Registry[policy], r.tool_name) = "side_effecting"
      /\ operation_allowed(policy, r)
      /\ e # None
      /\ PopCache(r)
      /\ pc' = [pc EXCEPT ![c] = "executing"]
      /\ call' = [call EXCEPT ![c] = resolve_side_effecting_call(policy, r)]
      /\ digest' = [digest EXCEPT ![c] = evidence_policy_digest(e)]
      /\ grant' = [grant EXCEPT ![c] = e.grant]
      /\ handler' = [handler EXCEPT ![e.grant] = "running"]
      /\ in_flight_count' = begin_in_flight(in_flight_count)
      /\ UNCHANGED <<reply, policy, now, receipts, issued, sent, reported>>

-----------------------------------------------------------------------------
(* Harbor's verify, and its answer reaching the activation. *)

HarborAllow(c, g, decision) ==
  /\ pc[c] \in {"authorizing", "verifying"}
  /\ reply[c] = "none"
  /\ issued[g] = None
  /\ issued' = [issued EXCEPT ![g] =
       [call |-> auth_kwargs(call[c]), policy_digest |-> digest[c], decision |-> decision]]
  /\ grant' = [grant EXCEPT ![c] = g]
  /\ reply' = [reply EXCEPT ![c] = "allow"]
  /\ UNCHANGED <<pc, call, digest, authorized_calls, in_flight_count, policy, now,
                 sent, reported, handler, receipts>>

(* The answer to one attempt of verify is lost and the loop tries again:   *)
(* without a caller's idempotency key Harbor has given a grant, with a     *)
(* reservation, that nobody will ever hold.                                *)
HarborAllowUnheard(c, g) ==
  /\ Lost
  /\ pc[c] \in {"authorizing", "verifying"}
  /\ issued[g] = None
  /\ issued' = [issued EXCEPT ![g] =
       [call |-> auth_kwargs(call[c]), policy_digest |-> digest[c], decision |-> TRUE]]
  /\ UNCHANGED <<callVars, authorized_calls, in_flight_count, policy, now,
                 sent, reported, handler, receipts>>

HarborRefuse(c, kind) ==
  /\ pc[c] \in {"authorizing", "verifying"}
  /\ reply[c] = "none"
  /\ reply' = [reply EXCEPT ![c] = kind]
  /\ UNCHANGED <<pc, call, digest, grant, authorized_calls, in_flight_count, policy, now,
                 worldVars, receipts>>

(* Evict, insert (over any older entry of the key), then trace and return. *)
AuthorizeAllowed(c) ==
  /\ pc[c] = "authorizing"
  /\ reply[c] = "allow"
  /\ authorized_calls' =
       [evict_expired_authorization_cache(authorized_calls, now) EXCEPT
         ![authorization_cache_key(call[c])] =
           [grant |-> grant[c], policy_digest |-> digest[c], call |-> call[c], cached_at |-> now]]
  /\ \/ Finish(c, "returned")
     \/ SinkRaises /\ Finish(c, "raised")
  /\ UNCHANGED <<policy, now, receipts, worldVars>>

AuthorizeRefused(c) ==
  /\ pc[c] = "authorizing"
  /\ reply[c] \in {"deny", "approval_required"}
  /\ \/ Finish(c, "returned")
     \/ SinkRaises /\ Finish(c, "raised")
  /\ UNCHANGED <<authorized_calls, policy, now, receipts, worldVars>>

(* The spend_authorized event is emitted before the try block: a raising   *)
(* sink leaves the reservation unreported.                                 *)
WrapAllowed(c) ==
  /\ pc[c] = "verifying"
  /\ reply[c] = "allow"
  /\ \/ Goto(c, "executing") /\ handler' = [handler EXCEPT ![grant[c]] = "running"]
     \/ SinkRaises /\ Finish(c, "raised") /\ UNCHANGED handler
  /\ UNCHANGED <<authorized_calls, policy, now, issued, sent, reported, receipts>>

WrapRefused(c) ==
  /\ pc[c] = "verifying"
  /\ reply[c] \in {"deny", "approval_required"}
  /\ Finish(c, "raised")
  /\ UNCHANGED <<authorized_calls, policy, now, receipts, worldVars>>

(* Timeout or transport error after the gateway retries: a bare exception. *)
VerifyLost(c) ==
  /\ Lost
  /\ pc[c] \in {"authorizing", "verifying"}
  /\ Finish(c, "raised")
  /\ UNCHANGED <<authorized_calls, policy, now, receipts, worldVars>>

-----------------------------------------------------------------------------
(* The handler, and the completion of the spend decision. *)

PassthroughEnds(c) ==
  /\ pc[c] = "passthrough"
  /\ \E end \in {"returned", "raised"} : Finish(c, end)
  /\ UNCHANGED <<authorized_calls, policy, now, receipts, worldVars>>

HasDecision(c) == issued[grant[c]].decision

(* complete_spend_authorization is posted, and its answer awaited. *)
PostComplete(c, outcome) ==
  /\ Goto(c, IF outcome = "consumed" THEN "consuming" ELSE "releasing")
  /\ sent' = [sent EXCEPT ![grant[c]] = @ \union {outcome}]

HandlerReturns(c) ==
  /\ pc[c] = "executing"
  /\ handler' = [handler EXCEPT ![grant[c]] = "returned"]
  /\ \/ HasDecision(c) /\ PostComplete(c, "consumed")
     \/ ~HasDecision(c) /\ Goto(c, "evidence") /\ UNCHANGED sent
     \/ SinkRaises /\ HasDecision(c) /\ PostComplete(c, "released")
     \/ SinkRaises /\ ~HasDecision(c) /\ Finish(c, "raised") /\ UNCHANGED sent
  /\ UNCHANGED <<authorized_calls, policy, now, issued, reported, receipts>>

(* Mutant: a raising handler's reservation is reported consumed. *)
HandlerRaisesConsumed(c) ==
  /\ pc[c] = "executing"
  /\ handler' = [handler EXCEPT ![grant[c]] = "raised"]
  /\ \/ HasDecision(c) /\ PostComplete(c, "consumed")
     \/ ~HasDecision(c) /\ Finish(c, "raised") /\ UNCHANGED sent
  /\ UNCHANGED <<authorized_calls, policy, now, issued, reported, receipts>>

(* Mutant: the except clause does not release. *)
HandlerRaisesUnreleased(c) ==
  /\ pc[c] = "executing"
  /\ handler' = [handler EXCEPT ![grant[c]] = "raised"]
  /\ Finish(c, "raised")
  /\ UNCHANGED <<authorized_calls, policy, now, issued, sent, reported, receipts>>

HandlerRaises(c) ==
  /\ pc[c] = "executing"
  /\ handler' = [handler EXCEPT ![grant[c]] = "raised"]
  /\ \/ HasDecision(c) /\ PostComplete(c, "released")
     \/ ~HasDecision(c) /\ Finish(c, "raised") /\ UNCHANGED sent
  /\ UNCHANGED <<authorized_calls, policy, now, issued, reported, receipts>>

HarborComplete(c) ==
  /\ pc[c] \in {"consuming", "releasing"}
  /\ reply[c] = "none"
  /\ \/ /\ reported' = [reported EXCEPT ![grant[c]] =
               @ \union {IF pc[c] = "consuming" THEN "consumed" ELSE "released"}]
        /\ reply' = [reply EXCEPT ![c] = "ok"]
     \/ /\ "rejected" \in Faults
        /\ reply' = [reply EXCEPT ![c] = "error"]
        /\ UNCHANGED reported
  /\ UNCHANGED <<pc, call, digest, grant, authorized_calls, in_flight_count, policy, now,
                 issued, sent, handler, receipts>>

(* A completion is posted through the retry loop, without a key: a copy    *)
(* whose attempt timed out, was answered by an edge in front of Harbor, or *)
(* was cancelled may reach Harbor at any later time, also after the other  *)
(* outcome of the same decision.                                           *)
LateCopies == Faults \intersect {"lost", "rejected", "cancel"} # {}

LateComplete(g, outcome) ==
  /\ LateCopies
  /\ outcome \in sent[g]
  /\ reported' = [reported EXCEPT ![g] = @ \union {outcome}]
  /\ UNCHANGED <<callVars, authorized_calls, in_flight_count, policy, now,
                 issued, sent, handler, receipts>>

(* A sink that raises on spend_finalized sends the activation to the       *)
(* except clause after Harbor has already consumed the reservation.        *)
ConsumeConfirmed(c) ==
  /\ pc[c] = "consuming"
  /\ reply[c] = "ok"
  /\ \/ Goto(c, "evidence") /\ UNCHANGED sent
     \/ SinkRaises /\ PostComplete(c, "released")
  /\ UNCHANGED <<authorized_calls, policy, now, issued, reported, handler, receipts>>

(* Mutant: a failing completion is swallowed, as that of a release is. *)
ConsumeFailsSwallowed(c) ==
  /\ pc[c] = "consuming"
  /\ reply[c] = "error" \/ Lost
  /\ Goto(c, "evidence")
  /\ UNCHANGED <<authorized_calls, policy, now, worldVars, receipts>>

ConsumeFails(c) ==
  /\ pc[c] = "consuming"
  /\ reply[c] = "error" \/ Lost
  /\ PostComplete(c, "released")
  /\ UNCHANGED <<authorized_calls, policy, now, issued, reported, handler, receipts>>

(* Mutant: the release is repeated until it is known to have failed. *)
ReleaseRepeats(c) ==
  /\ pc[c] = "releasing"
  /\ reply[c] \in {"ok", "error"} \/ Lost
  /\ IF reply[c] = "ok" THEN Goto(c, "releasing") ELSE Finish(c, "raised")
  /\ UNCHANGED <<authorized_calls, policy, now, worldVars, receipts>>

(* Whatever happens to the release, the original exception is raised.      *)
ReleaseEnds(c) ==
  /\ pc[c] = "releasing"
  /\ reply[c] \in {"ok", "error"} \/ Lost
  /\ Finish(c, "raised")
  /\ UNCHANGED <<authorized_calls, policy, now, worldVars, receipts>>

-----------------------------------------------------------------------------
(* Auto-evidence and the receipt draft. *)

HarborEvidence(c) ==
  /\ pc[c] = "evidence"
  /\ reply[c] = "none"
  /\ \E answer \in {"ok"} \union (IF "rejected" \in Faults THEN {"error"} ELSE {}) :
       reply' = [reply EXCEPT ![c] = answer]
  /\ UNCHANGED <<pc, call, digest, grant, authorized_calls, in_flight_count, policy, now,
                 worldVars, receipts>>

(* The draft needs a decision and a digest, and always says "consumed".    *)
(* It is best-effort: without a complete agent context there is none.      *)
build_receipt_draft(c) ==
  IF HasDecision(c) /\ digest[c] # None
  THEN {[grant |-> grant[c], policy_digest |-> digest[c], outcome |-> "consumed"]}
  ELSE {}

EvidenceConfirmed(c) ==
  /\ pc[c] = "evidence"
  /\ reply[c] = "ok"
  /\ \/ Finish(c, "returned") /\ receipts' \in {receipts, receipts \union build_receipt_draft(c)}
     \/ SinkRaises /\ Finish(c, "raised") /\ UNCHANGED receipts
  /\ UNCHANGED <<authorized_calls, policy, now, worldVars>>

(* PaybondEvidenceSubmitError: the tool has run and its spend stays        *)
(* consumed.                                                               *)
EvidenceFails(c) ==
  /\ pc[c] = "evidence"
  /\ \/ reply[c] = "error"
     \/ Lost
     \/ reply[c] = "none" /\ "mapper" \in Faults
  /\ Finish(c, "raised")
  /\ UNCHANGED <<authorized_calls, policy, now, worldVars, receipts>>

-----------------------------------------------------------------------------
(* CancelledError is no Exception: no except clause runs, only finally.    *)
Cancel(c) ==
  /\ "cancel" \in Faults
  /\ Active(c)
  /\ handler' = IF pc[c] = "executing"
                THEN [handler EXCEPT ![grant[c]] = "cancelled"]
                ELSE handler
  /\ Finish(c, "cancelled")
  /\ UNCHANGED <<authorized_calls, policy, now, issued, sent, reported, receipts>>

Tick ==
  /\ now < MaxTime
  /\ now' = now + 1
  /\ UNCHANGED <<callVars, authorized_calls, in_flight_count, policy, worldVars, receipts>>

(* A reload swaps registry and snapshot together, at any await.            *)
apply_policy_snapshot(p) ==
  /\ Digest[p] # None
  /\ Digest[p] # Digest[policy]
  /\ policy' = p
  /\ UNCHANGED <<callVars, authorized_calls, in_flight_count, now, worldVars, receipts>>

(* The agent run is over: every activation has ended. *)
Terminated ==
  /\ \A c \in Calls : pc[c] \in Final
  /\ UNCHANGED vars

-----------------------------------------------------------------------------
HarborStep(c) ==
  \/ \E g \in Grants, decision \in BOOLEAN : HarborAllow(c, g, decision)
  \/ \E kind \in {"deny", "approval_required"} : HarborRefuse(c, kind)
  \/ HarborComplete(c)
  \/ HarborEvidence(c)

(* Steps the SDK takes by itself once an answer is there (or lost).        *)
SdkStep(c) ==
  \/ AuthorizeAllowed(c) \/ AuthorizeRefused(c)
  \/ WrapAllowed(c) \/ WrapRefused(c) \/ VerifyLost(c)
  \/ ConsumeConfirmed(c) \/ ConsumeFails(c) \/ ReleaseEnds(c)
  \/ EvidenceConfirmed(c) \/ EvidenceFails(c)

CallerStep(c) ==
  \/ \E r \in Requests :
       \/ AuthorizeLocally(c, r) \/ AuthorizeBegin(c, r)
       \/ WrapRefuse(c, r) \/ WrapPassthrough(c, r) \/ WrapVerify(c, r) \/ WrapCached(c, r)
  \/ PassthroughEnds(c) \/ HandlerReturns(c) \/ HandlerRaises(c)
  \/ Cancel(c)

(* What the copies left in the network do. *)
NetworkStep ==
  \/ \E c \in Calls, g \in Grants : HarborAllowUnheard(c, g)
  \/ \E g \in Grants, outcome \in Outcomes : LateComplete(g, outcome)

Next ==
  \/ \E c \in Calls : CallerStep(c) \/ HarborStep(c) \/ SdkStep(c)
  \/ NetworkStep
  \/ Tick
  \/ \E p \in Policies : apply_policy_snapshot(p)
  \/ Terminated

Spec == Init /\ [][Next]_vars

(* Harbor answers, or the HTTP timeout ends the wait, and the event loop   *)
(* resumes an activation whose answer is there.  Nothing is assumed of the *)
(* framework, of tool handlers, or of the clock.                           *)
Fairness == \A c \in Calls : WF_vars(HarborStep(c)) /\ WF_vars(SdkStep(c))

FairSpec == Spec /\ Fairness
-----------------------------------------------------------------------------
(* Properties. *)

(* Every variable keeps its type: the interceptor's fields, the locals of  *)
(* its activations and Harbor's records.                                   *)
TypeOK ==
  /\ pc \in [Calls -> {"idle"} \union Awaiting \union Final]
  /\ call \in [Calls -> CallShape \union {None}]
  /\ digest \in [Calls -> Digests]
  /\ grant \in [Calls -> Grants \union {None}]
  /\ reply \in [Calls -> Replies]
  /\ authorized_calls \in [CacheKeys -> CacheEntry \union {None}]
  /\ in_flight_count \in Nat
  /\ policy \in Policies
  /\ now \in 0..MaxTime
  /\ issued \in [Grants -> GrantRecord \union {None}]
  /\ sent \in [Grants -> SUBSET Outcomes]
  /\ reported \in [Grants -> SUBSET Outcomes]
  /\ handler \in [Grants -> HandlerStates]
  /\ receipts \subseteq [grant : Grants, policy_digest : Digests, outcome : {"consumed"}]

(* in_flight_count is the number of activations suspended at an await,     *)
(* along every return, raise and cancellation path: a policy reload waits  *)
(* for it to reach 0.                                                      *)
InFlightExact == in_flight_count = Cardinality({c \in Calls : Active(c)})

(* A grant is in one place only: with one activation, or in one cache      *)
(* entry.  wrap_execute pops the entry it uses, and authorize_tool_call    *)
(* hands its grant over to the cache.                                      *)
SingleHolder ==
  /\ \A c, d \in Calls : grant[c] # None /\ grant[c] = grant[d] => c = d
  /\ \A k, l \in CacheKeys :
       /\ authorized_calls[k] # None
       /\ authorized_calls[l] # None
       /\ authorized_calls[k].grant = authorized_calls[l].grant
       => k = l
  /\ \A c \in Calls, k \in CacheKeys :
       authorized_calls[k] # None => authorized_calls[k].grant # grant[c]

(* A side-effecting handler runs only under a grant that Harbor gave for   *)
(* this very tool, tool call, operation and spend, and whose reservation   *)
(* has not been reported yet, also when the grant comes from the cache     *)
(* and the policy was reloaded in between.                                 *)
ExecutionAuthorized ==
  \A c \in Calls : pc[c] = "executing" =>
    /\ grant[c] # None
    /\ issued[grant[c]] # None
    /\ issued[grant[c]].call = auth_kwargs(call[c])
    /\ handler[grant[c]] = "running"
    /\ reported[grant[c]] = {}

(* A receipt draft says "consumed": Harbor was told so, the handler did    *)
(* return, and no "released" reaches Harbor for the same reservation, not  *)
(* even as a late copy.                                                    *)
ReceiptTruthful ==
  \A x \in receipts :
    /\ handler[x.grant] = "returned"
    /\ reported[x.grant] = {x.outcome}

(* The policy digest an activation states with its result is the digest of *)
(* the policy that was in force when Harbor authorized the call.           *)
DigestPinned ==
  /\ \A c \in Calls : pc[c] \in {"executing", "consuming", "releasing", "evidence"} =>
       digest[c] = issued[grant[c]].policy_digest
  /\ \A x \in receipts : x.policy_digest = issued[x.grant].policy_digest

(* Every grant follows the life SpendLifecycle promises, whatever copies   *)
(* of completions reach Harbor late and in whatever order.                 *)
Phase(g) ==
  CASE issued[g] = None -> "free"
    [] issued[g] # None /\ handler[g] = "none" -> "granted"
    [] OTHER -> handler[g]

Lifecycle == INSTANCE SpendLifecycle WITH
  phase <- [g \in Grants |-> Phase(g)],
  certified <- {x.grant : x \in receipts}

LifecycleSpec == Lifecycle!Spec

Ended == {"returned", "raised", "cancelled"}

(* A reservation whose handler has ended is eventually reported to Harbor  *)
(* (complete_spend_authorization after execution "completes or is          *)
(* aborted").                                                              *)
EndedExecutionFinalized ==
  \A g \in Grants :
    (handler[g] \in Ended /\ issued[g].decision) ~> (reported[g] # {})

(* An activation whose handler has ended leaves the in-flight count: no    *)
(* completion or evidence exchange keeps it suspended for ever.            *)
EndedExecutionReturns ==
  \A c \in Calls : (pc[c] \in {"consuming", "releasing", "evidence"}) ~> (pc[c] \in Final)

(* Once no activation holds a reservation whose handler ended, Harbor has  *)
(* been told exactly what happened: consumed for a handler that returned,  *)
(* released for one that raised.                                           *)
FinalizedAsItHappened ==
  \A g \in Grants :
    /\ issued[g] # None
    /\ issued[g].decision
    /\ \A c \in Calls : grant[c] # g
    => /\ handler[g] = "returned" => reported[g] = {"consumed"}
       /\ handler[g] = "raised" => reported[g] = {"released"}

(* "released" is reported only for an execution that was aborted.          *)
ReleasedMeansAborted ==
  \A g \in Grants : "released" \in reported[g] => handler[g] # "returned"
-----------------------------------------------------------------------------
(* The inductive invariant behind the safety properties: what each await   *)
(* knows about the grant it holds, what the cache knows about its entries, *)
(* and what Harbor and the world know about each grant.                    *)

(* The activation holds a grant given for its call. *)
Bound(c) ==
  /\ call[c] \in CallShape
  /\ grant[c] \in Grants
  /\ issued[grant[c]] # None
  /\ issued[grant[c]].call = auth_kwargs(call[c])

CallInv(c) ==
  /\ pc[c] \in {"idle", "passthrough"} \union Final => grant[c] = None /\ reply[c] = "none"
  /\ pc[c] \in {"authorizing", "verifying"} =>
       /\ call[c] \in CallShape
       /\ reply[c] \in {"none", "deny", "approval_required"} => grant[c] = None
       /\ reply[c] \in {"none", "deny", "approval_required", "allow"}
       /\ reply[c] = "allow" => Bound(c) /\ handler[grant[c]] = "none"
  /\ pc[c] = "executing" =>
       Bound(c) /\ reply[c] = "none" /\ handler[grant[c]] = "running"
  /\ pc[c] = "consuming" =>
       /\ Bound(c)
       /\ issued[grant[c]].decision
       /\ handler[grant[c]] = "returned"
       /\ sent[grant[c]] = {"consumed"}
       /\ reply[c] = "ok" => reported[grant[c]] = {"consumed"}
  /\ pc[c] = "releasing" =>
       /\ Bound(c)
       /\ handler[grant[c]] \in {"returned", "raised"}
       /\ "released" \in sent[grant[c]]
  /\ pc[c] = "evidence" =>
       /\ Bound(c)
       /\ handler[grant[c]] = "returned"
       /\ sent[grant[c]] = IF issued[grant[c]].decision THEN {"consumed"} ELSE {}
       /\ reported[grant[c]] = sent[grant[c]]

CacheInv(k) ==
  authorized_calls[k] # None =>
    LET e == authorized_calls[k]
    IN  /\ issued[e.grant] # None
        /\ issued[e.grant].call = auth_kwargs(e.call)
        /\ handler[e.grant] = "none"

GrantInv(g) ==
  /\ issued[g] = None => handler[g] = "none"
  /\ reported[g] \subseteq sent[g]
  /\ handler[g] \in {"none", "running", "cancelled"} => sent[g] = {}
  /\ handler[g] = "raised" => "consumed" \notin sent[g]

ReceiptInv(x) ==
  /\ handler[x.grant] = "returned"
  /\ sent[x.grant] = {x.outcome}
  /\ reported[x.grant] = {x.outcome}
  /\ \A c \in Calls : grant[c] # x.grant

IInv ==
  /\ TypeOK
  /\ InFlightExact
  /\ SingleHolder
  /\ \A c \in Calls : CallInv(c)
  /\ \A k \in CacheKeys : CacheInv(k)
  /\ \A g \in Grants : GrantInv(g)
  /\ \A x \in receipts : ReceiptInv(x)

(* With a digest on every policy, the digest travels with the grant. *)
DigestInv ==
  /\ \A c \in Calls : grant[c] # None => digest[c] = issued[grant[c]].policy_digest
  /\ \A k \in CacheKeys : authorized_calls[k] # None =>
       authorized_calls[k].policy_digest = issued[authorized_calls[k].grant].policy_digest
  /\ \A c \in Calls : pc[c] \in {"authorizing", "verifying"} => digest[c] # None
  /\ \A k \in CacheKeys : authorized_calls[k] # None => authorized_calls[k].policy_digest # None
  /\ \A x \in receipts : x.policy_digest = issued[x.grant].policy_digest

(* Where no exchange with Harbor fails, nothing is cancelled and no sink   *)
(* raises, only a handler that raised is released, and every ended         *)
(* execution that nobody holds any more has been told of.                  *)
ReleaseInv(c) ==
  /\ pc[c] \in {"consuming", "releasing"} => reply[c] \in {"none", "ok"}
  /\ pc[c] = "releasing" =>
       /\ handler[grant[c]] = "raised"
       /\ reported[grant[c]] = IF reply[c] = "ok" THEN {"released"} ELSE {}

FinalInv == (\A c \in Calls : ReleaseInv(c)) /\ FinalizedAsItHappened
=============================================================================
