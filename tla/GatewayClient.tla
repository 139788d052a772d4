---------------------------- MODULE GatewayClient ----------------------------
(***************************************************************************)
(* Requests of the SDK's clients over an unreliable connection: the retry  *)
(* loops (gateway_retry.py and the private one of audit/exports.py), the   *)
(* idempotency key, and the checks a method makes on the answer.           *)
(*                                                                         *)
(* A session sends one request at a time.  All attempts of one call carry  *)
(* the same request, built before the loop.  A timed-out copy may still    *)
(* reach the service later, next to the copy of the following attempt.     *)
(*                                                                         *)
(* The service is external.  It keeps what harbor.py documents: a key of   *)
(* one operation with the same body replays the original response, with    *)
(* another body it is a conflict.  It may fail before or after it has done *)
(* the work, and an intermediary may answer with the response of another   *)
(* tenant's or another subject's request.                                  *)
(***************************************************************************)
EXTENDS GatewayEndpoints, FiniteSets

CONSTANTS
  Sessions,     \* tasks that use the clients
  Keys,         \* idempotency keys
  Bodies,       \* request bodies
  MaxRetries,   \* max_retries of the client
  MaxLate,      \* bound on the copies of a session in flight
  None

ASSUME MaxRetriesAssumption == MaxRetries \in Nat \ {0}
ASSUME MaxLateAssumption == MaxLate \in Nat \ {0}
ASSUME SessionsAssumption == IsFiniteSet(Sessions)

VARIABLES
  pc,           \* idle, waiting, or how the call ended
  request,      \* the request every attempt of the call sends
  attempt,      \* attempt of httpx_with_gateway_retries, from 0
  cloudflare_retries,
  flight,       \* copies that have not reached the service
  current,      \* the copy whose answer the session waits for
  answer,       \* the answer on its way, or the one the call ended with
  performed,    \* how often the service did the work of the session's calls
  effects,      \* how often it did work under a key of an operation
  remembered    \* the response kept with a key of an operation

clientVars == <<pc, request, attempt, cloudflare_retries, current>>
serviceVars == <<performed, effects, remembered>>
gatewayVars == <<clientVars, flight, answer, serviceVars>>

(* fund: None, or for POST .../fund whether it carries the payer's         *)
(* credential; what the service then does is IntentFunding's.              *)
Credentials == {"bare", "signed"}
Request ==
  [ep : Endpoints, key : Keys \union {None}, body : Bodies,
   fund : {None} \union Credentials]
KeyScopes == Endpoints \X Keys
Scope(r) == <<r.ep, r.key>>
Copies == [n : 1..(MaxLate + 1), request : Request]
Details == {"funded", "token", "terminal", "unusable"}
Answer ==
  [status : Statuses, foreign : SUBSET Echoed,
   detail : {None} \union Details]
Ended == {"returned", "absent", "raised"}

(* What the service keeps with a key: the body of the request, its         *)
(* response, whose request it was and whether it funded an intent.         *)
Kept == [body : Bodies, answer : Answer, by : Sessions, funding : BOOLEAN]
ASSUME NoneAssumption == 
  None \notin Keys \union Bodies \union Kept \union Credentials \union Details

Init ==
  /\ pc = [s \in Sessions |-> "idle"]
  /\ request = [s \in Sessions |-> None]
  /\ attempt = [s \in Sessions |-> 0]
  /\ cloudflare_retries = [s \in Sessions |-> 0]
  /\ flight = [s \in Sessions |-> {}]
  /\ current = [s \in Sessions |-> 1]
  /\ answer = [s \in Sessions |-> None]
  /\ performed = [s \in Sessions |-> 0]
  /\ effects = [k \in KeyScopes |-> 0]
  /\ remembered = [k \in KeyScopes |-> None]

(***************************************************************************)
(* The client.                                                             *)
(***************************************************************************)

(* Puts one more copy of the request on the wire.                          *)
Send(s, r, inFlight) ==
  LET n == CHOOSE i \in 1..(MaxLate + 1) : \A m \in inFlight : m.n # i IN
  /\ flight' = [flight EXCEPT ![s] = inFlight \union {[n |-> n, request |-> r]}]
  /\ current' = [current EXCEPT ![s] = n]
  /\ answer' = [answer EXCEPT ![s] = None]
  /\ pc' = [pc EXCEPT ![s] = "waiting"]

StartCall(s, r) ==
  /\ request' = [request EXCEPT ![s] = r]
  /\ attempt' = [attempt EXCEPT ![s] = 0]
  /\ cloudflare_retries' = [cloudflare_retries EXCEPT ![s] = 0]
  /\ Send(s, r, flight[s])

(* A method that takes no idempotency_key sends none; one that does sends  *)
(* the caller's, if there is one.                                          *)
Call(s) ==
  /\ pc[s] = "idle"
  /\ \E ep \in Endpoints, k \in Keys \union {None}, b \in Bodies :
       /\ k # None => ep.key
       /\ StartCall(s, [ep |-> ep, key |-> k, body |-> b, fund |-> None])
  /\ UNCHANGED serviceVars

(* Mutant: the key is a header of the first attempt only.                  *)
TryAgainUnkeyed(s, inFlight) ==
  /\ attempt' = [attempt EXCEPT ![s] = @ + 1]
  /\ Send(s, [request[s] EXCEPT !.key = None], inFlight)
  /\ UNCHANGED request

(* The next turn of the loop: the same request again.                      *)
TryAgain(s, inFlight) ==
  /\ attempt' = [attempt EXCEPT ![s] = @ + 1]
  /\ Send(s, request[s], inFlight)
  /\ UNCHANGED request

(* Mutants: one attempt too many; every method in the retry loop.          *)
LastAttemptOffByOne(s) == attempt[s] >= MaxRetries \/ request[s].ep.send = "once"
LastAttemptForAll(s) == attempt[s] + 1 >= MaxRetries

LastAttempt(s) == attempt[s] + 1 >= MaxRetries \/ request[s].ep.send = "once"

(* A timeout or a broken connection: the copy is lost, or comes late, or   *)
(* it is the answer that is lost.                                          *)
TransportError(s) ==
  /\ pc[s] = "waiting"
  /\ \E left \in {flight[s], {m \in flight[s] : m.n # current[s]}} :
       /\ Cardinality(left) <= MaxLate
       /\ \/ /\ LastAttempt(s)
             /\ pc' = [pc EXCEPT ![s] = "raised"]
             /\ flight' = [flight EXCEPT ![s] = left]
             /\ answer' = [answer EXCEPT ![s] = None]
             /\ UNCHANGED <<request, attempt, current>>
          \/ /\ ~LastAttempt(s)
             /\ TryAgain(s, left)
  /\ UNCHANGED <<cloudflare_retries, serviceVars>>

(* is_cloudflare_edge_error_body is asked by the shared loop only, and one *)
(* edge error is tried again.                                              *)
edge_error(s) == answer[s].status = "edge" /\ request[s].ep.send = "retried"
retries_response(s) ==
  /\ answer[s].status \in Retryable
  /\ ~LastAttempt(s)
  /\ edge_error(s) => cloudflare_retries[s] = 0

RetryResponse(s) ==
  /\ pc[s] = "waiting" /\ answer[s] # None
  /\ retries_response(s)
  /\ TryAgain(s, flight[s])
  /\ cloudflare_retries' = [cloudflare_retries EXCEPT ![s] = IF edge_error(s) THEN @ + 1 ELSE @]
  /\ UNCHANGED serviceVars

(* Mutant: tenant and subject of the answer are not compared.              *)
OutcomeUnchecked(ep, a) ==
  IF a.status = "missing" /\ ep.absent THEN "absent"
  ELSE IF a.status \in ep.accepts THEN "returned"
  ELSE "raised"

(* What a method makes of the response the loop returned.                  *)
outcome(ep, a) ==
  IF a.status = "missing" /\ ep.absent THEN "absent"
  ELSE IF a.status \in ep.accepts /\ a.foreign \intersect ep.checks = {} THEN "returned"
  ELSE "raised"

FinishCall(s) ==
  /\ pc[s] = "waiting" /\ answer[s] # None
  /\ ~retries_response(s)
  /\ pc' = [pc EXCEPT ![s] = outcome(request[s].ep, answer[s])]
  /\ UNCHANGED <<request, attempt, cloudflare_retries, current, flight, answer, serviceVars>>

(***************************************************************************)
(* The service.                                                            *)
(***************************************************************************)

Reply(status) == [status |-> status, foreign |-> {}, detail |-> None]

(* An answer reaches the session only while it waits for that copy.        *)
Respond(s, m, a) ==
  /\ flight' = [flight EXCEPT ![s] = @ \ {m}]
  /\ answer' = [answer EXCEPT ![s] = IF pc[s] = "waiting" /\ m.n = current[s] THEN a ELSE @]

(* Turned away before any work, or answered with someone else's response.  *)
TurnAway(s) == \E m \in flight[s] :
  /\ \/ \E status \in Retryable : Respond(s, m, Reply(status))
     \/ \E part \in Echoed :
          Respond(s, m, [status |-> "ok", foreign |-> {part}, detail |-> "funded"])
  /\ UNCHANGED <<clientVars, serviceVars>>

Known(r) == r.key # None /\ remembered[Scope(r)] # None

(* The parts of a kept response that are not what r asked about.  A        *)
(* session funds an intent of its own, so that the response to another     *)
(* session's fund request names another intent; other requests of two      *)
(* sessions may be about one subject or about two.                         *)
Misdirected(s, r, kept) ==
  IF kept.by = s THEN {{}}
  ELSE IF kept.funding \/ r.fund # None THEN {{"subject"}}
  ELSE {{}, {"subject"}}

ReplayKey(s) == \E m \in flight[s] :
  /\ Known(m.request)
  /\ LET kept == remembered[Scope(m.request)] IN
     IF kept.body = m.request.body
     THEN \E parts \in Misdirected(s, m.request, kept) :
            Respond(s, m, [kept.answer EXCEPT !.foreign = parts])
     ELSE Respond(s, m, Reply("conflict"))
  /\ UNCHANGED <<clientVars, serviceVars>>

Keep(s, r, a) ==
  remembered' = [remembered EXCEPT ![Scope(r)] =
                   [body |-> r.body, answer |-> a, by |-> s, funding |-> r.fund # None]]

(* Does the work of the request and keeps the response a with its key.     *)
Work(s, r, a) ==
  /\ performed' = [performed EXCEPT ![s] = @ + 1]
  /\ effects' = IF r.key = None THEN effects ELSE [effects EXCEPT ![Scope(r)] = @ + 1]
  /\ IF r.key = None THEN UNCHANGED remembered ELSE Keep(s, r, a)

(* The service may fail after the work is done: "busy" reaches the client. *)
Perform(s) == \E m \in flight[s] :
  /\ m.request.fund = None
  /\ ~Known(m.request)
  /\ \/ /\ m.request.ep.effect
        /\ \E status \in Success :
             /\ Work(s, m.request, Reply(status))
             /\ \E a \in {Reply(status), Reply("busy")} : Respond(s, m, a)
     \/ /\ ~m.request.ep.effect
        /\ Respond(s, m, Reply("ok"))
        /\ UNCHANGED serviceVars
     \/ /\ \E status \in {"missing", "refused"}
                        \union (m.request.ep.accepts \intersect {"challenge"}) :
             Respond(s, m, Reply(status))
        /\ UNCHANGED serviceVars
  /\ UNCHANGED clientVars

ClientStep(s) == TransportError(s) \/ RetryResponse(s) \/ FinishCall(s)
ServiceStep(s) == TurnAway(s) \/ ReplayKey(s) \/ Perform(s)

(***************************************************************************)
(* Properties.                                                             *)
(***************************************************************************)

GatewayTypeOK ==
  /\ pc \in [Sessions -> {"idle", "waiting"} \union Ended]
  /\ request \in [Sessions -> Request \union {None}]
  /\ attempt \in [Sessions -> 0..(MaxRetries - 1)]
  /\ cloudflare_retries \in [Sessions -> 0..1]
  /\ flight \in [Sessions -> SUBSET Copies]
  /\ current \in [Sessions -> 1..(MaxLate + 1)]
  /\ answer \in [Sessions -> Answer \union {None}]
  /\ performed \in [Sessions -> Nat]
  /\ effects \in [KeyScopes -> Nat]
  /\ remembered \in [KeyScopes -> Kept \union {None}]

(* What a caller asks for under an idempotency key is done at most once:   *)
(* the attempts of the call, its late copies and the repeated call all     *)
(* carry the key (gateway_retry.py sends the request that was built before *)
(* the loop).                                                              *)
OneEffectPerKey == \A s \in Sessions :
  request[s] # None /\ request[s].key # None => performed[s] <= 1

(* A fraud review event or a release gate change, which go through         *)
(* _post_json_once and _put_json_once, is never done twice, whatever the   *)
(* connection does.                                                        *)
OnceNotRepeated == \A s \in Sessions :
  request[s] # None /\ request[s].ep.send = "once" => performed[s] <= 1

(* The two answers a method returns although the work is not done:         *)
(* fund_intent hands its caller the 402 with Harbor's challenge, and       *)
(* record_fraud_review_event (fraud.py:504) hands on the body of a 429 as  *)
(* if the event had been recorded.                                         *)
ReturnedUndone(s) ==
  \/ request[s].ep = fund_intent /\ answer[s].status = "challenge"
  \/ request[s].ep = record_fraud_review_event /\ answer[s].status = "limited"

(* When a method that checks tenant and subject of the answer returns, the *)
(* service has done the work the caller asked for, for this call or under  *)
(* its key: whatever status the method accepts, no other status of the     *)
(* retry loop, no lost or replayed answer and no answer to another request *)
(* is taken for it, except the two of ReturnedUndone.                      *)
ReturnedIsDone == \A s \in Sessions :
  LET r == request[s] IN
  (pc[s] = "returned" /\ r.fund = None /\ r.ep.effect /\ r.ep.checks = Echoed) =>
    \/ performed[s] > 0
    \/ r.key # None /\ effects[Scope(r)] > 0
    \/ ReturnedUndone(s)
=============================================================================
