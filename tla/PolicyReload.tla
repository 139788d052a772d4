---------------------------- MODULE PolicyReload ----------------------------
(***************************************************************************)
(* Policy hot-reload of an agent run: reload_policy_on_handle              *)
(* (policy/reload.py), the background controller with its file watcher     *)
(* and Gateway poll (policy/watcher.py), and reload_policy,                *)
(* start_policy_reload and stop_policy_reload of agent/run.py.             *)
(*                                                                         *)
(* A reload is an activation of reload_policy: that of the watch task,     *)
(* that of the poll task, and those of callers (Manual).  It is suspended  *)
(* while it waits for tool calls in flight, for the Gateway's effective    *)
(* policy, and for the Gateway's validation; loading a file suspends       *)
(* nothing.  A document is named by a member of Docs and has its name for  *)
(* digest.                                                                 *)
(***************************************************************************)
EXTENDS PolicyDocument

CONSTANTS
  Docs, Document,  \* document names, [Docs -> DocumentType]
  Broken,          \* a policy file that cannot be parsed
  Orgs, Effective, \* org policy revisions; [Orgs -> [Docs -> Docs \union {Broken}]]
  Tasks,           \* the controller's tasks, a subset of {"watch", "poll"}
  TaskOptions,     \* the options each task reloads with
  Manual,          \* reload_policy calls made by the application
  ManualOptions,   \* the options they may pass
  Overlap,         \* whether callers reload beside a started controller or each other
  MaxInFlight,     \* bound on tool calls in flight
  Faults           \* subset of {"listener", "gateway"}

Options == [remote : BOOLEAN, resolve : BOOLEAN, allow_loosen : BOOLEAN]
Reloads == Tasks \union Manual
Files == Docs \union {Broken}

ASSUME DocsAssumption == Document \in [Docs -> DocumentType] /\ None \notin Docs
ASSUME BrokenAssumption == Broken \notin Docs
ASSUME EffectiveAssumption == Effective \in [Orgs -> [Docs -> Files]]
ASSUME TasksAssumption ==
  Tasks \subseteq {"watch", "poll"} /\ TaskOptions \in [Tasks -> Options]
  /\ Tasks \intersect Manual = {}
ASSUME ManualAssumption == ManualOptions \subseteq Options /\ Overlap \in BOOLEAN
ASSUME InFlightAssumption == MaxInFlight \in Nat

VARIABLES
  current,            \* _current_snapshot, and the registry of the binding
  file,               \* the policy file on disk
  org,                \* the Gateway's org policy
  in_flight,          \* interceptor.in_flight_count
  at,                 \* where each reload is suspended
  opts,               \* its options
  asked,              \* what it asked the Gateway to resolve
  snapshot,           \* the snapshot it wants to apply
  previous,           \* previous_document
  dirty,              \* the watcher has a change to look at
  reload_in_flight,   \* _reload_in_flight
  last_reload_error,  \* state.last_reload_error
  running,            \* the controller is started
  unread              \* is the last edit still to be loaded, or did a reload give up on it

reloadVars == <<at, opts, asked, snapshot, previous>>
vars == <<current, file, org, in_flight, at, opts, asked, snapshot, previous, dirty,
          reload_in_flight, last_reload_error, running, unread>>

Errors ==
  {"in_flight_timeout", "load_failed", "resolve_failed", "local_validate_failed",
   "remote_validate_failed", "intent_rebind_required", "loosening_denied", "bind_rejected",
   "listener_raised"}

Init ==
  /\ current \in {d \in Docs :
       /\ ~requires_intent_rebind(Document[d])
       /\ loadable(Document[d])
       /\ validate_for_bind(policy_to_tool_registry(Document[d]))}
  /\ file = current
  /\ org \in Orgs
  /\ in_flight = 0
  /\ at = [x \in Reloads |-> "idle"]
  /\ opts = [x \in Reloads |-> None]
  /\ asked = [x \in Reloads |-> None]
  /\ snapshot = [x \in Reloads |-> None]
  /\ previous = [x \in Reloads |-> None]
  /\ dirty = FALSE
  /\ reload_in_flight = FALSE
  /\ last_reload_error = None
  /\ running = (Tasks # {})
  /\ unread = "no"

-----------------------------------------------------------------------------
(* The end of a reload.  The controller's finally clause and its record of *)
(* the result; a caller gets the result or the exception.                  *)

(* Mutant: the flag is reset only when the reload raised nothing. *)
EndKeepingFlag(x, result) ==
  /\ at' = [at EXCEPT ![x] = "idle"]
  /\ opts' = [opts EXCEPT ![x] = None]
  /\ asked' = [asked EXCEPT ![x] = None]
  /\ snapshot' = [snapshot EXCEPT ![x] = None]
  /\ previous' = [previous EXCEPT ![x] = None]
  /\ reload_in_flight' = (reload_in_flight /\ (x \in Manual \/ result \in Errors))
  /\ last_reload_error' = IF x \in Tasks /\ result \in Errors THEN result ELSE last_reload_error

End(x, result) ==
  /\ at' = [at EXCEPT ![x] = "idle"]
  /\ opts' = [opts EXCEPT ![x] = None]
  /\ asked' = [asked EXCEPT ![x] = None]
  /\ snapshot' = [snapshot EXCEPT ![x] = None]
  /\ previous' = [previous EXCEPT ![x] = None]
  /\ reload_in_flight' = (reload_in_flight /\ x \notin Tasks)
  /\ last_reload_error' =
       CASE x \in Tasks /\ result \in Errors -> result
         [] x \in Tasks /\ result = "applied" -> None
         [] OTHER -> last_reload_error

Suspend(x, where) ==
  /\ at' = [at EXCEPT ![x] = where]
  /\ UNCHANGED <<reload_in_flight, last_reload_error>>

-----------------------------------------------------------------------------
(* _validate_and_apply_policy_snapshot *)

verdict(o, prev, next) ==
  LET registry == policy_to_tool_registry(Document[next])
  IN  IF requires_intent_rebind(Document[next]) THEN "intent_rebind_required"
      ELSE IF /\ prev # None /\ ~o.allow_loosen
              /\ detect_policy_loosening(Document[prev], Document[next]) # {}
           THEN "loosening_denied"
      ELSE IF ~validate_for_bind(registry) THEN "bind_rejected"
      ELSE IF next = current THEN "unchanged"
      ELSE "applied"

(* The swap, and the policy_reloaded listeners: one that raises makes the  *)
(* reload look failed after the swap.                                      *)
Decide(x, prev, next) ==
  LET v == verdict(opts[x], prev, next)
  IN  /\ current' = IF v = "applied" THEN next ELSE current
      /\ \/ End(x, v)
         \/ "listener" \in Faults /\ v = "applied" /\ End(x, "listener_raised")

(* previous_document is read here, before the Gateway is asked. *)
ValidateAndApply(x, next) ==
  \/ /\ ~validate_document(Document[next])
     /\ End(x, "local_validate_failed")
     /\ UNCHANGED current
  \/ /\ validate_document(Document[next])
     /\ ~opts[x].remote
     /\ Decide(x, current, next)
  \/ /\ validate_document(Document[next])
     /\ opts[x].remote
     /\ Suspend(x, "validating")
     /\ snapshot' = [snapshot EXCEPT ![x] = next]
     /\ previous' = [previous EXCEPT ![x] = current]
     /\ UNCHANGED <<current, opts, asked>>

-----------------------------------------------------------------------------
(* reload_policy_on_handle.  Nothing suspends a reload that starts with no *)
(* call in flight; letting others step there only adds behaviours.         *)

Begin(x, o) ==
  /\ at[x] = "idle"
  /\ at' = [at EXCEPT ![x] = "waiting"]
  /\ opts' = [opts EXCEPT ![x] = o]
  /\ UNCHANGED <<asked, snapshot, previous>>

(* Without Overlap the application reloads only when nothing else does. *)
NothingElseReloads == ~running /\ \A y \in Reloads : at[y] = "idle"

ManualReload(x, o) ==
  /\ Overlap \/ NothingElseReloads
  /\ Begin(x, o)
  /\ UNCHANGED <<current, file, org, in_flight, dirty, reload_in_flight, last_reload_error,
                 running, unread>>

(* _wait_for_in_flight_count, and then the load with no suspension between. *)
Waited(x) == at[x] = "waiting" /\ in_flight = 0

WaitTimeout(x) ==
  /\ at[x] = "waiting"
  /\ in_flight > 0
  /\ End(x, "in_flight_timeout")
  /\ unread' = IF x \in Tasks /\ unread = "yes" THEN "lost" ELSE unread
  /\ UNCHANGED <<current, file, org, in_flight, dirty, running>>

LoadFile(x) ==
  /\ Waited(x)
  /\ ~opts[x].resolve
  /\ \/ /\ file \in Docs /\ loadable(Document[file])
        /\ file # current
        /\ ValidateAndApply(x, file)
     \/ /\ file \in Docs /\ loadable(Document[file])
        /\ file = current
        /\ End(x, "unchanged")
        /\ UNCHANGED current
     \/ /\ file \in Docs => ~loadable(Document[file])
        /\ End(x, "load_failed")
        /\ UNCHANGED current
  /\ unread' = "no"
  /\ UNCHANGED <<file, org, in_flight, dirty, running>>

(* Mutant: a file that cannot be loaded is sent all the same. *)
AskWithAnyFile(x) ==
  /\ Waited(x)
  /\ opts[x].resolve
  /\ Suspend(x, "resolving")
  /\ asked' = [asked EXCEPT ![x] = [overlay |-> file, digest |-> current]]
  /\ unread' = "no"
  /\ UNCHANGED <<opts, snapshot, previous, current, file, org, in_flight, dirty, running>>

(* load_policy_snapshot_from_effective_poll: the overlay and the current   *)
(* digest go to the Gateway.                                               *)
AskEffective(x) ==
  /\ Waited(x)
  /\ opts[x].resolve
  /\ \/ /\ file \in Docs
        /\ Suspend(x, "resolving")
        /\ asked' = [asked EXCEPT ![x] = [overlay |-> file, digest |-> current]]
        /\ UNCHANGED <<opts, snapshot, previous>>
     \/ /\ file = Broken
        /\ End(x, "load_failed")
  /\ unread' = "no"
  /\ UNCHANGED <<current, file, org, in_flight, dirty, running>>

(* The Gateway's answer, for the digest that was current when asked. *)
EffectiveAnswer(x) ==
  LET effective == Effective[org][asked[x].overlay]
  IN  /\ at[x] = "resolving"
      /\ \/ /\ effective = asked[x].digest
            /\ End(x, "unchanged")
            /\ UNCHANGED current
         \/ /\ effective \in Docs \ {asked[x].digest}
            /\ loadable(Document[effective])
            /\ ValidateAndApply(x, effective)
         \/ /\ effective \in Docs => "gateway" \in Faults
               \/ ~loadable(Document[effective])
            /\ End(x, "resolve_failed")
            /\ UNCHANGED current
      /\ UNCHANGED <<file, org, in_flight, dirty, running, unread>>

RemoteAnswer(x) ==
  /\ at[x] = "validating"
  /\ \/ Decide(x, previous[x], snapshot[x])
     \/ "gateway" \in Faults /\ End(x, "remote_validate_failed") /\ UNCHANGED current
  /\ UNCHANGED <<file, org, in_flight, dirty, running, unread>>

-----------------------------------------------------------------------------
(* The controller. *)

(* Mutant: the flag is not looked at. *)
TriggerAnyway(x) ==
  /\ Begin(x, TaskOptions[x])
  /\ reload_in_flight' = TRUE

(* _trigger_reload: dropped while another reload of the controller runs.   *)
trigger_reload(x) ==
  \/ /\ ~reload_in_flight
     /\ Begin(x, TaskOptions[x])
     /\ reload_in_flight' = TRUE
  \/ /\ reload_in_flight
     /\ UNCHANGED <<reloadVars, reload_in_flight>>

WatchTrigger ==
  /\ running
  /\ "watch" \in Tasks
  /\ at["watch"] = "idle"
  /\ dirty
  /\ dirty' = FALSE
  /\ trigger_reload("watch")
  /\ UNCHANGED <<current, file, org, in_flight, last_reload_error, running, unread>>

PollTrigger ==
  /\ running
  /\ "poll" \in Tasks
  /\ at["poll"] = "idle"
  /\ trigger_reload("poll")
  /\ UNCHANGED <<current, file, org, in_flight, dirty, last_reload_error, running, unread>>

(* Mutant: the stop event is set and the tasks are not cancelled. *)
StopWithoutCancel ==
  /\ running
  /\ running' = FALSE
  /\ UNCHANGED <<current, file, org, in_flight, reloadVars, dirty, reload_in_flight,
                 last_reload_error, unread>>

(* Both tasks are cancelled where they are suspended. *)
stop_policy_reload ==
  /\ running
  /\ running' = FALSE
  /\ at' = [x \in Reloads |-> IF x \in Tasks THEN "idle" ELSE at[x]]
  /\ opts' = [x \in Reloads |-> IF x \in Tasks THEN None ELSE opts[x]]
  /\ asked' = [x \in Reloads |-> IF x \in Tasks THEN None ELSE asked[x]]
  /\ snapshot' = [x \in Reloads |-> IF x \in Tasks THEN None ELSE snapshot[x]]
  /\ previous' = [x \in Reloads |-> IF x \in Tasks THEN None ELSE previous[x]]
  /\ reload_in_flight' = FALSE
  /\ UNCHANGED <<current, file, org, in_flight, dirty, last_reload_error, unread>>

(* A new controller takes the file as it finds it. *)
start_policy_reload ==
  /\ ~running
  /\ Overlap \/ \A x \in Manual : at[x] = "idle"
  /\ Tasks # {}
  /\ running' = TRUE
  /\ dirty' = FALSE
  /\ unread' = "no"
  /\ last_reload_error' = None
  /\ UNCHANGED <<current, file, org, in_flight, reloadVars, reload_in_flight>>

-----------------------------------------------------------------------------
(* The environment: tool calls, edits of the file, new org policies. *)

BeginCall ==
  /\ in_flight < MaxInFlight
  /\ in_flight' = in_flight + 1
  /\ UNCHANGED <<current, file, org, reloadVars, dirty, reload_in_flight, last_reload_error,
                 running, unread>>

EndCall ==
  /\ in_flight > 0
  /\ in_flight' = in_flight - 1
  /\ UNCHANGED <<current, file, org, reloadVars, dirty, reload_in_flight, last_reload_error,
                 running, unread>>

Edit(f) ==
  /\ f # file
  /\ file' = f
  /\ dirty' = TRUE
  /\ unread' = IF running THEN "yes" ELSE "no"
  /\ UNCHANGED <<current, org, in_flight, reloadVars, reload_in_flight, last_reload_error, running>>

OrgChange(o) ==
  /\ o # org
  /\ org' = o
  /\ UNCHANGED <<current, file, in_flight, reloadVars, dirty, reload_in_flight,
                 last_reload_error, running, unread>>

-----------------------------------------------------------------------------
ReloadStep(x) ==
  \/ LoadFile(x) \/ AskEffective(x) \/ WaitTimeout(x)
  \/ EffectiveAnswer(x) \/ RemoteAnswer(x)

Next ==
  \/ \E x \in Reloads : ReloadStep(x)
  \/ \E x \in Manual, o \in ManualOptions : ManualReload(x, o)
  \/ WatchTrigger \/ PollTrigger \/ stop_policy_reload \/ start_policy_reload
  \/ BeginCall \/ EndCall
  \/ \E f \in Files : Edit(f)
  \/ \E o \in Orgs : OrgChange(o)

Spec == Init /\ [][Next]_vars

(* A waiting reload proceeds or meets its deadline, a Gateway request is   *)
(* answered or times out, and the loops of the controller come round.      *)
(* Nothing is assumed of tool calls, edits, or callers.                    *)
Fairness ==
  /\ \A x \in Reloads : WF_vars(ReloadStep(x))
  /\ WF_vars(WatchTrigger)
  /\ WF_vars(PollTrigger)

FairSpec == Spec /\ Fairness
-----------------------------------------------------------------------------
(* Properties. *)

(* Every variable keeps its type: the binding's policy, the controller's   *)
(* state and the locals of every reload.                                   *)
TypeOK ==
  /\ current \in Docs
  /\ file \in Files
  /\ org \in Orgs
  /\ in_flight \in 0..MaxInFlight
  /\ at \in [Reloads -> {"idle", "waiting", "resolving", "validating"}]
  /\ opts \in [Reloads -> Options \union {None}]
  /\ asked \in [Reloads -> [overlay : Docs, digest : Docs] \union {None}]
  /\ snapshot \in [Reloads -> Docs \union {None}]
  /\ previous \in [Reloads -> Docs \union {None}]
  /\ dirty \in BOOLEAN
  /\ reload_in_flight \in BOOLEAN
  /\ last_reload_error \in Errors \union {None}
  /\ running \in BOOLEAN
  /\ unread \in {"no", "yes", "lost"}

Looser == detect_policy_loosening(Document[current], Document[current']) # {}

Swapper(x) == at[x] # "idle" /\ at'[x] = "idle"

(* Only a reload with allow_loosen replaces the policy in force by a       *)
(* looser one, also when it spends its time at the Gateway between reading *)
(* the previous policy and swapping.                                       *)
NeverLoosens ==
  [][Looser => \E x \in Reloads : Swapper(x) /\ opts[x].allow_loosen]_current

(* A reload swaps the registry only while no tool call is in flight.       *)
SwapsOnlyWhenIdle == [][in_flight = 0]_current

(* A reload replaces the policy it started from and no other: the digest   *)
(* it sent to the Gateway and the previous_document it read before an      *)
(* await are still those of the policy in force when it swaps, so the swap *)
(* of the other task, of a caller or of a restarted controller is never    *)
(* undone by an answer that was computed for an older policy.              *)
NoSwapUndone ==
  [][\A x \in Reloads : Swapper(x) =>
       /\ asked[x] # None => asked[x].digest = current
       /\ at[x] = "validating" => previous[x] = current]_current

(* Once stop_policy_reload has returned, only a caller's own reload_policy *)
(* swaps the registry: no task of the controller does.                     *)
StopSilences == [][running \/ \E x \in Manual : Swapper(x)]_current

(* The watcher misses no edit: one made under a started controller is      *)
(* loaded by a reload, unless a reload gave up waiting for tool calls or   *)
(* the controller is stopped.                                              *)
WatchedEditLoaded == (unread = "yes") ~> (unread # "yes" \/ ~running)

(* An edit that a reload gave up on (the 30 s of _wait_for_in_flight_count *)
(* passed) is not lost for good: the watcher has cleared its change and    *)
(* will not look again, but once the tool calls stop a poll of the started *)
(* controller reads the file.                                              *)
GivenUpEditCaughtUp == <>[](in_flight = 0 /\ running) => []<>(unread = "no")
-----------------------------------------------------------------------------
(* The inductive invariant behind the safety properties. *)

(* What a suspended reload knows; a task reloads only under a started      *)
(* controller, with the flag set, and never beside the other task.         *)
ReloadInv ==
  /\ \A x \in Reloads :
       /\ at[x] \in {"idle", "waiting"} => asked[x] = None
       /\ at[x] # "idle" => opts[x] \in Options
       /\ at[x] = "resolving" => asked[x] \in [overlay : Docs, digest : Docs]
       /\ at[x] = "validating" => snapshot[x] \in Docs
  /\ \A x \in Tasks : at[x] # "idle" => running /\ reload_in_flight
  /\ \A x, y \in Tasks : at[x] # "idle" /\ at[y] # "idle" => x = y

(* Without Overlap a reload is alone, so what it read is still current.    *)
AloneInv ==
  /\ \A x, y \in Reloads : at[x] # "idle" /\ at[y] # "idle" => x = y
  /\ \A x \in Manual : at[x] # "idle" => ~running
  /\ \A x \in Reloads : at[x] = "validating" => previous[x] = current
  /\ \A x \in Reloads : at[x] # "idle" /\ asked[x] # None => asked[x].digest = current

RInv == TypeOK /\ ReloadInv /\ (Overlap \/ AloneInv)
=============================================================================
