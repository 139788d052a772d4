------------------------- MODULE PolicyReloadProofs -------------------------
(***************************************************************************)
(* Proofs about PolicyReload for any documents, org policies, options and  *)
(* number of callers: the inductive invariant RInv and the safety          *)
(* properties of hot-reload that follow from it.                           *)
(***************************************************************************)
EXTENDS PolicyReload, TLAPS

Results == Errors \union {"unchanged", "applied"}

Asked == [overlay : Docs, digest : Docs]

-----------------------------------------------------------------------------
(* The verdict on a snapshot is one of the results of a reload.            *)
LEMMA VerdictType ==
  ASSUME NEW o, NEW prev, NEW next
  PROVE  verdict(o, prev, next) \in Results
BY DEF verdict, Results, Errors

(* What Decide does: the reload ends, and the policy in force stays or     *)
(* becomes the snapshot, the latter only with a clean verdict.             *)
LEMMA DecideShape ==
  ASSUME NEW x, NEW prev, NEW next, Decide(x, prev, next)
  PROVE  /\ \E result \in Results : End(x, result)
         /\ \/ current' = current
            \/ current' = next /\ verdict(opts[x], prev, next) = "applied"
<1>1. verdict(opts[x], prev, next) \in Results
  BY VerdictType
<1>2. "listener_raised" \in Results
  BY DEF Results, Errors
<1>3. QED
  BY <1>1, <1>2 DEF Decide

(* Where a step of a reload leads: to its end, to the wait for the         *)
(* effective policy, or to the wait for the Gateway's validation.          *)
Resolving(x) ==
  /\ current' = current
  /\ Suspend(x, "resolving")
  /\ \E a \in Asked : a.digest = current /\ asked' = [asked EXCEPT ![x] = a]
  /\ UNCHANGED <<opts, snapshot, previous>>

Validating(x) ==
  /\ current' = current
  /\ Suspend(x, "validating")
  /\ \E d \in Docs : snapshot' = [snapshot EXCEPT ![x] = d]
  /\ previous' = [previous EXCEPT ![x] = current]
  /\ UNCHANGED <<opts, asked>>

(* The policy that a reload puts in force, judged against the one it read. *)
Swaps(x, prev, next) ==
  /\ current' = next
  /\ verdict(opts[x], prev, next) = "applied"

LEMMA ValidateShape ==
  ASSUME NEW x, NEW next \in Docs, ValidateAndApply(x, next)
  PROVE  /\ Validating(x) \/ \E result \in Results : End(x, result)
         /\ current' = current \/ Swaps(x, current, next)
<1>1. "local_validate_failed" \in Results
  BY DEF Results, Errors
<1>2. CASE Decide(x, current, next)
  BY <1>2, DecideShape DEF Swaps
<1>3. CASE ~validate_document(Document[next])
  BY <1>1, <1>3 DEF ValidateAndApply
<1>4. CASE validate_document(Document[next]) /\ opts[x].remote
  BY <1>4 DEF ValidateAndApply, Validating
<1>5. QED
  BY <1>2, <1>3, <1>4 DEF ValidateAndApply

(* A step of a reload, whole: what it leaves alone, where it leads, and    *)
(* from which await it may swap the policy.                                *)
LEMMA StepShape ==
  ASSUME TypeOK, ReloadInv, NEW x \in Reloads, ReloadStep(x)
  PROVE  /\ at[x] # "idle"
         /\ UNCHANGED <<file, org, in_flight, dirty, running>>
         /\ unread' \in {"no", "yes", "lost"}
         /\ Resolving(x) \/ Validating(x) \/ \E result \in Results : End(x, result)
         /\ \/ current' = current
            \/ /\ at[x] = "waiting"
               /\ in_flight = 0
               /\ \E next \in Docs : Swaps(x, current, next)
            \/ /\ at[x] = "resolving"
               /\ \E next \in Docs : Swaps(x, current, next)
            \/ /\ at[x] = "validating"
               /\ Swaps(x, previous[x], snapshot[x])
<1> USE DEF Results, Errors
<1>1. CASE LoadFile(x)
  <2>1. CASE file \in Docs /\ ValidateAndApply(x, file)
    BY <1>1, <2>1, ValidateShape DEF LoadFile, Waited
  <2>2. CASE End(x, "unchanged") /\ current' = current
    BY <1>1, <2>2 DEF LoadFile, Waited
  <2>3. CASE End(x, "load_failed") /\ current' = current
    BY <1>1, <2>3 DEF LoadFile, Waited
  <2>4. QED
    BY <1>1, <2>1, <2>2, <2>3 DEF LoadFile
<1>2. CASE AskEffective(x)
  <2>1. current \in Docs
    BY DEF TypeOK
  <2>2. CASE file \in Docs /\ Suspend(x, "resolving")
    BY <1>2, <2>1, <2>2, BrokenAssumption DEF AskEffective, Resolving, Asked, Waited
  <2>3. CASE End(x, "load_failed")
    BY <1>2, <2>3 DEF AskEffective, Waited
  <2>4. QED
    BY <1>2, <2>2, <2>3, BrokenAssumption DEF AskEffective
<1>3. CASE WaitTimeout(x)
  BY <1>3 DEF WaitTimeout, TypeOK
<1>4. CASE EffectiveAnswer(x)
  <2> DEFINE effective == Effective[org][asked[x].overlay]
  <2>1. CASE effective \in Docs /\ ValidateAndApply(x, effective)
    <3> HIDE DEF effective
    <3>1. /\ Validating(x) \/ \E result \in Results : End(x, result)
          /\ current' = current \/ Swaps(x, current, effective)
      BY <2>1, ValidateShape
    <3>2. QED
      BY <1>4, <2>1, <3>1 DEF EffectiveAnswer, TypeOK
  <2>2. CASE End(x, "unchanged") /\ current' = current
    BY <1>4, <2>2 DEF EffectiveAnswer, TypeOK
  <2>3. CASE End(x, "resolve_failed") /\ current' = current
    BY <1>4, <2>3 DEF EffectiveAnswer, TypeOK
  <2>4. QED
    BY <1>4, <2>1, <2>2, <2>3 DEF EffectiveAnswer
<1>5. CASE RemoteAnswer(x)
  <2>1. CASE Decide(x, previous[x], snapshot[x])
    BY <1>5, <2>1, DecideShape DEF RemoteAnswer, TypeOK, Swaps
  <2>2. CASE End(x, "remote_validate_failed") /\ current' = current
    BY <1>5, <2>2 DEF RemoteAnswer, TypeOK
  <2>3. QED
    BY <1>5, <2>1, <2>2 DEF RemoteAnswer
<1>6. QED
  BY <1>1, <1>2, <1>3, <1>4, <1>5 DEF ReloadStep
-----------------------------------------------------------------------------
(* A bound binding, no reload and no call in flight satisfy the invariant. *)
LEMMA InitRInv == Init => RInv
<1> SUFFICES ASSUME Init PROVE RInv
  OBVIOUS
<1>1. TypeOK
  <2>1. running \in BOOLEAN
    <3>1. running = (Tasks # {})
      BY DEF Init
    <3>2. CASE Tasks # {}
      BY <3>1, <3>2
    <3>3. CASE Tasks = {}
      BY <3>1, <3>3
    <3>4. QED
      BY <3>2, <3>3
  <2>2. current \in Docs /\ file \in Files
    BY DEF Init, Files
  <2>3. in_flight \in 0..MaxInFlight /\ org \in Orgs
    BY InFlightAssumption DEF Init
  <2>4. /\ at \in [Reloads -> {"idle", "waiting", "resolving", "validating"}]
        /\ opts \in [Reloads -> Options \union {None}]
        /\ asked \in [Reloads -> Asked \union {None}]
        /\ snapshot \in [Reloads -> Docs \union {None}]
        /\ previous \in [Reloads -> Docs \union {None}]
    BY DEF Init
  <2>5. /\ dirty \in BOOLEAN
        /\ reload_in_flight \in BOOLEAN
        /\ last_reload_error \in Errors \union {None}
        /\ unread \in {"no", "yes", "lost"}
    BY DEF Init
  <2>6. QED
    BY <2>1, <2>2, <2>3, <2>4, <2>5 DEF TypeOK, Asked
<1>2. ReloadInv
  BY DEF Init, ReloadInv, Reloads
<1>3. AloneInv
  BY DEF Init, AloneInv, Reloads
<1>4. QED
  BY <1>1, <1>2, <1>3 DEF RInv

(* The end of a reload keeps the types, whatever its result.               *)
LEMMA EndType ==
  ASSUME TypeOK, NEW x \in Reloads, NEW result \in Results, End(x, result)
  PROVE  /\ at' \in [Reloads -> {"idle", "waiting", "resolving", "validating"}]
         /\ opts' \in [Reloads -> Options \union {None}]
         /\ asked' \in [Reloads -> Asked \union {None}]
         /\ snapshot' \in [Reloads -> Docs \union {None}]
         /\ previous' \in [Reloads -> Docs \union {None}]
         /\ reload_in_flight' \in BOOLEAN
         /\ last_reload_error' \in Errors \union {None}
<1>1. /\ at' \in [Reloads -> {"idle", "waiting", "resolving", "validating"}]
      /\ opts' \in [Reloads -> Options \union {None}]
      /\ asked' \in [Reloads -> Asked \union {None}]
      /\ snapshot' \in [Reloads -> Docs \union {None}]
      /\ previous' \in [Reloads -> Docs \union {None}]
  BY DEF End, TypeOK, Asked
<1>2. reload_in_flight' \in BOOLEAN
  BY DEF End, TypeOK
<1>3. last_reload_error' \in Errors \union {None}
  BY DEF End, TypeOK
<1>4. QED
  BY <1>1, <1>2, <1>3

(* Every step of a reload keeps the invariant. *)
LEMMA StepRInv ==
  ASSUME RInv, NEW x \in Reloads, ReloadStep(x)
  PROVE  RInv'
<1>1. TypeOK /\ ReloadInv /\ (Overlap \/ AloneInv)
  BY DEF RInv
<1>2. /\ at[x] # "idle"
      /\ UNCHANGED <<file, org, in_flight, dirty, running>>
      /\ unread' \in {"no", "yes", "lost"}
      /\ Resolving(x) \/ Validating(x) \/ \E result \in Results : End(x, result)
  BY <1>1, StepShape
<1>3. current' \in Docs
  <2>1. \/ current' = current
        \/ \E next \in Docs : Swaps(x, current, next)
        \/ at[x] = "validating" /\ Swaps(x, previous[x], snapshot[x])
    BY <1>1, StepShape
  <2>2. QED
    BY <1>1, <2>1 DEF TypeOK, ReloadInv, Swaps
<1>4. x \in Tasks \/ x \in Manual
  BY DEF Reloads
<1>5. CASE Resolving(x)
  <2>1. TypeOK'
    BY <1>1, <1>2, <1>3, <1>5 DEF TypeOK, Resolving, Suspend, Asked
  <2>2. ReloadInv'
    BY <1>1, <1>2, <1>5 DEF TypeOK, ReloadInv, Resolving, Suspend, Asked, Reloads
  <2>3. AloneInv => AloneInv'
    BY <1>1, <1>2, <1>5 DEF TypeOK, AloneInv, Resolving, Suspend, Reloads
  <2>4. QED
    BY <1>1, <2>1, <2>2, <2>3 DEF RInv
<1>6. CASE Validating(x)
  <2>1. TypeOK'
    BY <1>1, <1>2, <1>3, <1>6 DEF TypeOK, Validating, Suspend
  <2>2. ReloadInv'
    BY <1>1, <1>2, <1>6 DEF TypeOK, ReloadInv, Validating, Suspend, Reloads
  <2>3. AloneInv => AloneInv'
    BY <1>1, <1>2, <1>6 DEF TypeOK, AloneInv, Validating, Suspend, Reloads
  <2>4. QED
    BY <1>1, <2>1, <2>2, <2>3 DEF RInv
<1>7. CASE \E result \in Results : End(x, result)
  <2>1. PICK result \in Results : End(x, result)
    BY <1>7
  <2>2. TypeOK'
    BY <1>1, <1>2, <1>3, <2>1, EndType DEF TypeOK, Asked
  <2>3. ReloadInv'
    <3>1. \A y \in Reloads : at'[y] # "idle" =>
            y # x /\ at'[y] = at[y] /\ opts'[y] = opts[y] /\ asked'[y] = asked[y]
            /\ snapshot'[y] = snapshot[y]
      BY <1>1, <2>1 DEF End, TypeOK
    <3>2. x \in Tasks => \A y \in Tasks : at'[y] = "idle"
      BY <1>1, <1>2, <3>1 DEF ReloadInv, Reloads
    <3>3. x \notin Tasks => reload_in_flight' = reload_in_flight
      BY <1>1, <2>1 DEF End, TypeOK
    <3>4. \A y \in Reloads : at'[y] \in {"idle", "waiting"} => asked'[y] = None
      BY <1>1, <2>1 DEF End, TypeOK, ReloadInv
    <3>5. QED
      BY <1>1, <1>2, <3>1, <3>2, <3>3, <3>4 DEF ReloadInv, Reloads
  <2>4. AloneInv => AloneInv'
    <3>1. \A y \in Reloads : at'[y] # "idle" => y # x /\ at[y] # "idle"
      BY <1>1, <2>1 DEF End, TypeOK
    <3>2. AloneInv => \A y \in Reloads : at'[y] = "idle"
      BY <1>2, <3>1 DEF AloneInv
    <3>3. QED
      BY <3>2 DEF AloneInv, Reloads
  <2>5. QED
    BY <1>1, <2>2, <2>3, <2>4 DEF RInv
<1>8. QED
  BY <1>2, <1>5, <1>6, <1>7
(* A reload that begins keeps the invariant: a caller's own reload.        *)
LEMMA ManualRInv ==
  ASSUME RInv, NEW x \in Manual, NEW o \in ManualOptions, ManualReload(x, o)
  PROVE  RInv'
<1>1. TypeOK /\ ReloadInv /\ (Overlap \/ AloneInv)
  BY DEF RInv
<1>2. x \in Reloads /\ x \notin Tasks /\ o \in Options
  BY TasksAssumption, ManualAssumption DEF Reloads
<1>3. TypeOK'
  BY <1>1, <1>2 DEF TypeOK, ManualReload, Begin
<1>4. ReloadInv'
  BY <1>1, <1>2 DEF TypeOK, ReloadInv, ManualReload, Begin, Reloads
<1>5. Overlap \/ AloneInv'
  <2>1. SUFFICES ASSUME ~Overlap PROVE AloneInv'
    OBVIOUS
  <2>2. /\ ~running /\ running' = running
        /\ \A y \in Reloads : at[y] = "idle"
        /\ at' = [at EXCEPT ![x] = "waiting"]
    BY <2>1 DEF ManualReload, NothingElseReloads, Begin
  <2>3. \A y \in Reloads : at'[y] = IF y = x THEN "waiting" ELSE "idle"
    BY <1>1, <2>2 DEF TypeOK
  <2>4. \A y \in Reloads : asked'[y] = None
    BY <1>1, <2>2 DEF ReloadInv, ManualReload, Begin
  <2>5. QED
    BY <2>2, <2>3, <2>4 DEF AloneInv, Reloads
<1>6. QED
  BY <1>3, <1>4, <1>5 DEF RInv

(* A trigger of a running controller's task keeps the invariant.           *)
LEMMA TriggerRInv ==
  ASSUME RInv, NEW x \in Tasks, running, trigger_reload(x),
         dirty' \in BOOLEAN,
         UNCHANGED <<current, file, org, in_flight, last_reload_error, running, unread>>
  PROVE  RInv'
<1>1. TypeOK /\ ReloadInv /\ (Overlap \/ AloneInv)
  BY DEF RInv
<1>2. x \in Reloads /\ TaskOptions[x] \in Options
  BY TasksAssumption DEF Reloads
<1>3. CASE ~reload_in_flight
  <2>1. /\ at' = [at EXCEPT ![x] = "waiting"]
        /\ opts' = [opts EXCEPT ![x] = TaskOptions[x]]
        /\ reload_in_flight' = TRUE
        /\ UNCHANGED <<asked, snapshot, previous>>
    BY <1>3 DEF trigger_reload, Begin
  <2>2. \A y \in Tasks : at[y] = "idle"
    BY <1>1, <1>3 DEF ReloadInv
  <2>3. TypeOK'
    BY <1>1, <1>2, <2>1 DEF TypeOK
  <2>4. ReloadInv'
    BY <1>1, <1>2, <2>1, <2>2 DEF TypeOK, ReloadInv, Reloads
  <2>5. AloneInv => AloneInv'
    <3>1. AloneInv => \A y \in Reloads : at[y] = "idle"
      BY <2>2 DEF AloneInv, Reloads
    <3>2. \A y \in Reloads : at'[y] = IF y = x THEN "waiting" ELSE at[y]
      BY <1>1, <2>1 DEF TypeOK
    <3>3. \A y \in Manual : y # x
      BY TasksAssumption
    <3>4. AloneInv => \A y \in Reloads : asked'[y] = None
      BY <1>1, <2>1, <3>1 DEF ReloadInv
    <3>5. QED
      BY <3>1, <3>2, <3>3, <3>4 DEF AloneInv, Reloads
  <2>6. QED
    BY <1>1, <2>3, <2>4, <2>5 DEF RInv
<1>4. CASE reload_in_flight
  <2>1. UNCHANGED <<reloadVars, reload_in_flight>>
    BY <1>4 DEF trigger_reload
  <2>2. TypeOK'
    BY <1>1, <2>1 DEF TypeOK, reloadVars
  <2>3. ReloadInv' /\ (AloneInv => AloneInv')
    BY <1>1, <2>1 DEF ReloadInv, AloneInv, reloadVars
  <2>4. QED
    BY <1>1, <2>2, <2>3 DEF RInv
<1>5. QED
  BY <1>3, <1>4

(* Stopping cancels the tasks and leaves callers alone. *)
LEMMA StopRInv ==
  ASSUME RInv, stop_policy_reload
  PROVE  RInv'
<1>1. TypeOK /\ ReloadInv /\ (Overlap \/ AloneInv)
  BY DEF RInv
<1>2. TypeOK'
  BY <1>1 DEF TypeOK, stop_policy_reload
<1>3. \A y \in Reloads : at'[y] # "idle" =>
        /\ y \notin Tasks
        /\ at'[y] = at[y] /\ opts'[y] = opts[y] /\ asked'[y] = asked[y]
        /\ snapshot'[y] = snapshot[y] /\ previous'[y] = previous[y]
  BY DEF stop_policy_reload
<1>4. running' = FALSE /\ current' = current
  BY DEF stop_policy_reload
<1>5. ReloadInv'
  <2>1. \A y \in Reloads : at'[y] \in {"idle", "waiting"} => asked'[y] = None
    BY <1>1 DEF stop_policy_reload, ReloadInv
  <2>2. QED
    BY <1>1, <1>3, <2>1 DEF ReloadInv, Reloads
<1>6. AloneInv => AloneInv'
  BY <1>3, <1>4 DEF AloneInv, Reloads
<1>7. QED
  BY <1>1, <1>2, <1>5, <1>6 DEF RInv

(* Starting finds no task suspended, and without Overlap no caller either. *)
LEMMA StartRInv ==
  ASSUME RInv, start_policy_reload
  PROVE  RInv'
<1>1. TypeOK /\ ReloadInv /\ (Overlap \/ AloneInv)
  BY DEF RInv
<1>2. TypeOK'
  BY <1>1 DEF TypeOK, start_policy_reload, reloadVars
<1>3. ReloadInv'
  BY <1>1 DEF ReloadInv, start_policy_reload, reloadVars
<1>4. Overlap \/ AloneInv'
  BY <1>1 DEF AloneInv, start_policy_reload, reloadVars
<1>5. QED
  BY <1>2, <1>3, <1>4 DEF RInv

(* Tool calls, edits of the file and org policies touch no reload.         *)
LEMMA EnvironmentRInv ==
  ASSUME RInv,
         \/ BeginCall \/ EndCall
         \/ \E f \in Files : Edit(f)
         \/ \E o \in Orgs : OrgChange(o)
         \/ UNCHANGED vars
  PROVE  RInv'
<1>1. TypeOK /\ ReloadInv /\ (Overlap \/ AloneInv)
  BY DEF RInv
<1>2. UNCHANGED <<current, reloadVars, reload_in_flight, running>>
  BY DEF BeginCall, EndCall, Edit, OrgChange, vars, reloadVars
<1>3. ReloadInv' /\ (AloneInv => AloneInv')
  BY <1>1, <1>2 DEF ReloadInv, AloneInv, reloadVars
<1>4. TypeOK'
  <2>1. CASE BeginCall
    BY <1>1, <2>1, InFlightAssumption DEF TypeOK, BeginCall, reloadVars
  <2>2. CASE EndCall
    BY <1>1, <2>2, InFlightAssumption DEF TypeOK, EndCall, reloadVars
  <2>3. CASE \E f \in Files : Edit(f)
    BY <1>1, <2>3 DEF TypeOK, Edit, reloadVars
  <2>4. CASE \E o \in Orgs : OrgChange(o)
    BY <1>1, <2>4 DEF TypeOK, OrgChange, reloadVars
  <2>5. CASE UNCHANGED vars
    BY <1>1, <2>5 DEF TypeOK, vars
  <2>6. QED
    BY <2>1, <2>2, <2>3, <2>4, <2>5
<1>5. QED
  BY <1>1, <1>3, <1>4 DEF RInv

(* RInv is inductive: every step of every reload, of the controller and of *)
(* the environment keeps it.                                               *)
THEOREM ReloadInductive == Spec => []RInv
<1>1. RInv /\ [Next]_vars => RInv'
  <2> SUFFICES ASSUME RInv, [Next]_vars PROVE RInv'
    OBVIOUS
  <2>1. CASE \E x \in Reloads : ReloadStep(x)
    BY <2>1, StepRInv
  <2>2. CASE \E x \in Manual, o \in ManualOptions : ManualReload(x, o)
    BY <2>2, ManualRInv
  <2>3. CASE WatchTrigger
    BY <2>3, TriggerRInv DEF WatchTrigger
  <2>4. CASE PollTrigger
    <3>1. dirty' \in BOOLEAN
      BY <2>4 DEF PollTrigger, RInv, TypeOK
    <3>2. QED
      BY <2>4, <3>1, TriggerRInv DEF PollTrigger
  <2>5. CASE stop_policy_reload
    BY <2>5, StopRInv
  <2>6. CASE start_policy_reload
    BY <2>6, StartRInv
  <2>7. CASE \/ BeginCall \/ EndCall
             \/ \E f \in Files : Edit(f)
             \/ \E o \in Orgs : OrgChange(o)
             \/ UNCHANGED vars
    BY <2>7, EnvironmentRInv
  <2>8. QED
    BY <2>1, <2>2, <2>3, <2>4, <2>5, <2>6, <2>7 DEF Next
<1>2. QED
  BY <1>1, InitRInv, PTL DEF Spec
-----------------------------------------------------------------------------
(* The safety properties. *)

(* Spec keeps the types of reload_policy's and the controller's state.     *)
THEOREM ReloadTypeCorrect == Spec => []TypeOK
<1>1. RInv => TypeOK
  BY DEF RInv
<1>2. QED
  BY <1>1, ReloadInductive, PTL

(* Who swaps: a policy comes into force only at the end of a reload, which *)
(* judged it against the policy it had read, and no other reload ends in   *)
(* the same step.                                                          *)
LEMMA WhoSwaps ==
  ASSUME RInv, [Next]_vars, current' # current
  PROVE  \E x \in Reloads :
           /\ Swapper(x)
           /\ \A y \in Reloads : Swapper(y) => y = x
           /\ \/ at[x] \in {"waiting", "resolving"} /\ verdict(opts[x], current, current') = "applied"
              \/ at[x] = "validating" /\ verdict(opts[x], previous[x], current') = "applied"
<1>1. TypeOK /\ ReloadInv
  BY DEF RInv
<1>2. PICK x \in Reloads : ReloadStep(x)
  BY DEF Next, vars, ManualReload, WatchTrigger, PollTrigger, stop_policy_reload,
         start_policy_reload, BeginCall, EndCall, Edit, OrgChange
<1>3. /\ at[x] # "idle"
      /\ Resolving(x) \/ Validating(x) \/ \E result \in Results : End(x, result)
      /\ \/ /\ at[x] = "waiting"
            /\ in_flight = 0
            /\ \E next \in Docs : Swaps(x, current, next)
         \/ /\ at[x] = "resolving"
            /\ \E next \in Docs : Swaps(x, current, next)
         \/ /\ at[x] = "validating"
            /\ Swaps(x, previous[x], snapshot[x])
  BY <1>1, <1>2, StepShape
<1>4. at' = [at EXCEPT ![x] = "idle"]
  BY <1>3 DEF Resolving, Validating, End
<1>5. Swapper(x) /\ \A y \in Reloads : Swapper(y) => y = x
  BY <1>1, <1>3, <1>4 DEF Swapper, TypeOK
<1>6. \/ at[x] \in {"waiting", "resolving"} /\ verdict(opts[x], current, current') = "applied"
      \/ at[x] = "validating" /\ verdict(opts[x], previous[x], current') = "applied"
  BY <1>3 DEF Swaps
<1>7. QED
  BY <1>5, <1>6

(* When callers do not reload beside others, a reload without allow_loosen *)
(* never puts a looser policy in force: the previous_document it judges    *)
(* against is still the policy in force when it swaps, however long        *)
(* validate_policy_remote takes.                                           *)
THEOREM LooseningDenied ==
  ASSUME ~Overlap
  PROVE  Spec => NeverLoosens
<1>1. RInv /\ [Next]_vars =>
        [Looser => \E x \in Reloads : Swapper(x) /\ opts[x].allow_loosen]_current
  <2> SUFFICES ASSUME RInv, [Next]_vars, current' # current, Looser
               PROVE  \E x \in Reloads : Swapper(x) /\ opts[x].allow_loosen
    OBVIOUS
  <2>1. PICK x \in Reloads :
          /\ Swapper(x)
          /\ \/ at[x] \in {"waiting", "resolving"} /\ verdict(opts[x], current, current') = "applied"
             \/ at[x] = "validating" /\ verdict(opts[x], previous[x], current') = "applied"
    BY WhoSwaps
  <2>2. verdict(opts[x], current, current') = "applied"
    BY <2>1 DEF RInv, AloneInv
  <2>3. current # None
    BY DocsAssumption DEF RInv, TypeOK
  <2>4. opts[x].allow_loosen
    BY <2>2, <2>3 DEF verdict, Looser
  <2>5. QED
    BY <2>1, <2>4
<1>2. QED
  BY <1>1, ReloadInductive, PTL DEF Spec, NeverLoosens

(* When callers do not reload beside others, a reload replaces the policy  *)
(* it started from: the digest it asked the Gateway with and the           *)
(* previous_document it read are still in force at apply_policy_snapshot,  *)
(* so no answer for an older policy undoes another reload's swap.          *)
THEOREM SwapsAreNotLost ==
  ASSUME ~Overlap
  PROVE  Spec => NoSwapUndone
<1>1. RInv => \A x \in Reloads : at[x] # "idle" =>
                /\ asked[x] # None => asked[x].digest = current
                /\ at[x] = "validating" => previous[x] = current
  BY DEF RInv, AloneInv
<1>2. RInv /\ [Next]_vars =>
        [\A x \in Reloads : Swapper(x) =>
           /\ asked[x] # None => asked[x].digest = current
           /\ at[x] = "validating" => previous[x] = current]_current
  BY <1>1 DEF Swapper
<1>3. QED
  BY <1>2, ReloadInductive, PTL DEF Spec, NoSwapUndone

(* After stop_policy_reload no task of the controller puts a policy in     *)
(* force, whatever await it was cancelled at.                              *)
THEOREM StoppedIsSilent == Spec => StopSilences
<1>1. RInv /\ [Next]_vars => [running \/ \E x \in Manual : Swapper(x)]_current
  <2> SUFFICES ASSUME RInv, [Next]_vars, current' # current, ~running
               PROVE  \E x \in Manual : Swapper(x)
    OBVIOUS
  <2>1. PICK x \in Reloads : Swapper(x)
    BY WhoSwaps
  <2>2. x \notin Tasks
    BY <2>1 DEF RInv, ReloadInv, Swapper
  <2>3. QED
    BY <2>1, <2>2 DEF Reloads
<1>2. QED
  BY <1>1, ReloadInductive, PTL DEF Spec, StopSilences
=============================================================================
