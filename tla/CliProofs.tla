----------------------------- MODULE CliProofs -----------------------------
(***************************************************************************)
(* Proofs about one run of a command, for every plan whose steps are in    *)
(* order (Orderly, which TLC evaluates on each command of CliRouter): the  *)
(* invariant IInv of Cli is inductive, and implies the safety properties.  *)
(***************************************************************************)
EXTENDS Cli, FiniteSetTheorems, WellFoundedInduction, TLAPS

-----------------------------------------------------------------------------
(* Places in the plan. *)

(* A set of places has a first one: the intervals 1 .. i that end in it    *)
(* are finite, and the inclusion of finite sets is well founded.           *)
LEMMA Least ==
  ASSUME NEW n \in Nat, NEW S \in SUBSET (1 .. n), S # {}
  PROVE  \E x \in S : \A y \in S : x <= y
<1> DEFINE T == {1 .. i : i \in S}
           R == StrictSubsetOrdering(1 .. n)
<1>1. IsWellFoundedOn(R, FiniteSubsetsOf(1 .. n))
  BY FS_StrictSubsetOrderingWellFounded
<1>2. T \subseteq FiniteSubsetsOf(1 .. n)
  <2>1. \A i \in S : IsFiniteSet(1 .. i)
    BY FS_Interval
  <2>2. QED
    BY <2>1 DEF FiniteSubsetsOf
<1>3. T # {}
  OBVIOUS
<1>4. \E x \in T : \A y \in T : ~(<<y, x>> \in R)
  <2> HIDE DEF T, R
  <2>1. QED
    BY <1>1, <1>2, <1>3, WFMin
<1>5. PICK m \in S : \A y \in S : ~(<<1 .. y, 1 .. m>> \in R)
  BY <1>4
<1>6. \A y \in S : m <= y
  <2> SUFFICES ASSUME NEW y \in S, y < m
               PROVE  FALSE
    OBVIOUS
  <2>1. 1 .. y \subseteq 1 .. m /\ 1 .. m \subseteq 1 .. n /\ m \in 1 .. m /\ m \notin 1 .. y
    OBVIOUS
  <2>2. <<1 .. y, 1 .. m>> \in R
    BY <2>1 DEF StrictSubsetOrdering
  <2>3. QED
    BY <1>5, <2>2
<1>7. QED
  BY <1>6

(* Where a failure is absorbed: the first step behind the block, which     *)
(* contains all the steps that are left out; a handler's own block ends    *)
(* with the handler.                                                       *)
LEMMA AfterBlockFacts ==
  ASSUME Len(steps) \in Nat, DOMAIN steps = 1 .. Len(steps), pc \in DOMAIN steps, NEW g
  PROVE  /\ AfterBlock(g) \in pc + 1 .. Len(steps) + 1
         /\ g = "handler" => AfterBlock(g) = Len(steps) + 1
         /\ g # "handler" =>
              /\ AfterBlock(g) \in DOMAIN steps => steps[AfterBlock(g)].group # g
              /\ \A k \in pc + 1 .. AfterBlock(g) - 1 : steps[k].group = g
<1>1. CASE g = "handler"
  BY <1>1 DEF AfterBlock
<1>2. CASE g # "handler"
  <2> DEFINE P(j) == /\ j \in DOMAIN steps => steps[j].group # g
                     /\ \A k \in pc + 1 .. j - 1 : steps[k].group = g
             S == {j \in pc + 1 .. Len(steps) + 1 : j \in DOMAIN steps => steps[j].group # g}
  <2>1. Len(steps) + 1 \in S
    OBVIOUS
  <2>2. PICK m \in S : \A y \in S : m <= y
    <3>1. S \in SUBSET (1 .. Len(steps) + 1) /\ S # {} /\ Len(steps) + 1 \in Nat
      BY <2>1
    <3> HIDE DEF S
    <3>2. QED
      BY <3>1, Least
  <2>3. m \in pc + 1 .. Len(steps) + 1 /\ P(m)
    <3>1. ASSUME NEW k \in pc + 1 .. m - 1
          PROVE  steps[k].group = g
      BY <2>2
    <3>2. QED
      BY <3>1
  <2>4. AfterBlock(g) = CHOOSE j \in pc + 1 .. Len(steps) + 1 : P(j)
    BY <1>2 DEF AfterBlock
  <2>5. AfterBlock(g) \in pc + 1 .. Len(steps) + 1 /\ P(AfterBlock(g))
    <3> HIDE DEF P
    <3>1. QED
      BY <2>3, <2>4
  <2>6. QED
    BY <1>2, <2>5
<1>3. QED
  BY <1>1, <1>2

-----------------------------------------------------------------------------
(* The ways in which a step can leave its place. *)

(* The yes to the overwrite prompt. *)
Agrees ==
  step.do = "prompt" /\ files[step.on] # "absent" /\ "--non-interactive" \notin flags

Frame == /\ command' = command /\ steps' = steps /\ flags' = flags /\ found' = found
         /\ agreed' = agreed \/ (Agrees /\ agreed' = agreed \union {step.on})
         /\ exit = None /\ pc \in DOMAIN steps

(* The step is over, and what it had to make sure of holds. *)
Passes ==
  /\ exit' = None /\ pc' = pc + 1
  /\ step.do = "confirm" => "--yes" \in flags
  /\ step.do \in Guards => files[step.on] \notin Spares(step.do) \/ MayOverwrite
  /\ step.do \in RequestSteps /\ Changes(step) => pc \in acked'

(* Its failure is absorbed by a try block. *)
Jumps == exit' = None /\ step.group # None /\ pc' = AfterBlock(step.group)

Stays == exit' = None /\ pc' = pc

(* The command ends here; a refusal comes from a step that may refuse.     *)
Ends ==
  /\ exit' \in ExitCodes \ {0} /\ pc' = pc
  /\ exit' \in {2, 3, 4} /\ step.do \notin {"call", "poll"} =>
       /\ performed' = performed
       /\ \/ step.do = "confirm"
          \/ step.group = None /\ (step.do = "ask" \/ step.exits \intersect {2, 3, 4} # {})

(* What happened at the Gateway. *)
Asked ==
  /\ performed \subseteq performed' /\ acked \subseteq acked' /\ acked' \subseteq performed'
  /\ \A i \in performed' : i \in performed \/ (i = pc /\ (Changes(step) \/ step.do = "poll"))

LEMMA PlanFacts ==
  ASSUME IInv, Frame
  PROVE  /\ Len(steps) \in Nat /\ DOMAIN steps = 1 .. Len(steps)
         /\ pc \in 1 .. Len(steps) /\ pc \in Nat
         /\ step = steps[pc] /\ step.exits \subseteq ExitCodes \ {0}
         /\ None \notin ExitCodes
BY NoneAssumption DEF IInv, PlaceInv, Orderly, FailuresSay, Frame, step

(* A step goes on to the next, or leaves out steps of try blocks only,     *)
(* unless it makes the handler return.                                     *)
LEMMA MoveFacts ==
  ASSUME IInv, Frame, Passes \/ Jumps
  PROVE  /\ pc' \in pc + 1 .. Len(steps) + 1
         /\ \A k \in pc + 1 .. pc' - 1 :
              steps[k].group # None \/ (step.group = "handler" /\ pc' = Len(steps) + 1)
         /\ Jumps /\ pc' \in DOMAIN steps =>
              /\ steps[pc'].group # step.group
              /\ \A k \in pc + 1 .. pc' - 1 : steps[k].group = step.group
<1>1. CASE Passes
  <2>1. pc' = pc + 1
    BY <1>1 DEF Passes
  <2>2. Jumps /\ pc' \in DOMAIN steps => steps[pc'].group # step.group
    <3>1. ASSUME Jumps, pc' \in DOMAIN steps
          PROVE  steps[pc'].group # step.group
      BY <3>1, PlanFacts, AfterBlockFacts DEF Jumps
    <3>2. QED
      BY <3>1
  <2>3. QED
    BY <2>1, <2>2, PlanFacts
<1>2. CASE Jumps
  BY <1>2, PlanFacts, AfterBlockFacts DEF Jumps
<1>3. QED
  BY <1>1, <1>2

-----------------------------------------------------------------------------
(* The parts of the invariant, each for all the ways in which a step ends. *)

Leaves == Passes \/ Jumps \/ Stays \/ Ends

(* Either the step is over, or the file it writes is the only one touched. *)
Touches ==
  \/ files' = files
  \/ step.do \in Writers /\ \E v \in Contents : files' = [files EXCEPT ![step.on] = v]

LEMMA LeaveFacts ==
  ASSUME IInv, Frame, Leaves
  PROVE  pc' \in pc .. Len(steps) + 1 /\ exit' \in ExitCodes \union {None} /\ exit' # 0
         /\ (exit' = None => Stays \/ pc' > pc)
<1>1. CASE Passes \/ Jumps
  <2>1. exit' = None /\ exit' # 0
    BY <1>1, NoneAssumption DEF Passes, Jumps, ExitCodes
  <2>2. QED
    BY <1>1, <2>1, PlanFacts, MoveFacts
<1>2. CASE Stays
  <2>1. exit' = None /\ exit' # 0
    BY <1>2, NoneAssumption DEF Stays, ExitCodes
  <2>2. QED
    BY <1>2, <2>1, PlanFacts DEF Stays
<1>3. CASE Ends
  BY <1>3, PlanFacts DEF Ends
<1>4. QED
  BY <1>1, <1>2, <1>3 DEF Leaves

LEMMA TypeKept ==
  ASSUME IInv, Frame, Leaves, Asked, Touches,
         writing' \in Contents \union {None}, polls' \in 0 .. MaxPolls
  PROVE  CliTypeOK'
<1>1. performed' \subseteq DOMAIN steps
  BY DEF Asked, Frame, IInv, CliTypeOK
<1>2. files' \in [On(steps, FileSteps) -> Contents]
  BY DEF Touches, IInv, CliTypeOK
<1>3. On(steps, FileSteps)' = On(steps, FileSteps)
  BY DEF Frame, On
<1>4. agreed' \subseteq DOMAIN found
  <2>1. Agrees => step.on \in On(steps, FileSteps)
    BY PlanFacts DEF Agrees, On, FileSteps
  <2>2. QED
    BY <2>1 DEF Frame, IInv, CliTypeOK
<1>5. QED
  BY <1>1, <1>2, <1>3, <1>4, LeaveFacts, PlanFacts DEF Frame, Asked, IInv, CliTypeOK

LEMMA PlaceKept ==
  ASSUME IInv, Frame, Leaves, Asked,
         Stays => performed' = performed,
         writing' # None /\ exit' = None => At({"write", "append"})' /\ files'[step'.on] = "torn"
  PROVE  PlaceInv'
<1>1. Orderly(steps)'
  BY DEF Frame, IInv, PlaceInv
<1>2. (writing # None /\ exit = None => At({"write", "append"}) /\ files[step.on] = "torn")'
  OBVIOUS
<1>3. \A i \in performed' : i <= pc' /\ (exit' = None => i < pc')
  <2> SUFFICES ASSUME NEW i \in performed'
               PROVE  i <= pc' /\ (exit' = None => i < pc')
    OBVIOUS
  <2>1. CASE i \in performed
    <3>1. i \in Nat /\ i < pc
      BY <2>1, PlanFacts DEF IInv, CliTypeOK, PlaceInv, Frame
    <3>2. QED
      BY <3>1, LeaveFacts, PlanFacts
  <2>2. CASE i = pc /\ i \notin performed
    <3>1. ~Stays
      BY <2>2
    <3>2. QED
      BY <3>1, <2>2, LeaveFacts, PlanFacts
  <2>3. QED
    BY <2>1, <2>2 DEF Asked
<1>4. exit' # 0
  BY LeaveFacts
<1>5. QED
  BY <1>1, <1>2, <1>3, <1>4 DEF PlaceInv

(* What is destroyed was confirmed. *)
LEMMA DestroyConfirmed ==
  ASSUME IInv, Frame, step.effect = "destroy"
  PROVE  "--yes" \in flags
<1>1. PICK j \in 1 .. pc - 1 : steps[j].do = "confirm" /\ steps[j].group = None
  BY PlanFacts DEF IInv, PlaceInv, Orderly, ConfirmedFirst
<1>2. QED
  BY <1>1, PlanFacts DEF IInv, ConsentInv, Frame

(* What is written without force, of what a guard spares, was not there    *)
(* when the command started.                                               *)
LEMMA WriteGuarded ==
  ASSUME IInv, Frame, step.do \in Writers, ~MayOverwrite,
         NEW i \in DOMAIN steps, steps[i].do \in Guards, steps[i].on = step.on
  PROVE  found[step.on] \notin Spares(steps[i].do)
<1>1. step.on \in On(steps, {steps[i].do})
  BY DEF On
<1>2. PICK j \in 1 .. pc - 1 :
        /\ steps[j].do = steps[i].do /\ steps[j].on = step.on
        /\ \A k \in j .. pc : steps[k].group = steps[j].group
  BY <1>1, PlanFacts DEF IInv, PlaceInv, Orderly, GuardedFirst
<1>3. Past(j)
  BY <1>2 DEF Past
<1>4. QED
  BY <1>2, <1>3, PlanFacts DEF IInv, ConsentInv, Frame

(* Force is never taken back. *)
LEMMA ForceKept ==
  ASSUME IInv, Frame
  PROVE  MayOverwrite => MayOverwrite'
BY DEF MayOverwrite, Frame

(* A file the user is asked about is as it was found. *)
LEMMA AskedAbout ==
  ASSUME IInv, Frame, step.do = "prompt"
  PROVE  files = found
<1>1. \A k \in DOMAIN steps : k <= pc => steps[k].do \notin Writers
  BY PlanFacts DEF IInv, PlaceInv, Orderly, PromptedFirst, Writers
<1>2. QED
  BY <1>1 DEF IInv, UntouchedInv, Frame

LEMMA ConsentFirstKept ==
  ASSUME IInv, Frame, Asked, Touches
  PROVE  ConsentFirst'
<1>1. ASSUME NEW i \in performed', steps[i].effect = "destroy"
      PROVE  "--yes" \in flags
  BY <1>1, DestroyConfirmed, PlanFacts DEF Asked, IInv, ConsentInv, ConsentFirst
<1>2. ASSUME ~MayOverwrite', NEW i \in DOMAIN steps, steps[i].do \in Guards,
             found[steps[i].on] \in Spares(steps[i].do)
      PROVE  files'[steps[i].on] = found[steps[i].on]
  <2>1. ~MayOverwrite /\ files[steps[i].on] = found[steps[i].on]
    BY <1>2, ForceKept DEF IInv, ConsentInv, ConsentFirst
  <2>2. CASE files' = files
    BY <2>1, <2>2
  <2>3. CASE step.do \in Writers /\ \E v \in Contents : files' = [files EXCEPT ![step.on] = v]
    <3>1. steps[i].on # step.on
      BY <1>2, <2>1, <2>3, WriteGuarded
    <3>2. steps[i].on \in DOMAIN files
      BY <1>2 DEF On, FileSteps, Guards, IInv, CliTypeOK
    <3>3. QED
      BY <2>1, <2>3, <3>1, <3>2
  <2>4. QED
    BY <2>2, <2>3 DEF Touches
<1>3. ASSUME NEW f \in agreed'
      PROVE  found[f] # "absent" /\ "--non-interactive" \notin flags
  <2>1. CASE f \in agreed
    BY <2>1 DEF IInv, ConsentInv, ConsentFirst
  <2>2. CASE f \notin agreed
    BY <1>3, <2>2, AskedAbout DEF Frame, Agrees
  <2>3. QED
    BY <2>1, <2>2
<1>4. QED
  BY <1>1, <1>2, <1>3 DEF ConsentFirst, Frame, Guards, Spares

LEMMA ConsentKept ==
  ASSUME IInv, Frame, Leaves, Asked, Touches
  PROVE  ConsentInv'
<1> DEFINE Here(j) ==
      /\ steps[j].do = "confirm" /\ steps[j].group = None => "--yes" \in flags
      /\ steps[j].do \in Guards /\ Past(j)' =>
           found[steps[j].on] \notin Spares(steps[j].do) \/ MayOverwrite'
<1>1. ASSUME pc' \in DOMAIN steps, NEW j \in 1 .. pc' - 1
      PROVE  Here(j)
  <2>1. CASE j < pc
    <3>1. Past(j)' => Past(j)
      BY LeaveFacts, PlanFacts DEF Past, Frame
    <3>2. QED
      BY <2>1, <3>1, PlanFacts, ForceKept DEF IInv, ConsentInv, Frame
  <2>2. CASE j >= pc
    <3>1. Passes \/ Jumps
      BY <1>1, <2>2, PlanFacts DEF Leaves, Stays, Ends
    <3>2. CASE Jumps
      <4>1. steps[j].group = step.group /\ step.group # None /\ steps[pc'].group # step.group
        BY <1>1, <2>2, <3>2, MoveFacts, PlanFacts DEF Jumps
      <4>2. ~Past(j)'
        BY <1>1, <4>1, LeaveFacts, PlanFacts DEF Past, Frame
      <4>3. QED
        BY <4>1, <4>2
    <3>3. CASE Passes
      <4>1. j = pc
        BY <1>1, <2>2, <3>3, PlanFacts DEF Passes
      <4>2. step.do \in Guards => found[step.on] \notin Spares(step.do) \/ MayOverwrite
        BY <3>3, PlanFacts DEF Passes, IInv, ConsentInv, ConsentFirst, Frame
      <4>3. QED
        BY <3>3, <4>1, <4>2, PlanFacts, ForceKept DEF Passes
    <3>4. QED
      BY <3>1, <3>2, <3>3
  <2>3. QED
    BY <1>1, <2>1, <2>2, LeaveFacts, PlanFacts
<1>2. QED
  BY <1>1, ConsentFirstKept DEF ConsentInv, Frame, Guards, Spares

(* No write is under way at a step of another kind. *)
LEMMA NotWriting ==
  ASSUME IInv, Frame, step.do \notin {"write", "append"}
  PROVE  writing = None
BY DEF IInv, PlaceInv, At, Frame

(* A step that is not a required one writes to no file that has to be      *)
(* whole.                                                                  *)
LEMMA WritesRequired ==
  ASSUME IInv, Frame, step.do \in Writers, step.group # None, NEW i \in Required(Writers)
  PROVE  step.on # steps[i].on
BY PlanFacts DEF IInv, PlaceInv, Orderly, WritesReported, Required

LEMMA RequiredKept ==
  ASSUME Frame, NEW kinds
  PROVE  Required(kinds)' = Required(kinds)
BY DEF Frame, Required

(* The step is over and no file was touched: not a write that succeeded.   *)
LEMMA TornKept ==
  ASSUME IInv, Frame, files' = files, writing' \in {writing, None},
         \/ Passes /\ step.do \notin Writers
         \/ Jumps /\ writing' = None
         \/ Stays /\ step.do \notin Writers
         \/ Ends
  PROVE  TornInv'
<1>1. CASE Ends
  <2>1. exit' \notin {None, 0}
    BY <1>1, PlanFacts DEF Ends
  <2>2. QED
    BY <2>1 DEF TornInv
<1>2. ASSUME ~Ends, NEW i \in Required(Writers), found[steps[i].on] # "torn"
      PROVE  writing' = None /\ files[steps[i].on] # "torn"
  <2>1. /\ files[steps[i].on] = "torn" => writing # None /\ step.on = steps[i].on
        /\ writing # None /\ step.on = steps[i].on => writing # "torn"
    BY <1>2 DEF IInv, TornInv, Frame
  <2>2. CASE step.do \notin Writers
    BY <1>2, <2>1, <2>2, NotWriting DEF Writers
  <2>3. CASE step.do \in Writers /\ Jumps /\ writing' = None
    BY <1>2, <2>1, <2>3, WritesRequired DEF Jumps
  <2>4. QED
    BY <1>2, <2>2, <2>3
<1>3. CASE ~Ends
  BY <1>2, <1>3, RequiredKept DEF TornInv, Frame
<1>4. QED
  BY <1>1, <1>3

(* What the steps before this one did is not undone when no file changes.  *)
LEMMA DidKept ==
  ASSUME IInv, Frame, Asked, files' = files, writing = None, NEW i \in DOMAIN steps, Did(i)
  PROVE  Did(i)'
<1>1. ~Rewriting(i)
  BY NoneAssumption DEF Rewriting, Contents
<1>2. QED
  BY <1>1 DEF Did, Frame, Asked, Changes

LEMMA DoneKept ==
  ASSUME IInv, Frame, Asked, files' = files, writing' \in {writing, None},
         \/ Passes /\ step.do \notin Writers
         \/ Jumps /\ writing' = None
         \/ Stays /\ step.do \notin Writers
         \/ Ends
  PROVE  DoneInv'
<1>1. CASE Ends
  <2>1. exit' \notin {None, 0}
    BY <1>1, PlanFacts DEF Ends
  <2>2. QED
    BY <2>1 DEF DoneInv
<1>2. ASSUME ~Ends, NEW i \in DOMAIN steps, i < pc', steps[i].group = None
      PROVE  Did(i)'
  <2>1. CASE i < pc
    <3>1. Did(i)
      BY <1>2, <2>1 DEF IInv, DoneInv, Frame
    <3>2. CASE step.do \notin {"write", "append"}
      BY <3>1, <3>2, NotWriting, DidKept
    <3>3. CASE step.do \in {"write", "append"}
      <4>1. Jumps /\ step.do \in Writers
        BY <1>2, <3>3 DEF Writers
      <4>2. steps[i].do \in Writers => ~Rewriting(i)
        BY <1>2, <4>1, WritesRequired DEF Required, Rewriting, Jumps
      <4>3. QED
        BY <3>1, <4>2 DEF Did, Frame, Asked, Changes, Writers
    <3>4. QED
      BY <3>2, <3>3
  <2>2. CASE i = pc
    <3>1. Passes /\ step.do \notin Writers
      BY <1>2, <2>2, PlanFacts DEF Jumps, Stays
    <3>2. QED
      BY <2>2, <3>1, PlanFacts DEF Passes, Did, Frame, Changes, Writers
  <2>3. CASE i > pc
    <3>1. Passes \/ Jumps
      BY <1>2, <2>3, PlanFacts DEF Stays
    <3>2. step.group = "handler"
      BY <1>2, <2>3, <3>1, MoveFacts, PlanFacts
    <3>3. steps[i].do \notin Writers /\ (steps[i].do \in RequestSteps => ~Changes(steps[i]))
      BY <1>2, <2>3, <3>2, PlanFacts DEF IInv, PlaceInv, Orderly, ReturnsLate
    <3>4. QED
      BY <3>3 DEF Did, Frame, Changes, Writers
  <2>4. QED
    BY <2>1, <2>2, <2>3, PlanFacts
<1>3. CASE ~Ends
  BY <1>2, <1>3 DEF DoneInv, Frame
<1>4. QED
  BY <1>1, <1>3

(* A refusal comes before anything is changed. *)
LEMMA RefusedEarly ==
  ASSUME IInv, Frame, On(steps, {"call", "poll"}) = {},
         \/ step.do = "confirm"
         \/ step.group = None /\ (step.do = "ask" \/ step.exits \intersect {2, 3, 4} # {})
  PROVE  performed = {} /\ files = found
<1>1. /\ step.do \notin Writers
      /\ \A k \in 1 .. pc - 1 : steps[k].do \notin Writers /\ ~Changes(steps[k])
  BY PlanFacts DEF IInv, PlaceInv, Orderly, RefusesFirst
<1>2. performed = {}
  <2>1. \A i \in performed : i \in 1 .. pc - 1 /\ Changes(steps[i])
    BY PlanFacts DEF IInv, CliTypeOK, PlaceInv, UntouchedInv, Frame
  <2>2. QED
    BY <1>1, <2>1
<1>3. files = found
  BY <1>1, PlanFacts DEF IInv, UntouchedInv, Frame
<1>4. QED
  BY <1>2, <1>3

LEMMA UntouchedKept ==
  ASSUME IInv, Frame, Leaves, Asked, Touches, exit' # None => files' = files
  PROVE  UntouchedInv'
<1>1. ASSUME exit' = None, files' # found
      PROVE  \E k \in DOMAIN steps : steps[k].do \in Writers /\ k <= pc'
  <2>1. CASE step.do \in Writers
    <3>1. pc <= pc'
      BY LeaveFacts, PlanFacts
    <3>2. QED
      BY <2>1, <3>1, PlanFacts
  <2>2. CASE step.do \notin Writers
    <3>1. PICK k \in DOMAIN steps : steps[k].do \in Writers /\ k <= pc
      BY <1>1, <2>2 DEF IInv, UntouchedInv, Touches, Frame
    <3>2. k <= pc'
      BY <3>1, LeaveFacts, PlanFacts
    <3>3. QED
      BY <3>1, <3>2
  <2>3. QED
    BY <2>1, <2>2
<1>2. ASSUME On(steps, {"call", "poll"}) = {}
      PROVE  step.do \notin {"call", "poll"}
  BY <1>2, PlanFacts DEF On
<1>3. ASSUME On(steps, {"call", "poll"}) = {}
      PROVE  \A i \in performed' : Changes(steps[i])
  BY <1>2, <1>3, PlanFacts DEF Asked, IInv, UntouchedInv
<1>4. ASSUME On(steps, {"call", "poll"}) = {}, exit' \in {2, 3, 4}
      PROVE  performed' = {} /\ files' = found
  <2>1. exit' # None
    BY <1>4, NoneAssumption DEF ExitCodes
  <2>2. Ends
    BY <2>1 DEF Leaves, Passes, Jumps, Stays
  <2>3. QED
    BY <1>2, <1>4, <2>1, <2>2, RefusedEarly DEF Ends
<1>5. On(steps, {"call", "poll"})' = On(steps, {"call", "poll"}) /\ steps' = steps /\ found' = found
  BY DEF Frame, On
<1>6. QED
  BY <1>1, <1>3, <1>4, <1>5 DEF UntouchedInv, RefusedMeansUntouched, Changes

(* A step that touches no file keeps the invariant. *)
LEMMA QuietKept ==
  ASSUME IInv, Frame, Asked, files' = files, polls' \in 0 .. MaxPolls,
         \/ Passes /\ step.do \notin Writers /\ writing' = writing
         \/ Jumps /\ (writing' = None \/ (step.do \notin {"write", "append"} /\ writing' = writing))
         \/ Stays /\ step.do \notin Writers /\ writing' = writing /\ performed' = performed
         \/ Ends /\ writing' \in {writing, None}
  PROVE  IInv'
<1>1. Leaves /\ Touches
  BY DEF Leaves, Touches
<1>2. writing' = None \/ Ends
  BY NotWriting DEF Writers
<1>3. writing' \in Contents \union {None}
  BY <1>2 DEF IInv, CliTypeOK
<1>4. Ends => exit' # None
  BY PlanFacts DEF Ends
<1>5. /\ writing' # None /\ exit' = None => At({"write", "append"})' /\ files'[step'.on] = "torn"
      /\ Stays => performed' = performed
  <2>1. Stays => exit' = None
    BY DEF Stays
  <2>2. Stays /\ Passes => FALSE
    BY PlanFacts DEF Stays, Passes
  <2>3. Stays /\ Jumps => FALSE
    BY PlanFacts, MoveFacts DEF Stays
  <2>4. QED
    BY <1>2, <1>4, <2>1, <2>2, <2>3
<1>6. \/ Passes /\ step.do \notin Writers
      \/ Jumps /\ writing' = None
      \/ Stays /\ step.do \notin Writers
      \/ Ends
  BY NotWriting
<1>7. writing' \in {writing, None}
  OBVIOUS
<1>8. QED
  BY <1>1, <1>3, <1>5, <1>6, <1>7, TypeKept, PlaceKept, ConsentKept, TornKept, DoneKept,
     UntouchedKept DEF IInv

-----------------------------------------------------------------------------
(* The actions. *)

(* An error either leaves the try block, or ends the command.              *)
LEMMA FailFacts ==
  ASSUME IInv, Frame, NEW codes, codes \subseteq ExitCodes \ {0}, Fail(codes)
  PROVE  \/ Jumps
         \/ step.group = None /\ exit' \in codes /\ pc' = pc /\ exit' \in ExitCodes \ {0}
BY DEF Fail, Jumps, Frame

(* Steps that neither ask the Gateway nor write. *)
LEMMA LocalAsked ==
  ASSUME IInv, performed' = performed, acked' = acked
  PROVE  Asked
BY DEF Asked, IInv, CliTypeOK

LEMMA LocalKept ==
  ASSUME IInv,
         \/ Pass \/ Refuse \/ require_confirmation \/ refuse_existing \/ refuse_taken
         \/ confirm_overwrite \/ ReadFile \/ LeaveServer
  PROVE  IInv'
<1>1. /\ Frame /\ files' = files /\ writing' = writing /\ polls' = polls
      /\ performed' = performed /\ acked' = acked
      /\ step.do \in {"check", "fails", "confirm", "guard", "entry", "prompt", "load", "peek",
                      "serve"}
  <2>1. CASE confirm_overwrite
    BY <2>1 DEF confirm_overwrite, Frame, Agrees, At, IInv, CliTypeOK
  <2>2. CASE ~confirm_overwrite
    BY <2>2
    DEF Pass, Refuse, require_confirmation, refuse_existing, refuse_taken, ReadFile, LeaveServer,
        Local, Frame, At, IInv, CliTypeOK
  <2>3. QED
    BY <2>1, <2>2
<1>2. step.do \notin Writers \union RequestSteps /\ polls' \in 0 .. MaxPolls
  BY <1>1 DEF Writers, RequestSteps, IInv, CliTypeOK
<1>3. CASE Fail(step.exits)
  <2>1. Jumps \/ Ends
    BY <1>1, <1>3, FailFacts, PlanFacts DEF Ends
  <2>2. QED
    BY <1>1, <1>2, <2>1, LocalAsked, QuietKept DEF Writers
<1>4. CASE Go /\ (step.do = "confirm" => "--yes" \in flags)
          /\ (step.do \in Guards => files[step.on] \notin Spares(step.do) \/ MayOverwrite)
  <2>1. Passes
    BY <1>1, <1>2, <1>4 DEF Passes, Go, Frame
  <2>2. QED
    BY <1>1, <1>2, <2>1, LocalAsked, QuietKept
<1>5. CASE step.do = "confirm" /\ exit' = 4 /\ pc' = pc
  <2>1. Ends
    BY <1>1, <1>5 DEF Ends, ExitCodes
  <2>2. QED
    BY <1>1, <1>2, <2>1, LocalAsked, QuietKept
<1>6. QED
  <2>1. CASE refuse_existing \/ refuse_taken
    BY <1>1, <1>3, <1>4, <2>1 DEF refuse_existing, refuse_taken, At, Guards, Spares
  <2>2. CASE ~(refuse_existing \/ refuse_taken)
    BY <1>1, <1>3, <1>4, <1>5, <2>2
    DEF Pass, Refuse, require_confirmation, confirm_overwrite, ReadFile, LeaveServer, At, Guards
  <2>3. QED
    BY <2>1, <2>2

(* Requests. *)
LEMMA Performed ==
  ASSUME IInv, Frame, performed' \in {performed, performed \union Writes(pc)},
         acked' = acked \/ (acked' = acked \union Writes(pc) /\ performed' = performed \union Writes(pc))
  PROVE  Asked
BY PlanFacts DEF Asked, Writes, IInv, CliTypeOK

LEMMA RequestFrame ==
  ASSUME IInv, Answered \/ gateway_request_fails \/ CallFails \/ poll_granted \/ poll_fails
  PROVE  /\ Frame /\ files' = files /\ writing' = writing /\ polls' \in 0 .. MaxPolls
         /\ step.do \in RequestSteps /\ step.do \notin Writers
BY DEF Answered, gateway_request_fails, CallFails, poll_granted, poll_fails, Request, Frame, At,
       RequestSteps, Writers, IInv, CliTypeOK

LEMMA AnsweredKept ==
  ASSUME IInv, Answered
  PROVE  IInv'
<1>1. Asked
  BY RequestFrame, Performed DEF Answered
<1>2. Passes
  <2>1. pc' = pc + 1 /\ exit' = None
    BY RequestFrame DEF Answered, Go, Frame
  <2>2. Changes(step) => pc \in acked'
    BY RequestFrame, PlanFacts DEF Answered, Writes
  <2>3. step.do \in {"ask", "call"}
    BY DEF Answered, At
  <2>4. QED
    BY <2>1, <2>2, <2>3 DEF Passes, Guards
<1>3. QED
  BY <1>1, <1>2, RequestFrame, QuietKept

LEMMA RequestFailsKept ==
  ASSUME IInv, gateway_request_fails \/ CallFails
  PROVE  IInv'
<1>1. Asked
  BY RequestFrame, Performed DEF gateway_request_fails, CallFails
<1>2. Jumps \/ Ends
  <2>1. CASE CallFails
    <3>1. step.do = "call" /\ Fail(step.exits)
      BY <2>1 DEF CallFails, At
    <3>2. QED
      BY <3>1, RequestFrame, FailFacts, PlanFacts DEF Ends
  <2>2. CASE gateway_request_fails
    <3>1. step.do = "ask"
      BY <2>2 DEF gateway_request_fails, At
    <3>2. CASE \E status \in {"unauthorized", "forbidden", "rejected"} :
                 /\ Fail({exit_code_for_http_status[status]})
                 /\ UNCHANGED performed
      <4>1. PICK c \in {1, 2, 3} : Fail({c}) /\ performed' = performed
        BY <3>2 DEF exit_code_for_http_status
      <4>2. {c} \subseteq ExitCodes \ {0}
        BY DEF ExitCodes
      <4>3. Jumps \/ (step.group = None /\ pc' = pc /\ exit' \in ExitCodes \ {0})
        BY <2>2, <4>1, <4>2, RequestFrame, FailFacts
      <4>4. QED
        BY <3>1, <4>1, <4>3 DEF Ends
    <3>3. CASE Fail({exit_code_for_http_status.unknown, 1})
      <4>1. Fail({5, 1}) /\ {5, 1} \subseteq ExitCodes \ {0}
        BY <3>3 DEF exit_code_for_http_status, ExitCodes
      <4>2. Jumps \/ (pc' = pc /\ exit' \in {5, 1} /\ exit' \in ExitCodes \ {0})
        BY <2>2, <4>1, RequestFrame, FailFacts
      <4>3. QED
        BY <4>2 DEF Ends
    <3>4. QED
      BY <2>2, <3>2, <3>3 DEF gateway_request_fails
  <2>3. QED
    BY <2>1, <2>2
<1>3. QED
  BY <1>1, <1>2, RequestFrame, QuietKept DEF Writers

LEMMA PollKept ==
  ASSUME IInv, poll_pending \/ poll_granted \/ poll_fails
  PROVE  IInv'
<1>1. CASE poll_pending
  <2>1. /\ Frame /\ Stays /\ files' = files /\ writing' = writing /\ performed' = performed
        /\ acked' = acked /\ step.do = "poll"
    BY <1>1 DEF poll_pending, Frame, Stays, At, IInv, CliTypeOK
  <2>2. polls' \in 0 .. MaxPolls
    BY <1>1, MaxPollsAssumption DEF poll_pending, IInv, CliTypeOK
  <2>3. QED
    BY <2>1, <2>2, LocalAsked, QuietKept DEF Writers
<1>2. CASE poll_granted
  <2>1. Asked
    BY <1>2, RequestFrame DEF poll_granted, Asked, At, IInv, CliTypeOK
  <2>2. Passes
    BY <1>2, RequestFrame DEF poll_granted, Passes, Guards, Go, Frame, At
  <2>3. QED
    BY <1>2, <2>1, <2>2, RequestFrame, QuietKept
<1>3. CASE poll_fails
  <2>1. Asked /\ step.do = "poll"
    BY <1>3, RequestFrame DEF poll_fails, Asked, At, IInv, CliTypeOK
  <2>2. Fail({1}) \/ Fail({2})
    BY <1>3 DEF poll_fails
  <2>3. {1} \subseteq ExitCodes \ {0} /\ {2} \subseteq ExitCodes \ {0}
    BY DEF ExitCodes
  <2>4. Jumps \/ Ends
    BY <1>3, <2>1, <2>2, <2>3, RequestFrame, FailFacts DEF Ends
  <2>5. QED
    BY <1>3, <2>1, <2>4, RequestFrame, QuietKept DEF Writers
<1>4. QED
  BY <1>1, <1>2, <1>3

(* Files. *)
LEMMA FileFrame ==
  ASSUME IInv, write_atomic_file \/ OpenFile \/ FillFile \/ WriteFails
  PROVE  /\ Frame /\ polls' \in 0 .. MaxPolls /\ performed' = performed /\ acked' = acked /\ Asked
         /\ step.do \in Writers /\ step.do \notin RequestSteps \union Guards \union {"confirm"}
         /\ step.on \in DOMAIN files /\ files[step.on] \in Contents
<1>1. /\ Frame /\ polls' = polls /\ performed' = performed /\ acked' = acked
      /\ step.do \in Writers
  BY DEF write_atomic_file, OpenFile, FillFile, WriteFails, Local, Frame, At, Writers, IInv,
         CliTypeOK
<1>2. step.on \in On(steps, FileSteps)
  BY <1>1, PlanFacts DEF On, FileSteps, Writers
<1>3. QED
  BY <1>1, <1>2, LocalAsked DEF IInv, CliTypeOK, Writers, RequestSteps, Guards

(* A step that writes over its file v, which keeps what is required whole. *)
LEMMA FilledKept ==
  ASSUME IInv, Frame, Asked, Passes, step.do \in Writers, performed' = performed, acked' = acked,
         polls' \in 0 .. MaxPolls, writing' = None, step.on \in DOMAIN files,
         NEW v \in {"torn", "new"}, files' = [files EXCEPT ![step.on] = v],
         v = "torn" => step.do = "append" /\ writing = "torn"
  PROVE  IInv'
<1>1. Leaves /\ Touches /\ v \in Contents /\ exit' = None
  BY DEF Leaves, Touches, Contents, Passes
<1>2. CliTypeOK' /\ ConsentInv'
  BY <1>1, TypeKept, ConsentKept
<1>3. PlaceInv'
  BY <1>1, PlaceKept
<1>4. UntouchedInv'
  BY <1>1, UntouchedKept
<1>5. ASSUME NEW i \in Required(Writers), found[steps[i].on] # "torn"
      PROVE  files'[steps[i].on] # "torn"
  <2>1. /\ files[steps[i].on] = "torn" => writing # None /\ step.on = steps[i].on
        /\ writing # None /\ step.on = steps[i].on => writing # "torn"
    BY <1>5 DEF IInv, TornInv, Frame
  <2>2. writing = "torn" => writing # None
    BY NoneAssumption DEF Contents
  <2>3. steps[i].on \in DOMAIN files
    BY <1>5 DEF Required, On, FileSteps, Writers, IInv, CliTypeOK
  <2>4. QED
    BY <2>1, <2>2, <2>3
<1>6. TornInv'
  BY <1>5, RequiredKept DEF TornInv, Frame
<1>7. ASSUME NEW i \in DOMAIN steps, i < pc', steps[i].group = None
      PROVE  Did(i)'
  <2>1. i <= pc /\ pc' = pc + 1
    BY <1>7, PlanFacts DEF Passes
  <2>2. steps[i].do \in Writers => steps[i].on \in DOMAIN files
    BY <1>7 DEF On, FileSteps, Writers, IInv, CliTypeOK
  <2>3. CASE i = pc
    <3>1. v = "new" \/ found[step.on] = "torn"
      <4>1. pc \in Required(Writers)
        BY <1>7, <2>3, PlanFacts DEF Required
      <4>2. writing = "torn" => writing # None
        BY NoneAssumption DEF Contents
      <4>3. QED
        BY <4>1, <4>2, PlanFacts DEF IInv, TornInv, Frame
    <3>2. QED
      BY <2>3, <3>1, PlanFacts DEF Did, Frame, Writers, RequestSteps
  <2>4. CASE i < pc
    <3>1. Did(i)
      BY <1>7, <2>4 DEF IInv, DoneInv, Frame
    <3>2. CASE steps[i].do \notin Writers
      BY <3>1, <3>2 DEF Did, Frame, Writers, Changes
    <3>3. CASE steps[i].do \in Writers /\ steps[i].on # step.on
      BY <2>2, <3>1, <3>3 DEF Did, Rewriting, Frame, Writers, RequestSteps
    <3>4. CASE steps[i].do \in Writers /\ steps[i].on = step.on
      <4>1. CASE v = "new"
        BY <3>4, <4>1 DEF Did, Frame, Writers, RequestSteps
      <4>2. CASE v = "torn"
        <5>1. writing = "torn" /\ writing # None
          BY <4>2, NoneAssumption DEF Contents
        <5>2. files[step.on] = "torn"
          BY <5>1 DEF IInv, PlaceInv, Frame
        <5>3. steps[i].do = "append" /\ found[steps[i].on] = "torn"
          BY <3>1, <3>4, <5>1, <5>2 DEF Did, Rewriting, Writers
        <5>4. QED
          BY <5>3 DEF Did, Frame, RequestSteps
      <4>3. QED
        BY <4>1, <4>2
    <3>5. QED
      BY <3>2, <3>3, <3>4
  <2>5. QED
    BY <2>1, <2>3, <2>4, PlanFacts
<1>8. DoneInv'
  BY <1>7 DEF DoneInv, Frame
<1>9. QED
  BY <1>2, <1>3, <1>4, <1>6, <1>8 DEF IInv

LEMMA write_atomic_fileKept ==
  ASSUME IInv, write_atomic_file
  PROVE  IInv'
<1>1. step.do = "save" /\ writing' = writing /\ writing = None
  BY FileFrame, NotWriting DEF write_atomic_file, At
<1>2. CASE files' = [files EXCEPT ![step.on] = "new"] /\ Go
  <2>1. Passes
    BY <1>1, <1>2, FileFrame DEF Passes, Go, Frame
  <2>2. QED
    BY <1>1, <1>2, <2>1, FileFrame, FilledKept
<1>3. CASE files' = files /\ Fail(step.exits)
  <2>1. Jumps \/ Ends
    BY <1>3, FileFrame, FailFacts, PlanFacts DEF Ends
  <2>2. QED
    BY <1>1, <1>3, <2>1, FileFrame, QuietKept
<1>4. QED
  BY <1>2, <1>3 DEF write_atomic_file

LEMMA FillFileKept ==
  ASSUME IInv, FillFile
  PROVE  IInv'
<1> DEFINE v == IF step.do = "append" /\ writing = "torn" THEN "torn" ELSE "new"
<1>1. Passes /\ writing' = None /\ files' = [files EXCEPT ![step.on] = v]
  BY FileFrame DEF FillFile, Passes, Go, Frame
<1>2. v \in {"torn", "new"} /\ (v = "torn" => step.do = "append" /\ writing = "torn")
  OBVIOUS
<1> HIDE DEF v
<1>3. QED
  BY <1>1, <1>2, FileFrame, FilledKept

LEMMA WriteFailsKept ==
  ASSUME IInv, WriteFails
  PROVE  IInv'
<1>1. writing' = None /\ files' = files /\ Fail(step.exits)
  BY DEF WriteFails
<1>2. Jumps \/ Ends
  BY <1>1, FileFrame, FailFacts, PlanFacts DEF Ends
<1>3. QED
  BY <1>1, <1>2, FileFrame, QuietKept

LEMMA OpenFileKept ==
  ASSUME IInv, OpenFile
  PROVE  IInv'
<1>1. /\ writing = None /\ writing' = files[step.on] /\ files' = [files EXCEPT ![step.on] = "torn"]
      /\ Stays /\ step.do \in {"write", "append"}
  BY FileFrame DEF OpenFile, Stays, Frame, At
<1>2. /\ Leaves /\ Touches /\ writing' \in Contents \union {None} /\ exit' = None
      /\ writing' # None /\ step' = step
  BY <1>1, FileFrame, NoneAssumption DEF Leaves, Touches, Contents, Stays, step, Frame
<1>3. CliTypeOK' /\ ConsentInv'
  BY <1>2, FileFrame, TypeKept, ConsentKept
<1>4. PlaceInv'
  <2>1. At({"write", "append"})' /\ files'[step'.on] = "torn"
    BY <1>1, <1>2, FileFrame DEF At, Frame, Stays
  <2>2. QED
    BY <1>2, <2>1, FileFrame, PlaceKept
<1>5. UntouchedInv'
  BY <1>2, FileFrame, UntouchedKept
<1>6. ASSUME NEW i \in Required(Writers), found[steps[i].on] # "torn"
      PROVE  /\ files'[steps[i].on] = "torn" => step.on = steps[i].on
             /\ step.on = steps[i].on => writing' # "torn"
  <2>1. files[steps[i].on] # "torn"
    BY <1>1, <1>6, FileFrame DEF IInv, TornInv, Frame
  <2>2. steps[i].on \in DOMAIN files
    BY <1>6 DEF Required, On, FileSteps, Writers, IInv, CliTypeOK
  <2>3. QED
    BY <1>1, <2>1, <2>2
<1>7. TornInv'
  BY <1>2, <1>6, FileFrame, RequiredKept DEF TornInv, Frame
<1>8. ASSUME NEW i \in DOMAIN steps, i < pc, steps[i].group = None
      PROVE  Did(i)'
  <2>1. Did(i) /\ ~Rewriting(i)
    BY <1>1, <1>8, FileFrame, NoneAssumption DEF IInv, DoneInv, Frame, Rewriting, Contents
  <2>2. steps[i].do \in Writers => steps[i].on \in DOMAIN files
    BY <1>8 DEF On, FileSteps, Writers, IInv, CliTypeOK
  <2>3. CASE steps[i].do \notin Writers
    BY <2>1, <2>3, FileFrame DEF Did, Frame, Writers, Changes
  <2>4. CASE steps[i].do \in Writers /\ steps[i].on # step.on
    BY <1>1, <2>1, <2>2, <2>4, FileFrame DEF Did, Frame, Writers, RequestSteps
  <2>5. CASE steps[i].do \in Writers /\ steps[i].on = step.on
    <3>1. files[step.on] = "new" => Rewriting(i)'
      BY <1>1, <1>2, <2>5, FileFrame DEF Rewriting, Frame, Stays
    <3>2. QED
      BY <2>1, <2>5, <3>1, FileFrame DEF Did, Frame, Writers, RequestSteps
  <2>6. QED
    BY <2>3, <2>4, <2>5
<1>9. DoneInv'
  BY <1>1, <1>8, FileFrame DEF DoneInv, Frame, Stays
<1>10. QED
  BY <1>3, <1>4, <1>5, <1>7, <1>9 DEF IInv

(* Behind the last step only the exit code is still open. *)
LEMMA OutputKept ==
  ASSUME IInv, exit = None, pc = Len(steps) + 1, exit' \in {0, 1, 130},
         UNCHANGED <<command, steps, flags, agreed, found, files, pc, performed, acked, writing, polls>>
  PROVE  IInv'
<1>1. /\ Len(steps) \in Nat /\ DOMAIN steps = 1 .. Len(steps) /\ pc \notin DOMAIN steps
      /\ exit' # None /\ exit' \in ExitCodes
  BY NoneAssumption DEF IInv, PlaceInv, Orderly, ExitCodes
<1>2. CliTypeOK'
  BY <1>1 DEF IInv, CliTypeOK, On
<1>3. PlaceInv'
  BY <1>1 DEF IInv, PlaceInv
<1>4. ConsentInv'
  BY <1>1 DEF IInv, ConsentInv, ConsentFirst, MayOverwrite, Guards, Spares
<1>5. TornInv'
  BY <1>1 DEF IInv, TornInv, Required, step
<1>6. DoneInv'
  BY <1>1 DEF IInv, DoneInv, Did, Rewriting, Changes
<1>7. UntouchedInv'
  <2>1. exit' \notin {2, 3, 4}
    OBVIOUS
  <2>2. On(steps, {"call", "poll"})' = On(steps, {"call", "poll"})
    BY DEF On
  <2>3. (\A i \in performed : Changes(steps[i])) => \A i \in performed' : Changes(steps'[i])
    BY DEF Changes
  <2>4. QED
    BY <1>1, <2>1, <2>2, <2>3 DEF IInv, UntouchedInv, RefusedMeansUntouched, Changes
<1>8. QED
  BY <1>2, <1>3, <1>4, <1>5, <1>6, <1>7 DEF IInv

LEMMA InterruptKept ==
  ASSUME IInv, Interrupt
  PROVE  IInv'
<1>1. CASE pc \in DOMAIN steps
  <2>1. Frame /\ files' = files /\ writing' = writing /\ polls' \in 0 .. MaxPolls /\ acked' = acked
    BY <1>1 DEF Interrupt, Frame, IInv, CliTypeOK
  <2>2. Asked
    BY <2>1, Performed DEF Interrupt
  <2>3. Ends
    BY DEF Interrupt, Ends, ExitCodes
  <2>4. QED
    BY <2>1, <2>2, <2>3, QuietKept
<1>2. CASE pc \notin DOMAIN steps
  <2>1. pc = Len(steps) + 1
    BY <1>2 DEF IInv, CliTypeOK, PlaceInv, Orderly
  <2>2. performed' = performed
    BY <1>2 DEF Interrupt, At
  <2>3. QED
    BY <2>1, <2>2, OutputKept DEF Interrupt
<1>3. QED
  BY <1>1, <1>2

LEMMA write_success_outputKept ==
  ASSUME IInv, write_success_output
  PROVE  IInv'
<1>1. exit' \in {0, 1}
  BY DEF write_success_output
<1>2. QED
  BY <1>1, OutputKept DEF write_success_output, Local

-----------------------------------------------------------------------------
LEMMA InitInv ==
  ASSUME Init
  PROVE  IInv
<1>1. /\ command \in STRING /\ Orderly(steps) /\ Len(steps) \in Nat /\ DOMAIN steps = 1 .. Len(steps)
      /\ FailuresSay(steps)
  BY PlanAssumption DEF Init, Orderly
<1>2. CliTypeOK
  <2>1. flags \subseteq {"--yes", "--force", "--json", "--non-interactive"}
    BY DEF Init, Relevant
  <2>2. QED
    BY <1>1, <2>1, MaxPollsAssumption DEF Init, CliTypeOK, FailuresSay
<1>3. PlaceInv
  BY <1>1, NoneAssumption DEF Init, PlaceInv, ExitCodes
<1>4. ConsentInv
  BY <1>1 DEF Init, ConsentInv, ConsentFirst
<1>5. TornInv
  BY DEF Init, TornInv
<1>6. DoneInv
  BY <1>1 DEF Init, DoneInv
<1>7. UntouchedInv
  BY NoneAssumption DEF Init, UntouchedInv, RefusedMeansUntouched, ExitCodes
<1>8. QED
  BY <1>2, <1>3, <1>4, <1>5, <1>6, <1>7 DEF IInv

LEMMA NextInv ==
  ASSUME IInv, [Next]_vars
  PROVE  IInv'
<1>1. CASE UNCHANGED vars
  <2>1. /\ command' = command /\ steps' = steps /\ flags' = flags /\ found' = found
        /\ agreed' = agreed /\ files' = files /\ pc' = pc /\ performed' = performed /\ acked' = acked
        /\ writing' = writing /\ polls' = polls /\ exit' = exit
    BY <1>1 DEF vars
  <2>2. CliTypeOK' /\ PlaceInv' /\ ConsentInv'
    BY <2>1 DEF IInv, CliTypeOK, PlaceInv, ConsentInv, ConsentFirst, On, At, step, Past,
        MayOverwrite, Guards, Spares
  <2>3. TornInv' /\ DoneInv' /\ UntouchedInv'
    BY <2>1
    DEF IInv, TornInv, Required, DoneInv, Did, Rewriting, Changes, step, UntouchedInv,
        RefusedMeansUntouched, On
  <2>4. QED
    BY <2>2, <2>3 DEF IInv
<1>2. CASE \/ Pass \/ Refuse \/ require_confirmation \/ refuse_existing \/ refuse_taken
           \/ confirm_overwrite \/ ReadFile \/ LeaveServer
  BY <1>2, LocalKept
<1>3. CASE Answered
  BY <1>3, AnsweredKept
<1>4. CASE gateway_request_fails \/ CallFails
  BY <1>4, RequestFailsKept
<1>5. CASE poll_pending \/ poll_granted \/ poll_fails
  BY <1>5, PollKept
<1>6. CASE write_atomic_file
  BY <1>6, write_atomic_fileKept
<1>7. CASE OpenFile
  BY <1>7, OpenFileKept
<1>8. CASE FillFile
  BY <1>8, FillFileKept
<1>9. CASE WriteFails
  BY <1>9, WriteFailsKept
<1>10. CASE write_success_output
  BY <1>10, write_success_outputKept
<1>11. CASE Interrupt
  BY <1>11, InterruptKept
<1>12. QED
  BY <1>1, <1>2, <1>3, <1>4, <1>5, <1>6, <1>7, <1>8, <1>9, <1>10, <1>11 DEF Next, Advance

(***************************************************************************)
(* The invariant holds in every state of every run of a command.           *)
(***************************************************************************)
THEOREM Inductive == Spec => []IInv
<1>1. Init => IInv
  BY InitInv
<1>2. IInv /\ [Next]_vars => IInv'
  BY NextInv
<1>3. QED
  BY <1>1, <1>2, PTL DEF Spec

(***************************************************************************)
(* The state has its type: an absorbed failure (Fail) continues inside the *)
(* plan or at its output, whatever the try blocks are.                     *)
(***************************************************************************)
THEOREM TypeCorrect == Spec => []CliTypeOK
<1>1. IInv => CliTypeOK
  BY DEF IInv
<1>2. QED
  BY <1>1, Inductive, PTL

(***************************************************************************)
(* Nothing is destroyed at the Gateway without --yes, and what a guard of  *)
(* _write_file_if_allowed, of the env file or of package.json spares is    *)
(* not touched without --force or a yes to the prompt of run_project_init. *)
(***************************************************************************)
THEOREM Consent == Spec => []ConsentFirst
<1>1. IInv => ConsentFirst
  BY DEF IInv, ConsentInv
<1>2. QED
  BY <1>1, Inductive, PTL

(***************************************************************************)
(* Exit code 0 means that every required write was answered and every      *)
(* required file is whole (write_success_output comes last).               *)
(***************************************************************************)
THEOREM ExitZero == Spec => []ExitZeroDone
<1>1. IInv => ExitZeroDone
  <2> SUFFICES ASSUME IInv, exit = 0
               PROVE  ExitZeroDone
    BY DEF ExitZeroDone
  <2>1. /\ DOMAIN steps = 1 .. Len(steps) /\ Len(steps) \in Nat /\ pc = Len(steps) + 1
    BY DEF IInv, PlaceInv, Orderly
  <2>2. \A i \in DOMAIN steps : steps[i].group = None => Did(i) /\ ~Rewriting(i)
    BY <2>1 DEF IInv, DoneInv, Rewriting
  <2>3. QED
    BY <2>2 DEF ExitZeroDone, Required, Did, RequestSteps
<1>2. QED
  BY <1>1, Inductive, PTL

(***************************************************************************)
(* A command that only uses gateway_request and ends with 2, 3 or 4 has    *)
(* changed nothing, neither at the Gateway nor on disk.                    *)
(***************************************************************************)
THEOREM Refused == Spec => []RefusedMeansUntouched
<1>1. IInv => RefusedMeansUntouched
  BY DEF IInv, UntouchedInv, RefusedMeansUntouched
<1>2. QED
  BY <1>1, Inductive, PTL
=============================================================================
