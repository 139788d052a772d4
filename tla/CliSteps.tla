------------------------------ MODULE CliSteps ------------------------------
(***************************************************************************)
(* The kinds of step a command of `paybond` is made of.  A command is a    *)
(* sequence of steps; a step is a record:                                  *)
(*                                                                         *)
(*   do     what kind of step it is                                        *)
(*   on     the endpoint asked or the file touched                         *)
(*   effect what the Gateway does for it: "read", "write" or "destroy"     *)
(*   exits  the exit codes with which it can end the command               *)
(*   group  None, the name of the try block that absorbs its failure, or   *)
(*          "handler" when the failure makes the handler return early      *)
(*                                                                         *)
(* Exit codes: 0 success, 1 failure, 2 auth, 3 forbidden, 4 confirmation,  *)
(* 5 gateway, 6 environment, 130 interrupt (cli/core.py).                  *)
(***************************************************************************)
EXTENDS Naturals, Sequences, Optional

ExitCodes == 0..6 \union {130}

Step(do, on, effect, exits) ==
  [do |-> do, on |-> on, effect |-> effect, exits |-> exits, group |-> None]

(***************************************************************************)
(* Local work: arguments, input files, an optional package, a verdict on   *)
(* what was gathered.  It goes on, or ends the command.                    *)
(***************************************************************************)
Check(exits) == Step("check", None, None, exits)

Args == Check({1})                     \* CliError's default exit code

Argparse == Check({1, 2})              \* argparse leaves with 2

Body == Check({1})                     \* --body <file> or --stdin

Key == Check({1, 2})                   \* no key: 2; unreadable env or config file: 1

Confirm == Step("confirm", None, None, {4})

(***************************************************************************)
(* One request through gateway_request, which resolves the key and sends   *)
(* once.                                                                   *)
(***************************************************************************)
Ask(on, effect) == <<Key, Step("ask", on, effect, {1, 2, 3, 5})>>

Get(on) == Ask(on, "read")

Post(on) == Ask(on, "write")

(***************************************************************************)
(* A method of the SDK's clients, which sends again on its own; what is    *)
(* not an HTTP status (a connection that fails, an answer of the wrong     *)
(* shape) ends the command with 1.  A handler may map errors to codes of   *)
(* its own.                                                                *)
(***************************************************************************)
CallExit(on, effect, exits) == <<Step("call", on, effect, exits)>>

Call(on, effect) == CallExit(on, effect, {1, 2, 3, 5})

(***************************************************************************)
(* Paybond.open: the key, then the principal; a principal of the wrong     *)
(* shape or environment has no status and ends the command with 2.         *)
(***************************************************************************)
Session == <<Key>> \o Call("principal", "read") \o <<Check({2})>>

(* A live key without --production is refused before anything is sent.     *)
AgentSession == <<Key, Args>> \o Call("principal", "read") \o <<Check({2})>>

(***************************************************************************)
(* Files.  Guard refuses a file that exists unless it may be overwritten;  *)
(* GuardEntry merges into a file and refuses only one that is "taken": it  *)
(* already defines the entry the command adds.  Prompt asks whether file f *)
(* may be overwritten.  Save replaces the file at once, Write truncates it *)
(* and fills it, AppendTo adds to its end; Load needs a whole file, Peek   *)
(* takes an absent one for empty.                                          *)
(***************************************************************************)
Guard(f, exits) == Step("guard", f, None, exits)

GuardEntry(f) == Step("entry", f, None, {1})

Prompt(f) == Step("prompt", f, None, {1})

Save(f) == Step("save", f, None, {1})

Write(f) == Step("write", f, None, {1})

AppendTo(f) == Step("append", f, None, {1})

Load(f) == Step("load", f, None, {1})

Peek(f) == Step("peek", f, None, {1})

(* _write_file_if_allowed and its like. *)
Create(f) == <<Guard(f, {1}), Write(f)>>

(* The device-token poll: sleep, ask, go on while the answer is pending.   *)
Poll(on) == Step("poll", on, "write", {1, 2})

(* A server or a prompt that runs until it is interrupted or left.         *)
Serve == Step("serve", None, None, {1})

(* A step that always ends the command. *)
Fails == Step("fails", None, None, {1})

(* asyncio.run called by a handler that already runs in main's event loop. *)
AsyncioRun == Fails

(* try: steps ... except: the failure is reported in the output.           *)
Try(name, steps) == [i \in DOMAIN steps |-> [steps[i] EXCEPT !.group = name]]

TryGet(on) == Try(on, Get(on))

(* A read whose every failure is reported with one of the handler's codes. *)
GetOr(on, exits) == <<Check(exits)>> \o CallExit(on, "read", exits)

(* The handler returns what it has when this fails. *)
Enough == Try("handler", <<Check({1})>>)

-----------------------------------------------------------------------------
On(steps, kinds) == {steps[i].on : i \in {j \in DOMAIN steps : steps[j].do \in kinds}}

FileSteps == {"guard", "entry", "prompt", "save", "write", "append", "load", "peek"}

Guards == {"guard", "entry"}

(* The contents a guard of each kind does not let be replaced unasked.     *)
Spares(kind) ==
  IF kind = "guard" THEN {"old", "taken", "torn", "new"} ELSE {"taken", "torn"}

RequestSteps == {"ask", "call", "poll"}

Writers == {"save", "write", "append"}

Changes(step) == step.effect \in {"write", "destroy"}

-----------------------------------------------------------------------------
(***************************************************************************)
(* How a handler orders its steps p: what the properties of Cli rest on.   *)
(***************************************************************************)

(* A step that fails has a code, and it is not success.                    *)
FailuresSay(p) == \A i \in DOMAIN p : p[i].exits \subseteq ExitCodes \ {0}

(* What is destroyed is confirmed before, outside of any try block.        *)
ConfirmedFirst(p) == \A i \in DOMAIN p :
  p[i].effect = "destroy" =>
    \E j \in 1 .. i - 1 : p[j].do = "confirm" /\ p[j].group = None

(* A file that is guarded anywhere is guarded so before each write, in the *)
(* same try block or both outside of one.                                  *)
GuardedFirst(p) == \A i \in DOMAIN p, guard \in Guards :
  p[i].do \in Writers /\ p[i].on \in On(p, {guard}) =>
    \E j \in 1 .. i - 1 :
      /\ p[j].do = guard /\ p[j].on = p[i].on
      /\ \A k \in j .. i : p[k].group = p[j].group

(* The user is asked before anything is written.                           *)
PromptedFirst(p) == \A i \in DOMAIN p :
  p[i].do = "prompt" => \A k \in 1 .. i - 1 : p[k].do \notin Writers

(* A handler that returns early leaves out nothing it has to do.           *)
ReturnsLate(p) == \A i, k \in DOMAIN p :
  p[i].group = "handler" /\ i < k /\ p[k].group = None =>
    p[k].do \notin Writers /\ (p[k].do \in RequestSteps => ~Changes(p[k]))

(* No try block swallows a failed write to a file that has to be whole.    *)
WritesReported(p) == \A i, k \in DOMAIN p :
  p[i].do \in Writers /\ p[i].group = None /\ p[k].do \in Writers /\ p[k].on = p[i].on =>
    p[k].group = None

(* Where only gateway_request is used, all that can refuse comes before    *)
(* all that changes something.                                             *)
RefusesFirst(p) == On(p, {"call", "poll"}) = {} =>
  \A i \in DOMAIN p :
    p[i].do = "confirm"
      \/ (p[i].group = None /\ (p[i].do = "ask" \/ p[i].exits \intersect {2, 3, 4} # {})) =>
      /\ p[i].do \notin Writers
      /\ \A k \in 1 .. i - 1 : p[k].do \notin Writers /\ ~Changes(p[k])

Orderly(p) ==
  /\ Len(p) \in Nat /\ DOMAIN p = 1 .. Len(p)
  /\ FailuresSay(p) /\ ConfirmedFirst(p) /\ GuardedFirst(p) /\ PromptedFirst(p)
  /\ ReturnsLate(p) /\ WritesReported(p) /\ RefusesFirst(p)
=============================================================================
