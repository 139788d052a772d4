-------------------------------- MODULE Cli --------------------------------
(***************************************************************************)
(* One run of `paybond`: cli/router.py parses the command line, runs the   *)
(* handler's steps (CliRouter has them), writes the output and gives an    *)
(* exit code.  Requests may be refused, fail or go unanswered after the    *)
(* Gateway did what they ask; files may already be there, or be left torn  *)
(* by an earlier run; the user may interrupt at any point.                 *)
(***************************************************************************)
EXTENDS CliSteps

CONSTANTS
  Plan,        \* the steps of each command
  MaxPolls     \* device-token polls before the device code expires

ASSUME PlanAssumption == \A c \in DOMAIN Plan : c \in STRING /\ Orderly(Plan[c])

ASSUME MaxPollsAssumption == MaxPolls \in Nat

(* The commands whose output --json and --jq can shape. *)
supports_automation_output ==
  {"config_list", "config_get", "keys_list", "intents_list", "intents_get", "receipts_get",
   "mcp_scopes_list", "mcp_tools", "audit_exports_list", "audit_exports_get", "whoami",
   "a2a_contracts", "a2a_card", "policy_presets_list", "plaid_banks_list", "plaid_banks_get"}

VARIABLES
  command,     \* the command being run
  steps,       \* its handler's steps
  flags,       \* the flags it was given, of those that matter to it
  agreed,      \* the files the user said may be overwritten
  found,       \* its files as it found them
  files,       \* its files now
  pc,          \* the step it is at; after the last one, the output
  performed,   \* the write steps the Gateway performed
  acked,       \* the write steps whose answer arrived
  writing,     \* what the file being written in place held, or None
  polls,       \* device-token polls answered "pending"
  exit         \* the exit code, None while the command runs

vars == <<command, steps, flags, agreed, found, files, pc, performed, acked, writing, polls, exit>>

(* "old" is as the user left it, "taken" if it also defines the entry that *)
(* the command would add.                                                  *)
Contents == {"absent", "old", "taken", "torn", "new"}
ASSUME NoneAssumption == None \notin ExitCodes /\ None \notin Contents

step == steps[pc]

At(kinds) == exit = None /\ pc \in DOMAIN steps /\ step.do \in kinds

(***************************************************************************)
(* Files that one command writes in place and another parses can be found  *)
(* torn; a file that the command never looks at before it writes is there. *)
(***************************************************************************)
Starts(f) ==
  IF f \notin On(steps, Guards \union {"load", "peek"}) THEN {"old"}
  ELSE {"absent", "old"} \union
       (IF f \in On(steps, {"entry"}) THEN {"taken"} ELSE {}) \union
       (IF f \in {"config", "trace", "dev_trace", "package_json"} THEN {"torn"} ELSE {})

Relevant ==
  {"--json"} \union (IF On(steps, {"confirm"}) = {} THEN {} ELSE {"--yes"})
             \union (IF On(steps, Guards) = {} THEN {} ELSE {"--force"})
             \union (IF On(steps, {"prompt"}) = {} THEN {} ELSE {"--non-interactive"})

Init ==
  /\ command \in DOMAIN Plan
  /\ steps = Plan[command]
  /\ flags \in SUBSET Relevant
  /\ agreed = {}
  /\ found \in [On(steps, FileSteps) -> Contents]
  /\ \A f \in DOMAIN found : found[f] \in Starts(f)
  /\ files = found
  /\ pc = 1
  /\ performed = {}
  /\ acked = {}
  /\ writing = None
  /\ polls = 0
  /\ exit = None

Go == pc' = pc + 1 /\ UNCHANGED exit

(* A slip: one step too far behind the handler's own block. *)
AfterBlockTwice(g) ==
  IF g = "handler" THEN Len(steps) + 2
  ELSE CHOOSE j \in pc + 1 .. Len(steps) + 1 :
         /\ j \in DOMAIN steps => steps[j].group # g
         /\ \A k \in pc + 1 .. j - 1 : steps[k].group = g

(* Where the try block named g continues; the handler's own is the output. *)
AfterBlock(g) ==
  IF g = "handler" THEN Len(steps) + 1
  ELSE CHOOSE j \in pc + 1 .. Len(steps) + 1 :
         /\ j \in DOMAIN steps => steps[j].group # g
         /\ \A k \in pc + 1 .. j - 1 : steps[k].group = g

(* An error leaves the try block, or the command with one of the codes. *)
Fail(codes) ==
  IF step.group = None
  THEN exit' \in codes /\ UNCHANGED pc
  ELSE pc' = AfterBlock(step.group) /\ UNCHANGED exit

Request == UNCHANGED <<command, steps, flags, agreed, found, files, writing, polls>>

Local == UNCHANGED <<command, steps, flags, agreed, found, performed, acked, polls>>

(* The local `force` of a handler: a yes about one file sets it for all.   *)
MayOverwrite == "--force" \in flags \/ agreed # {}

(* What is recorded of a request the Gateway performed. *)
Writes(i) == {j \in {i} : Changes(steps[j])}

-----------------------------------------------------------------------------
Pass == At({"check"}) /\ Go /\ UNCHANGED <<files, writing>> /\ Local

Refuse ==
  /\ At({"check", "fails"})
  /\ Fail(step.exits)
  /\ UNCHANGED <<files, writing>> /\ Local

require_confirmation ==
  /\ At({"confirm"})
  /\ IF "--yes" \in flags THEN Go ELSE exit' = 4 /\ UNCHANGED pc
  /\ UNCHANGED <<files, writing>> /\ Local

(* A slip: only the first file of a scaffold is guarded. *)
GuardsFirstFile ==
  /\ At({"guard"})
  /\ IF files[step.on] = "absent" \/ MayOverwrite
         \/ \E i \in 1 .. pc - 1 : steps[i].do = "guard"
     THEN Go ELSE Fail(step.exits)
  /\ UNCHANGED <<files, writing>> /\ Local

refuse_existing ==
  /\ At({"guard"})
  /\ IF files[step.on] = "absent" \/ MayOverwrite THEN Go ELSE Fail(step.exits)
  /\ UNCHANGED <<files, writing>> /\ Local

(* Replacing an entry needs force; a file that cannot be read is no file   *)
(* to merge into, with force or without.                                   *)
refuse_taken ==
  /\ At({"entry"})
  /\ IF files[step.on] = "torn" \/ (files[step.on] = "taken" /\ ~MayOverwrite)
     THEN Fail(step.exits) ELSE Go
  /\ UNCHANGED <<files, writing>> /\ Local

(* Asked only when the file is there, force is not given and a user can    *)
(* answer; any answer but yes ends the command.                            *)
confirm_overwrite ==
  /\ At({"prompt"})
  /\ IF files[step.on] = "absent" \/ MayOverwrite \/ "--non-interactive" \in flags
     THEN Go /\ UNCHANGED agreed
     ELSE \/ agreed' = agreed \union {step.on} /\ Go
          \/ Fail(step.exits) /\ UNCHANGED agreed
  /\ UNCHANGED <<command, steps, flags, found, files, performed, acked, writing, polls>>

-----------------------------------------------------------------------------
Answered ==
  /\ At({"ask", "call"})
  /\ performed' = performed \union Writes(pc)
  /\ acked' = acked \union Writes(pc)
  /\ Go
  /\ Request

(* A slip: what is not known is taken for a refusal. *)
ForbiddenByDefault ==
  [unauthorized |-> 2, forbidden |-> 3, rejected |-> 1, unknown |-> 3]

(* 401 and 403 are refusals, as are 404, 410 and the other 4xx; nothing is *)
(* known after a 429 of a proxy, a 5xx, a lost connection or an answer     *)
(* that is no JSON.                                                        *)
exit_code_for_http_status ==
  [unauthorized |-> 2, forbidden |-> 3, rejected |-> 1, unknown |-> 5]

(* gateway_request sends once; a handler that chokes on the answer: 1. *)
gateway_request_fails ==
  /\ At({"ask"})
  /\ \/ \E status \in {"unauthorized", "forbidden", "rejected"} :
          /\ Fail({exit_code_for_http_status[status]})
          /\ UNCHANGED performed
     \/ /\ Fail({exit_code_for_http_status.unknown, 1})
        /\ performed' \in {performed, performed \union Writes(pc)}
  /\ UNCHANGED acked
  /\ Request

(* A client of the SDK may have sent before: any code may follow an effect. *)
CallFails ==
  /\ At({"call"})
  /\ Fail(step.exits)
  /\ performed' \in {performed, performed \union Writes(pc)}
  /\ UNCHANGED acked
  /\ Request

(* A slip: the deadline is pushed back with every pending answer. *)
PollForever ==
  /\ At({"poll"})
  /\ polls' = (polls + 1) % (MaxPolls + 1)
  /\ UNCHANGED <<command, steps, flags, agreed, found, files, pc, performed, acked, writing,
                 exit>>

poll_pending ==
  /\ At({"poll"})
  /\ polls < MaxPolls
  /\ polls' = polls + 1
  /\ UNCHANGED <<command, steps, flags, agreed, found, files, pc, performed, acked, writing,
                 exit>>

poll_granted ==
  /\ At({"poll"})
  /\ performed' = performed \union {pc}
  /\ acked' = acked \union {pc}
  /\ Go
  /\ Request

(* Denied or expired: 2.  An answer lost or garbled: 1, and with it the key. *)
poll_fails ==
  /\ At({"poll"})
  /\ \/ Fail({2}) /\ UNCHANGED performed
     \/ Fail({1}) /\ performed' \in {performed, performed \union {pc}}
  /\ UNCHANGED acked
  /\ Request

-----------------------------------------------------------------------------
(* A slip: a temporary file that could not be written is not reported. *)
SaveUnchecked ==
  /\ At({"save"})
  /\ files' \in {files, [files EXCEPT ![step.on] = "new"]}
  /\ Go
  /\ UNCHANGED writing /\ Local

write_atomic_file ==
  /\ At({"save"})
  /\ \/ files' = [files EXCEPT ![step.on] = "new"] /\ Go
     \/ UNCHANGED files /\ Fail(step.exits)
  /\ UNCHANGED writing /\ Local

(* write_text, open("a"): the file is torn until everything is written. *)
OpenFile ==
  /\ At({"write", "append"}) /\ writing = None
  /\ writing' = files[step.on]
  /\ files' = [files EXCEPT ![step.on] = "torn"]
  /\ UNCHANGED <<pc, exit>> /\ Local

(* What is appended to a torn file does not mend it. *)
FillFile ==
  /\ At({"write", "append"}) /\ writing # None
  /\ files' = [files EXCEPT ![step.on] =
                 IF step.do = "append" /\ writing = "torn" THEN "torn" ELSE "new"]
  /\ writing' = None
  /\ Go /\ Local

(* The disk is full, the file is not ours. *)
WriteFails ==
  /\ At({"write", "append"})
  /\ writing' = None
  /\ Fail(step.exits)
  /\ UNCHANGED files /\ Local

ReadFile ==
  /\ At({"load", "peek"})
  /\ IF files[step.on] \in {"old", "taken", "new"} \/ (step.do = "peek" /\ files[step.on] = "absent")
     THEN Go ELSE Fail(step.exits)
  /\ UNCHANGED <<files, writing>> /\ Local

-----------------------------------------------------------------------------
(* The server is left by its user, or ends with an error. *)
LeaveServer ==
  /\ At({"serve"})
  /\ (Go \/ Fail(step.exits))
  /\ UNCHANGED <<files, writing>> /\ Local

(* The output is shaped after the handler has done its work. *)
write_success_output ==
  /\ exit = None /\ pc = Len(steps) + 1
  /\ exit' \in IF "--json" \notin flags THEN {0}
               ELSE IF command \in supports_automation_output THEN {0, 1} ELSE {1}
  /\ UNCHANGED <<pc, files, writing>> /\ Local

(* Ctrl-C: main gives 130, wherever the command was. *)
Interrupt ==
  /\ exit = None
  /\ exit' = 130
  /\ performed' \in {performed} \union
       (IF At(RequestSteps) THEN {performed \union Writes(pc)} ELSE {})
  /\ UNCHANGED <<command, steps, flags, agreed, found, files, pc, acked, writing, polls>>

Advance ==
  \/ Pass \/ Refuse \/ require_confirmation
  \/ refuse_existing \/ refuse_taken \/ confirm_overwrite
  \/ Answered \/ gateway_request_fails \/ CallFails
  \/ poll_pending \/ poll_granted \/ poll_fails
  \/ write_atomic_file \/ OpenFile \/ FillFile \/ WriteFails \/ ReadFile
  \/ write_success_output

Next == Advance \/ LeaveServer \/ Interrupt

(* Requests time out, files are local: the command itself never stands still. *)
Spec == Init /\ [][Next]_vars /\ WF_vars(Advance)

-----------------------------------------------------------------------------
(* The state has its type: in particular a failure absorbed by a try block *)
(* (Fail) continues inside the plan or at its output.                      *)
CliTypeOK ==
  /\ command \in STRING
  /\ \A i \in DOMAIN steps : steps[i].exits \subseteq ExitCodes
  /\ flags \subseteq {"--yes", "--force", "--json", "--non-interactive"}
  /\ agreed \subseteq DOMAIN found
  /\ found \in [On(steps, FileSteps) -> Contents]
  /\ files \in [On(steps, FileSteps) -> Contents]
  /\ pc \in 1 .. Len(steps) + 1
  /\ acked \subseteq performed
  /\ performed \subseteq DOMAIN steps
  /\ writing \in Contents \union {None}
  /\ polls \in 0 .. MaxPolls
  /\ exit \in ExitCodes \union {None}

(***************************************************************************)
(* Nothing that is guarded is destroyed without consent.  No key is        *)
(* rotated or revoked without --yes (require_confirmation).  Without       *)
(* --force or a yes to the overwrite prompt, a file that a command refuses *)
(* to overwrite stays what it was, also when a later file of the same      *)
(* scaffold is refused, and so does a file that already defines the entry  *)
(* a command adds (a PAYBOND_API_KEY, a scripts.smoke) or cannot be        *)
(* parsed.  A yes is only given by a user who was asked, about a file that *)
(* was there; that it covers the other files of the scaffold too is what   *)
(* run_project_init does.  Files written without a guard (the policy of    *)
(* the dev loop, the host's MCP configuration, .gitignore, the rest of     *)
(* package.json, the output of an imported receipt, the run's variables in *)
(* the env file, the command line's own stores) are not covered.           *)
(***************************************************************************)
ConsentFirst ==
  /\ \A i \in performed : steps[i].effect = "destroy" => "--yes" \in flags
  /\ ~MayOverwrite =>
       \A i \in DOMAIN steps :
         steps[i].do \in Guards /\ found[steps[i].on] \in Spares(steps[i].do) =>
           files[steps[i].on] = found[steps[i].on]
  /\ \A f \in agreed : found[f] # "absent" /\ "--non-interactive" \notin flags

(* Steps whose failure nothing absorbs. *)
Required(kinds) == {i \in DOMAIN steps : steps[i].do \in kinds /\ steps[i].group = None}

(***************************************************************************)
(* Exit 0 means done: every write the command makes was performed and      *)
(* answered, and every file it writes is whole, except a log that was      *)
(* already torn when a line was appended to it.                            *)
(***************************************************************************)
ExitZeroDone ==
  exit = 0 =>
    /\ \A i \in Required(RequestSteps) : Changes(steps[i]) => i \in acked
    /\ \A i \in Required({"save", "write"}) : files[steps[i].on] = "new"
    /\ \A i \in Required({"append"}) :
         files[steps[i].on] = "new" \/ found[steps[i].on] = "torn"

(***************************************************************************)
(* A command that speaks to the Gateway only through gateway_request, and  *)
(* ends with "unauthorized", "forbidden" or "confirm first", has changed   *)
(* nothing: neither at the Gateway nor on disk.  It can be run again.      *)
(***************************************************************************)
RefusedMeansUntouched ==
  exit \in {2, 3, 4} /\ On(steps, {"call", "poll"}) = {} => performed = {} /\ files = found

(***************************************************************************)
(* Every command ends, or sits in the server it was asked to run: in       *)
(* particular a device login nobody approves ends with the device code.    *)
(***************************************************************************)
CommandsEnd == <>(exit # None \/ At({"serve"}))

-----------------------------------------------------------------------------
(***************************************************************************)
(* The inductive invariant behind the safety properties.                   *)
(***************************************************************************)

(* The command is still in the try block of step j, or both are in none.   *)
Past(j) ==
  \A k \in j .. pc : steps[k].group = steps[j].group

(* The file of step i is being written again, over whole contents.         *)
Rewriting(i) == pc \in DOMAIN steps /\ step.on = steps[i].on /\ writing = "new"

PlaceInv ==
  /\ Orderly(steps)
  /\ writing # None /\ exit = None => At({"write", "append"}) /\ files[step.on] = "torn"
  /\ \A i \in performed : i <= pc /\ (exit = None => i < pc)
  /\ exit = 0 => pc = Len(steps) + 1

ConsentInv ==
  /\ ConsentFirst
  /\ pc \in DOMAIN steps => \A j \in 1 .. pc - 1 :
       /\ steps[j].do = "confirm" /\ steps[j].group = None => "--yes" \in flags
       /\ steps[j].do \in Guards /\ Past(j) =>
            found[steps[j].on] \notin Spares(steps[j].do) \/ MayOverwrite

(* A required file is torn only as it was found, or while it is written.   *)
TornInv == exit \in {None, 0} =>
  \A i \in Required(Writers) :
    \/ found[steps[i].on] = "torn"
    \/ /\ files[steps[i].on] = "torn" => writing # None /\ step.on = steps[i].on
       /\ writing # None /\ step.on = steps[i].on => writing # "torn"

(* What step i had to do is done. *)
Did(i) ==
  /\ steps[i].do \in RequestSteps /\ Changes(steps[i]) => i \in acked
  /\ steps[i].do \in {"save", "write"} => files[steps[i].on] = "new" \/ Rewriting(i)
  /\ steps[i].do = "append" =>
       files[steps[i].on] = "new" \/ Rewriting(i) \/ found[steps[i].on] = "torn"

DoneInv == exit \in {None, 0} =>
  \A i \in DOMAIN steps : i < pc /\ steps[i].group = None => Did(i)

(* What has changed was changed by a step before. *)
UntouchedInv ==
  /\ exit = None /\ files # found =>
       \E k \in DOMAIN steps : steps[k].do \in Writers /\ k <= pc
  /\ On(steps, {"call", "poll"}) = {} =>
       (\A i \in performed : Changes(steps[i])) /\ RefusedMeansUntouched

IInv ==
  CliTypeOK /\ PlaceInv /\ ConsentInv /\ TornInv /\ DoneInv /\ UntouchedInv
=============================================================================
