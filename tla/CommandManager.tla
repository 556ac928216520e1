--------------------------- MODULE CommandManager ---------------------------
(***************************************************************************)
(* The project commands an agent or the user runs:                         *)
(* src/main/commands/command-manager.ts with the trust decision of         *)
(* command-policy.ts, the process life cycle of process-adapter.ts, the    *)
(* command tables of src/main/database/db.ts and the waiting run_command   *)
(* tool of src/main/project-files/tool-executor.ts.                        *)
(*                                                                         *)
(* One project.  Every operation is one synchronous segment, launch and    *)
(* spawn included; what awaits is the operating system (a process ends, a  *)
(* timer fires) and the tool that polls for the outcome of its command.    *)
(*                                                                         *)
(* Abstracted: what a command is, up to the three ways policy treats it;   *)
(* output, exit codes and environment; the permission check the tool makes *)
(* first.  Commands are numbered in the order of their creation.           *)
(***************************************************************************)
EXTENDS Naturals, Sequences, FiniteSets

CONSTANTS MaxCommands,    \* bound: commands ever proposed
          Bodies,         \* the bodies a package.json script may have
          NoBody,         \* no script, or no package.json to read it from
          MaxConcurrent,  \* MAX_CONCURRENT_PER_PROJECT
          ListLimit       \* COMMAND_MAX_LIST

ASSUME CommandAssumption == /\ MaxCommands \in Nat
                            /\ {MaxConcurrent, ListLimit} \subseteq Nat \ {0}
                            /\ NoBody \notin Bodies

VARIABLES command,  \* the stored executions
          rules,    \* the stored trust rules, the newest first
          body,     \* the script body in package.json
          process,  \* the spawned processes and their handles (_liveProcesses)
          spawned,  \* _spawnedIds
          told,     \* what run_command waits for, or told its agent
          starts    \* history: processes spawned for a command

vars == <<command, rules, body, process, spawned, told, starts>>

-----------------------------------------------------------------------------
(* Types *)

Commands == 1..MaxCommands
Terminal == {"succeeded", "failed", "cancelled", "timed_out", "blocked"}

\* A package script, another command that may be approved, one that may not.
Specs == {"script", "plain", "forbidden"}

Command == [spec : Specs,
            state : {"unused", "awaiting_approval", "queued", "running"} \union Terminal,
            auth : {"pending", "approved_once", "trusted", "rejected", "blocked_by_policy"}]

Rule == [spec : Specs, hash : Bodies \union {NoBody}]

\* "deaf": spawn threw, and the handle it returned will never complete.
\* "cancelled", "timedout": the process group has its SIGTERM.
Process == {"none", "runs", "cancelled", "timedout", "deaf"}

TypeOK == /\ command \in [Commands -> Command]
          /\ rules \in Seq(Rule)
          /\ body \in Bodies \union {NoBody}
          /\ process \in [Commands -> Process]
          /\ spawned \subseteq Commands
          /\ told \in [Commands -> {"none", "polling", "gave_up"} \union Terminal]
          /\ starts \in [Commands -> Nat]

-----------------------------------------------------------------------------
(* The store and the policy *)

Created == {c \in Commands : command[c].state # "unused"}

Active == {c \in Created : command[c].state \notin Terminal}

\* listCommands: the newest ones only.
Listed == {c \in Created : Cardinality({d \in Created : d > c}) < ListLimit}

Live == {c \in Commands : process[c] # "none"}

\* What resolveScriptContentHash finds for a command.
bodyOf(spec) == IF spec = "script" THEN body ELSE NoBody

\* Fault: the body of the script is not compared.
Trusted_AnyBody(spec) == spec # "forbidden" /\ \E k \in DOMAIN rules : rules[k].spec = spec

\* evaluatePolicyWithScriptHash allows: the newest rule for the command was made
\* for the body the script has now, or for none.
Trusted(spec) ==
  /\ spec # "forbidden"
  /\ \E k \in DOMAIN rules : /\ rules[k].spec = spec
                             /\ \A j \in 1..(k - 1) : rules[j].spec # spec
                             /\ rules[k].hash \in {NoBody, bodyOf(spec)}

\* The handle of a new process; one whose spawn threw never fires its completion.
spawn(c) == \E handle \in {"runs", "deaf"} : process' = [process EXCEPT ![c] = handle]

\* A command that finds the limit reached, or its directory outside of the
\* project by now, fails.  "record" is what the caller stored, queued.
doLaunch(c, record) ==
  /\ spawned' = spawned \union {c}
  /\ IF c \in spawned
       THEN command' = [command EXCEPT ![c] = record] /\ UNCHANGED <<process, starts>>
       ELSE \/ /\ command' = [command EXCEPT ![c] = [record EXCEPT !.state = "failed"]]
               /\ UNCHANGED <<process, starts>>
            \/ /\ Cardinality(Live) < MaxConcurrent
               /\ command' = [command EXCEPT ![c] = [record EXCEPT !.state = "running"]]
               /\ spawn(c)
               /\ starts' = [starts EXCEPT ![c] = @ + 1]

-----------------------------------------------------------------------------
(* Operations of the user and of the agent *)

\* The next id, if the bound allows one more.
Fresh(c) == c \notin Created /\ \A d \in 1..(c - 1) : d \in Created

\* The tool of an agent waits for a command that needs no approval; it is told
\* at once of one that is blocked, and nothing of one that awaits approval.
propose(c, spec, byAgent) ==
  LET record(state, auth) == [spec |-> spec, state |-> state, auth |-> auth]
  IN  /\ Fresh(c)
      /\ \/ /\ Trusted(spec)
            /\ doLaunch(c, record("queued", "trusted"))
            /\ told' = [told EXCEPT ![c] = IF byAgent THEN "polling" ELSE @]
         \/ /\ ~Trusted(spec)
            /\ command' = [command EXCEPT ![c] = IF spec = "forbidden"
                             THEN record("blocked", "blocked_by_policy")
                             ELSE record("awaiting_approval", "pending")]
            /\ UNCHANGED <<process, spawned, told, starts>>
      /\ UNCHANGED <<rules, body>>

Approved(c, mode) ==
  [command[c] EXCEPT !.state = "queued",
                     !.auth = IF mode = "trust" THEN "trusted" ELSE "approved_once"]

\* "trust" keeps a rule with the body the script has now.
Granted(c, mode) ==
  IF mode = "trust"
    THEN <<[spec |-> command[c].spec, hash |-> bodyOf(command[c].spec)]>> \o rules
    ELSE rules

\* Fault: a late approval is not checked against the state of its command.
approveCommand_AnyState(c, mode) ==
  /\ c \in Created
  /\ rules' = Granted(c, mode)
  /\ doLaunch(c, Approved(c, mode))
  /\ UNCHANGED <<body, told>>

approveCommand(c, mode) ==
  /\ command[c].state = "awaiting_approval"
  /\ rules' = Granted(c, mode)
  /\ doLaunch(c, Approved(c, mode))
  /\ UNCHANGED <<body, told>>

rejectCommand(c) ==
  /\ command[c].state = "awaiting_approval"
  /\ command' = [command EXCEPT ![c].state = "cancelled", ![c].auth = "rejected"]
  /\ UNCHANGED <<rules, body, process, spawned, told, starts>>

\* Signals the processes of "set" and stores the commands as cancelled; the
\* timers stay armed, and a deaf handle takes no signal.
CancelAll(set) ==
  /\ command' = [c \in Commands |->
       IF c \in set THEN [command[c] EXCEPT !.state = "cancelled"] ELSE command[c]]
  /\ process' = [c \in Commands |->
       IF c \in set /\ process[c] = "runs" THEN "cancelled" ELSE process[c]]
  /\ UNCHANGED <<rules, body, spawned, told, starts>>

\* Fault: a command that has ended is cancelled too.
cancelCommand_Ended(c) == c \in Created /\ CancelAll({c})

cancelCommand(c) == c \in Active /\ CancelAll({c})

revokeTrustRule(k) ==
  /\ k \in DOMAIN rules
  /\ rules' = SubSeq(rules, 1, k - 1) \o SubSeq(rules, k + 1, Len(rules))
  /\ UNCHANGED <<command, body, process, spawned, told, starts>>

\* The user, an accepted edit or a checkout changes package.json.
editScript(b) ==
  /\ b # body
  /\ body' = b
  /\ UNCHANGED <<command, rules, process, spawned, told, starts>>

-----------------------------------------------------------------------------
(* The operating system *)

timeoutFires(c) ==
  /\ process[c] \in {"runs", "cancelled"}
  /\ process' = [process EXCEPT ![c] = "timedout"]
  /\ UNCHANGED <<command, rules, body, spawned, told, starts>>

\* onComplete: a timeout counts more than a cancellation, and that more than
\* the exit code.
Outcome(c, ok) ==
  IF process[c] = "timedout" THEN "timed_out"
  ELSE IF command[c].state = "cancelled" THEN "cancelled"
  ELSE IF ok THEN "succeeded" ELSE "failed"

\* The handle reports the end, once; a deaf one never does.
fireComplete(c) ==
  /\ process[c] \in {"runs", "cancelled", "timedout"}
  /\ process' = [process EXCEPT ![c] = "none"]

processEnds(c, ok) ==
  /\ fireComplete(c)
  /\ command' = [command EXCEPT ![c].state = Outcome(c, ok)]
  /\ UNCHANGED <<rules, body, spawned, told, starts>>

-----------------------------------------------------------------------------
(* The waiting tool *)

\* run_command polls the store every 200 ms ...
toolHears(c) ==
  /\ told[c] = "polling" /\ command[c].state \in Terminal
  /\ told' = [told EXCEPT ![c] = command[c].state]
  /\ UNCHANGED <<command, rules, body, process, spawned, starts>>

\* Fault: the deadline is only looked at when the command is not running.
toolGivesUp_NotRunning(c) ==
  /\ told[c] = "polling" /\ command[c].state \notin Terminal \union {"running"}
  /\ told' = [told EXCEPT ![c] = "gave_up"]
  /\ UNCHANGED <<command, rules, body, process, spawned, starts>>

\* ... until its own deadline, which is not the timeout of the command.
toolGivesUp(c) ==
  /\ told[c] = "polling" /\ command[c].state \notin Terminal
  /\ told' = [told EXCEPT ![c] = "gave_up"]
  /\ UNCHANGED <<command, rules, body, process, spawned, starts>>

-----------------------------------------------------------------------------
(* The end of the program and its start *)

\* before-quit; the program goes on until it has quit.
cancelAllOnQuit == CancelAll(Listed \intersect Active)

\* Fault: only queued commands are reconciled.
Restart_QueuedOnly ==
  /\ command' = [c \in Commands |->
       IF c \in Listed /\ command[c].state = "queued"
         THEN [command[c] EXCEPT !.state = "cancelled"] ELSE command[c]]
  /\ process' = [c \in Commands |-> "none"]
  /\ spawned' = {}
  /\ told' = [c \in Commands |-> IF told[c] = "polling" THEN "none" ELSE told[c]]
  /\ UNCHANGED <<rules, body, starts>>

\* The program ends, in order or not, and starts again: handles and waiting
\* tools are gone, and reconcileOnStartup cancels what it lists as running.
Restart ==
  /\ command' = [c \in Commands |->
       IF c \in Listed /\ command[c].state \in {"running", "queued"}
         THEN [command[c] EXCEPT !.state = "cancelled"] ELSE command[c]]
  /\ process' = [c \in Commands |-> "none"]
  /\ spawned' = {}
  /\ told' = [c \in Commands |-> IF told[c] = "polling" THEN "none" ELSE told[c]]
  /\ UNCHANGED <<rules, body, starts>>

-----------------------------------------------------------------------------
Init == /\ command = [c \in Commands |->
                        [spec |-> "plain", state |-> "unused", auth |-> "pending"]]
        /\ rules = <<>>
        /\ body \in Bodies \union {NoBody}
        /\ process = [c \in Commands |-> "none"]
        /\ spawned = {}
        /\ told = [c \in Commands |-> "none"]
        /\ starts = [c \in Commands |-> 0]

\* What the command panel may ask for, at any time and of any command.
UserDecides ==
  \/ \E c \in Commands, mode \in {"once", "trust"} : approveCommand(c, mode)
  \/ \E c \in Commands : rejectCommand(c)
  \/ \E c \in Commands : cancelCommand(c)
  \/ \E k \in DOMAIN rules : revokeTrustRule(k)

Next ==
  \/ \E c \in Commands, spec \in Specs, byAgent \in BOOLEAN : propose(c, spec, byAgent)
  \/ UserDecides
  \/ \E b \in Bodies \union {NoBody} : editScript(b)
  \/ \E c \in Commands : timeoutFires(c)
  \/ \E c \in Commands, ok \in BOOLEAN : processEnds(c, ok)
  \/ \E c \in Commands : toolHears(c)
  \/ \E c \in Commands : toolGivesUp(c)
  \/ cancelAllOnQuit
  \/ Restart

Spec == Init /\ [][Next]_vars

\* Every spawned process has a timer, a process group that was signalled is
\* killed three seconds later, and the polling tool has a deadline.
Killed(c) == process[c] \in {"cancelled", "timedout"} /\ \E ok \in BOOLEAN : processEnds(c, ok)

FairSpec == /\ Spec
            /\ \A c \in Commands : /\ WF_vars(timeoutFires(c))
                                   /\ WF_vars(Killed(c))
                                   /\ WF_vars(toolHears(c) \/ toolGivesUp(c))

-----------------------------------------------------------------------------
(* Properties *)

\* COMMAND_START_ONCE: a command is spawned at most once, whatever approvals
\* arrive late or twice, and also after a restart, which forgets _spawnedIds.
StartedOnce == \A c \in Commands : starts[c] <= 1

\* COMMAND_REQUIRES_AUTHORIZATION: what was rejected, blocked or never decided
\* has never been spawned, whatever approval, rejection and Stop came late.
UnauthorizedNeverStarts ==
  \A c \in Commands : starts[c] > 0 => command[c].auth \in {"approved_once", "trusted"}

\* No command starts twice, nor without a decision of its user.
StartsAreAuthorized == StartedOnce /\ UnauthorizedNeverStarts

\* What is shown as running has a process that will report its end, or could
\* once; only beyond the commands that a restart lists can one hang.
RunningHasProcess ==
  \A c \in Listed : command[c].state \in {"queued", "running"} => process[c] # "none"

\* The limit on processes counts those that were cancelled and still run.
WithinConcurrency == Cardinality(Live) <= MaxConcurrent

\* The store, the handles and the limit agree on what runs.
ProcessesAreAccounted == RunningHasProcess /\ WithinConcurrency

\* What an agent was told of the end of its command is what the store keeps;
\* a cancelled command is the exception: its process may still report how it ended.
AnswerIsFinal ==
  \A c \in Commands : told[c] \in Terminal \ {"cancelled"} => command[c].state = told[c]

\* COMMAND_TRUST_STILL_VALID: a command that starts without an approval has a
\* rule that is not revoked and was made for the body its script has now, or
\* when it had none.
AutomaticStartIsTrusted ==
  [][\A c \in Commands : starts'[c] > starts[c] =>
       \/ \E mode \in {"once", "trust"} : approveCommand(c, mode)
       \/ \E k \in DOMAIN rules : /\ rules[k].spec = command'[c].spec
                                  /\ rules[k].hash \in {NoBody, bodyOf(command'[c].spec)}]_vars

\* An agent that waits for a command gets an answer, even if its process
\* never reports.
AgentIsAnswered == \A c \in Commands : told[c] = "polling" ~> told[c] # "polling"

=============================================================================
