------------------------------ MODULE AgentLoop ------------------------------
(***************************************************************************)
(* One run of an agent: runAgentLoop of src/main/agent-client/agent-loop.ts*)
(* over the request to the model (ModelClient), with the budgets its tool  *)
(* calls draw on (project-files/tool-executor.ts).                         *)
(*                                                                         *)
(* The promise of a request that settles is continued before any other     *)
(* event of the program: no abort comes between.  A tool call is an await. *)
(*                                                                         *)
(* Abstracted: the history of messages, except that a turn is remembered   *)
(* for the detection of stalls; traces; what a tool does beyond budgets.   *)
(***************************************************************************)
EXTENDS ModelClient, Integers

CONSTANTS MAX_TOOL_STEPS_PER_REQUEST,
          MAX_PROTOCOL_RECOVERY_TURNS,
          STALL_THRESHOLD,
          MAX_TOTAL_AGENT_READ_BYTES,
          MAX_SINGLE_FILE_READ_BYTES,
          MAX_COMMANDS_PER_AGENT_RUN,
          MaxReturns  \* bound: times the run asks for a human

ASSUME LoopAssumption ==
  /\ CallNames \subseteq {"read_file", "run_command", "browser_open_url"}
  /\ {MAX_TOOL_STEPS_PER_REQUEST, MAX_PROTOCOL_RECOVERY_TURNS, STALL_THRESHOLD,
      MAX_TOTAL_AGENT_READ_BYTES, MAX_SINGLE_FILE_READ_BYTES,
      MAX_COMMANDS_PER_AGENT_RUN, MaxReturns} \subseteq Nat
  /\ STALL_THRESHOLD > 0
  /\ MAX_TOTAL_AGENT_READ_BYTES > 0

VARIABLES options, \* isProjectMode, and whether onWaitingForHuman is given
          run,     \* the AgentRun: its state and counters
          signal,  \* the abort signal
          todo,    \* calls of the turn, the first of which runs
          goal,    \* lastObservationHash with lastActionSignature, and stuckScore
          used,    \* readBytesUsed and commandsRunThisRequest
          answer,  \* what was given to onChunk
          history  \* requests to the model and returns of control

loop == <<options, run, signal, todo, goal, used, answer, history>>
vars == <<client, loop>>

-----------------------------------------------------------------------------
(* Types *)

Ended == {"completed", "cancelled", "failed"}

AgentRunState == {"queued", "starting", "waiting_for_model", "processing_turn",
                  "executing_tools", "continuing", "finalizing", "waiting_for_human"}
                 \union Ended

AgentLoopOptions == [isProjectMode : BOOLEAN, onWaitingForHuman : BOOLEAN]

AgentRun == [state : AgentRunState \union {"INVALID_STATE_TRANSITION"},
             toolStepCount : 0..MAX_TOOL_STEPS_PER_REQUEST,
             recoveryCount : 0..MAX_PROTOCOL_RECOVERY_TURNS + 1]

LoopTypeOK ==
  /\ options \in AgentLoopOptions
  /\ run \in AgentRun
  /\ signal \in BOOLEAN
  /\ todo \in Seq(Call)
  /\ goal.stuckScore \in 0..STALL_THRESHOLD
  /\ used \in [bytes : Nat, commands : 0..MAX_COMMANDS_PER_AGENT_RUN]
  /\ answer \in {"none", "text", "control"}
  /\ history \in [requests : Nat, returns : 0..MaxReturns]

TypeOK == ClientTypeOK /\ LoopTypeOK

Nothing == [text |-> "none", calls |-> <<>>]  \* no turn yet

Init == /\ ClientInit
        /\ options \in AgentLoopOptions
        /\ run = [state |-> "queued", toolStepCount |-> 0, recoveryCount |-> 0]
        /\ signal \in BOOLEAN
        /\ todo = <<>>
        /\ goal = [last |-> Nothing, stuckScore |-> 0]
        /\ used = [bytes |-> 0, commands |-> 0]
        /\ answer = "none"
        /\ history = [requests |-> 0, returns |-> 0]

-----------------------------------------------------------------------------
(* The state machine of the run *)

VALID_TRANSITIONS ==
  [queued            |-> {"starting"},
   starting          |-> {"waiting_for_model"},
   waiting_for_model |-> {"processing_turn", "cancelled", "failed"},
   processing_turn   |-> {"executing_tools", "finalizing", "continuing", "waiting_for_human",
                          "cancelled", "failed"},
   executing_tools   |-> {"continuing", "cancelled", "failed"},
   continuing        |-> {"waiting_for_model", "finalizing", "cancelled", "failed"},
   finalizing        |-> {"completed", "failed"},
   waiting_for_human |-> {"continuing", "cancelled", "failed"}]

\* The transitions one segment makes; an invalid one throws.
transition(path) ==
  IF \A i \in 1..Len(path) - 1 : path[i + 1] \in VALID_TRANSITIONS[path[i]]
    THEN path[Len(path)]
    ELSE "INVALID_STATE_TRANSITION"

end(r, path) == /\ run' = [r EXCEPT !.state = transition(path)]
                /\ todo' = <<>>
                /\ forget
                /\ UNCHANGED <<options, signal, goal, used, history>>

stop(path) == end(run, path)

\* The top of the loop: the abort signal is looked at, and the model asked.
beginTurn(r, path, h) ==
  /\ run' = [r EXCEPT !.state = transition(IF signal THEN Append(path, "cancelled") ELSE path)]
  /\ todo' = <<>>
  /\ \/ signal /\ history' = h /\ forget
     \/ ~signal /\ history' = [h EXCEPT !.requests = @ + 1] /\ makeRequest
  /\ UNCHANGED <<options, signal, answer>>

\* runAgentLoop up to its first await.
Start == /\ run.state = "queued"
         /\ beginTurn(run, <<"queued", "starting", "waiting_for_model">>, history)
         /\ UNCHANGED <<goal, used>>

-----------------------------------------------------------------------------
(* The decision of a turn *)

Fenced(name) == [id |-> "random", name |-> name, whole |-> TRUE]

\* extractForgeFences: the id of a call is the model's or a random one.
fencedCalls(said) == CASE said = "fence_read" -> <<Fenced("read_file"), Fenced("read_file")>>
                       [] said = "fence_open" -> <<Fenced("browser_open_url")>>
                       [] OTHER               -> <<>>

Decision(kind) == [kind |-> kind, calls |-> <<>>]

ToolCalls(calls) == [kind |-> "tool_calls", calls |-> calls]

normalizeDecision(said, native, isProjectMode, budgetExhausted, toolStepCount) ==
  LET structured == isProjectMode \/ toolStepCount > 0
      inChat     == ~isProjectMode /\ (toolStepCount = 0 \/ budgetExhausted)
  IN  CASE native # <<>> /\ ~budgetExhausted -> ToolCalls(native)
        [] said \in Fences /\ ~budgetExhausted -> ToolCalls(fencedCalls(said))
        [] said = "two_finals" -> Decision("unrecoverable")
        [] said \in {"malformed", "blank"} -> Decision("invalid")
        [] said = "blocked" /\ structured -> Decision("human_required")
        [] said \in {"blocked_bare", "bad_status"} /\ structured -> Decision("invalid")
        [] said \in Finals \/ inChat -> Decision("final")
        [] OTHER -> Decision("invalid")

budgetExhausted == run.toolStepCount >= MAX_TOOL_STEPS_PER_REQUEST

decision == normalizeDecision(text, toolCalls, options.isProjectMode, budgetExhausted,
                              run.toolStepCount)

-----------------------------------------------------------------------------
(* The continuation of the request *)

Turn == run.state = "waiting_for_model" /\ request = "resolved"

Processing == <<"waiting_for_model", "processing_turn">>

ModelFails ==
  /\ run.state = "waiting_for_model"
  /\ request \in Failure
  /\ stop(<<run.state, IF signal \/ request = "cancelled" THEN "cancelled" ELSE "failed">>)
  /\ UNCHANGED answer

BeginCalls ==
  /\ Turn
  /\ decision.kind = "tool_calls"
  /\ run' = [run EXCEPT !.state = transition(Processing \o <<"executing_tools">>)]
  /\ todo' = decision.calls
  /\ UNCHANGED <<client, options, signal, goal, used, answer, history>>

\* Without onWaitingForHuman the run goes on as if the human had been there.
HumanRequired ==
  /\ Turn
  /\ decision.kind = "human_required"
  /\ LET h == [history EXCEPT !.returns = @ + 1]
         path == Processing \o <<"waiting_for_human">>
     IN  \/ /\ options.onWaitingForHuman
            /\ run' = [run EXCEPT !.state = transition(path)]
            /\ history' = h
            /\ UNCHANGED <<client, options, signal, todo, answer>>
         \/ /\ ~options.onWaitingForHuman
            /\ beginTurn(run, path \o <<"continuing", "waiting_for_model">>, h)
  /\ UNCHANGED <<goal, used>>

\* What is not an envelope is given to the user as it is: with the calls of a turn
\* whose calls are over, encoded in the text.
Final ==
  /\ Turn
  /\ decision.kind = "final"
  /\ answer' = IF text \notin Finals /\ (text \in Fences \/ toolCalls # <<>>) THEN "control"
                                                                            ELSE "text"
  /\ stop(Processing \o <<"finalizing", "completed">>)

\* Fault: a turn that is not valid costs nothing.
Recover_Uncounted ==
  /\ Turn
  /\ decision.kind = "invalid"
  /\ beginTurn(run, Processing \o <<"continuing", "waiting_for_model">>, history)
  /\ UNCHANGED <<goal, used>>

\* recoveryCount counts all turns of the run that were not valid, in a row or not.
Recover ==
  /\ Turn
  /\ decision.kind = "invalid"
  /\ run.recoveryCount < MAX_PROTOCOL_RECOVERY_TURNS
  /\ beginTurn([run EXCEPT !.recoveryCount = @ + 1],
               Processing \o <<"continuing", "waiting_for_model">>, history)
  /\ UNCHANGED <<goal, used>>

GiveUp ==
  /\ Turn
  /\ \/ decision.kind = "unrecoverable" /\ stop(Append(Processing, "failed"))
     \/ /\ decision.kind = "invalid"
        /\ run.recoveryCount = MAX_PROTOCOL_RECOVERY_TURNS
        /\ end([run EXCEPT !.recoveryCount = @ + 1], Append(Processing, "failed"))
  /\ UNCHANGED answer

-----------------------------------------------------------------------------
(* Tool calls *)

\* read_file, read_file_range: a file is read if any budget is left.
handleReadFile ==
  \/ UNCHANGED used
  \/ /\ used.bytes < MAX_TOTAL_AGENT_READ_BYTES
     /\ \E size \in 1..MAX_SINGLE_FILE_READ_BYTES : used' = [used EXCEPT !.bytes = @ + size]

handleRunCommand ==
  \/ UNCHANGED used
  \/ /\ used.commands < MAX_COMMANDS_PER_AGENT_RUN
     /\ used' = [used EXCEPT !.commands = @ + 1]

\* A call that was refused, or whose arguments were lost, uses nothing.
executeProjectTool(call) == CASE ~call.whole               -> UNCHANGED used
                              [] call.name = "read_file"   -> handleReadFile
                              [] call.name = "run_command" -> handleRunCommand
                              [] OTHER                     -> UNCHANGED used

\* Fault: the abort signal is not looked at between two calls of a turn.
CallEnds_NoAbortCheck ==
  /\ Len(todo) > 1
  /\ executeProjectTool(Head(todo))
  /\ todo' = Tail(todo)
  /\ UNCHANGED <<client, options, run, signal, goal, answer, history>>

\* A call ends and another of its turn begins, unless the run was aborted.
CallEnds ==
  /\ Len(todo) > 1
  /\ executeProjectTool(Head(todo))
  /\ \/ ~signal /\ todo' = Tail(todo) /\ UNCHANGED run
     \/ /\ signal
        /\ todo' = <<>>
        /\ run' = [run EXCEPT !.state = transition(<<run.state, "cancelled">>)]
  /\ UNCHANGED <<client, options, signal, goal, answer, history>>

hadNavigation(calls) == \E i \in DOMAIN calls : calls[i].name = "browser_open_url"

\* The text of a turn, in which native calls are encoded with their ids.
thisTurn == [text |-> text, calls |-> toolCalls]

stuck == IF thisTurn = goal.last /\ ~hadNavigation(decision.calls) THEN goal.stuckScore + 1
                                                                  ELSE 0

\* The last call of a turn ends.
TurnEnds ==
  /\ Len(todo) = 1
  /\ executeProjectTool(Head(todo))
  /\ goal' = [last |-> thisTurn, stuckScore |-> stuck]
  /\ LET r == [run EXCEPT !.toolStepCount = @ + 1]
     IN  \/ /\ stuck < STALL_THRESHOLD
            /\ beginTurn(r, <<"executing_tools", "continuing", "waiting_for_model">>, history)
         \/ /\ stuck >= STALL_THRESHOLD
            /\ run' = [r EXCEPT !.state = transition(<<"executing_tools", "failed">>)]
            /\ todo' = <<>>
            /\ forget
            /\ UNCHANGED <<options, signal, answer, history>>

-----------------------------------------------------------------------------
(* The user *)

\* Stop: what the run waits for is told.
Abort ==
  /\ ~signal
  /\ run.state \notin Ended
  /\ run.state = "waiting_for_model" => request \notin Settled
  /\ signal' = TRUE
  /\ abortRequest
  /\ UNCHANGED <<options, run, todo, goal, used, answer, history>>

Waiting == run.state = "waiting_for_human"

ReturnControl ==
  /\ Waiting
  /\ ~signal
  /\ beginTurn(run, <<"waiting_for_human", "continuing", "waiting_for_model">>, history)
  /\ UNCHANGED <<goal, used>>

WaitRejected == /\ Waiting
                /\ signal
                /\ stop(<<"waiting_for_human", "cancelled">>)
                /\ UNCHANGED answer

-----------------------------------------------------------------------------
(* Specification *)

Receive == /\ run.state = "waiting_for_model"
           /\ ClientStep
           /\ text' = "blocked" => history.returns < MaxReturns
           /\ UNCHANGED loop

Continue == ModelFails \/ BeginCalls \/ HumanRequired \/ Final \/ Recover \/ GiveUp
            \/ WaitRejected

ToolReturns == CallEnds \/ TurnEnds

Next == Start \/ Receive \/ Continue \/ ToolReturns \/ Abort \/ ReturnControl

\* Continuations run, and tools return: each has a time limit, or is withdrawn.
Fairness == WF_vars(Start) /\ WF_vars(Continue) /\ WF_vars(ToolReturns)

Spec == Init /\ [][Next]_vars /\ Fairness

-----------------------------------------------------------------------------
(* Properties *)

phase == CASE run.state \in Ended             -> run.state
           [] run.state = "executing_tools"   -> "acting"
           [] run.state = "waiting_for_human" -> "waiting"
           [] OTHER                           -> "thinking"

Contract == INSTANCE AgentRunContract WITH aborted <- signal, calls <- Len(todo)

\* The loop is a run as the queue knows it: nothing begins after an abort, the answer
\* of an aborted run is never given, and an aborted run ends.
ImplementsContract == Contract!Spec

\* Every way through the loop is one that the table of transitions allows.
EveryPathIsAllowed == run.state # "INVALID_STATE_TRANSITION"

\* A run cannot go on for ever at the user's expense: each request to the model but
\* the first needs a step or a recovery of its budgets or a human, and what is read
\* ends at most one file beyond its limit.
WorkIsBounded ==
  /\ history.requests <= MAX_TOOL_STEPS_PER_REQUEST + MAX_PROTOCOL_RECOVERY_TURNS
                           + history.returns + 1
  /\ used.bytes < MAX_TOTAL_AGENT_READ_BYTES + MAX_SINGLE_FILE_READ_BYTES

=============================================================================
