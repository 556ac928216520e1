---------------------------- MODULE AgentLoopProofs ----------------------------
(***************************************************************************)
(* Proofs about AgentLoop, for any budgets, tools, texts and ids: the run  *)
(* keeps to its table of transitions and to its budgets, and is a run as   *)
(* AgentRunContract has it.  The last part is about Browser, whose tabs    *)
(* the tools of such a run drive: a tab is controlled by consent alone.    *)
(***************************************************************************)
EXTENDS AgentLoop, BrowserState, TLAPS

CONSTANTS Ops, MaxTabsPerSession, MaxStarts, MaxActions, MaxNavigations, MaxScreenshots

Browser == INSTANCE Browser

-----------------------------------------------------------------------------
(* The paths of the loop.                                                  *)

\* Each way from one await to the next is a path in the table.
LEMMA Paths ==
  /\ transition(<<"queued", "starting", "waiting_for_model">>) = "waiting_for_model"
  /\ transition(Append(<<"queued", "starting", "waiting_for_model">>, "cancelled")) = "cancelled"
  /\ transition(<<"waiting_for_model", "cancelled">>) = "cancelled"
  /\ transition(<<"waiting_for_model", "failed">>) = "failed"
BY DEF transition, VALID_TRANSITIONS

LEMMA PathsOfATurn ==
  /\ transition(Processing \o <<"executing_tools">>) = "executing_tools"
  /\ transition(Processing \o <<"waiting_for_human">>) = "waiting_for_human"
  /\ transition(Append(Processing, "failed")) = "failed"
  /\ transition(Processing \o <<"finalizing", "completed">>) = "completed"
BY DEF transition, VALID_TRANSITIONS, Processing

\* Each way back to the top of the loop, on which the abort signal is looked at.
PathsToTop ==
  {<<"queued", "starting", "waiting_for_model">>,
   Processing \o <<"waiting_for_human">> \o <<"continuing", "waiting_for_model">>,
   Processing \o <<"continuing", "waiting_for_model">>,
   <<"executing_tools", "continuing", "waiting_for_model">>,
   <<"waiting_for_human", "continuing", "waiting_for_model">>}

LEMMA PathsOfTop ==
  ASSUME NEW path \in PathsToTop
  PROVE  /\ transition(path) = "waiting_for_model"
         /\ transition(Append(path, "cancelled")) = "cancelled"
<1>1. CASE path = <<"queued", "starting", "waiting_for_model">>
  BY <1>1 DEF transition, VALID_TRANSITIONS
<1>2. CASE path = Processing \o <<"waiting_for_human">> \o <<"continuing", "waiting_for_model">>
  BY <1>2 DEF transition, VALID_TRANSITIONS, Processing
<1>3. CASE path = Processing \o <<"continuing", "waiting_for_model">>
  BY <1>3 DEF transition, VALID_TRANSITIONS, Processing
<1>4. CASE path = <<"executing_tools", "continuing", "waiting_for_model">>
  BY <1>4 DEF transition, VALID_TRANSITIONS
<1>5. CASE path = <<"waiting_for_human", "continuing", "waiting_for_model">>
  BY <1>5 DEF transition, VALID_TRANSITIONS
<1> QED BY <1>1, <1>2, <1>3, <1>4, <1>5 DEF PathsToTop

LEMMA OtherPaths ==
  /\ transition(<<"waiting_for_model", "cancelled">>) = "cancelled"
  /\ transition(<<"waiting_for_model", "failed">>) = "failed"
  /\ transition(<<"executing_tools", "cancelled">>) = "cancelled"
  /\ transition(<<"executing_tools", "failed">>) = "failed"
  /\ transition(<<"waiting_for_human", "cancelled">>) = "cancelled"
BY DEF transition, VALID_TRANSITIONS

-----------------------------------------------------------------------------
(* The decision of a turn.                                                 *)

\* A turn has calls just when the decision is to execute them, within the budget of
\* steps; a human is asked for only by a blocked answer.
LEMMA DecisionIs ==
  ASSUME TypeOK
  PROVE  /\ decision.kind = "tool_calls" =>
              decision.calls \in Seq(Call) /\ Len(decision.calls) > 0 /\ ~budgetExhausted
         /\ decision.kind = "human_required" => text = "blocked"
<1>1. toolCalls \in Seq(Call) /\ text \in Text
  BY DEF TypeOK, ClientTypeOK
<1>2. Fenced("read_file") \in Call /\ Fenced("browser_open_url") \in Call
  BY DEF Fenced, Call
<1>3. text \in Fences => fencedCalls(text) \in Seq(Call) /\ Len(fencedCalls(text)) > 0
  BY <1>2 DEF fencedCalls, Fences
<1>4. toolCalls # <<>> => Len(toolCalls) > 0
  BY <1>1
<1> QED BY <1>1, <1>3, <1>4 DEF decision, normalizeDecision, ToolCalls, Decision

-----------------------------------------------------------------------------
(* The invariant.                                                          *)

\* Between two events the run is at one of its awaits, with calls to make when it
\* executes tools, and has not stalled.
AtAwait ==
  /\ run.state \in {"queued", "waiting_for_model", "executing_tools", "waiting_for_human"}
                     \union Ended
  /\ run.state = "executing_tools" <=> todo # <<>>
  /\ run.state \notin Ended => goal.stuckScore < STALL_THRESHOLD

\* A run is aborted while it waits for the model just when its request is cancelled.
AbortIsSeen ==
  run.state = "waiting_for_model" =>
    /\ request # "idle"
    /\ signal <=> request = "cancelled"

\* A step, a recovery or a human pays for each request but the first.
Paid == run.toolStepCount + run.recoveryCount + history.returns

RequestsArePaid ==
  /\ history.requests <= Paid + 1
  /\ run.state = "queued" => history.requests = 0
  /\ run.state = "waiting_for_human" => history.requests <= Paid
  /\ run.state \notin Ended => run.recoveryCount <= MAX_PROTOCOL_RECOVERY_TURNS
  /\ run.recoveryCount > MAX_PROTOCOL_RECOVERY_TURNS => history.requests <= Paid
  /\ run.state = "executing_tools" => run.toolStepCount < MAX_TOOL_STEPS_PER_REQUEST

\* The bound of the model on returns of control.
ReturnsAreBounded ==
  run.state = "waiting_for_model" /\ text = "blocked" => history.returns < MaxReturns

ReadIsBounded == used.bytes < MAX_TOTAL_AGENT_READ_BYTES + MAX_SINGLE_FILE_READ_BYTES

IInv == TypeOK /\ AtAwait /\ AbortIsSeen /\ RequestsArePaid /\ ReturnsAreBounded /\ ReadIsBounded
History == [requests : Nat, returns : 0..MaxReturns]

LEMMA InitIInv == Init => IInv
<1> SUFFICES ASSUME Init PROVE IInv
  OBVIOUS
<1> USE LoopAssumption
<1>1. ClientTypeOK
  BY DEF Init, ClientInit, ClientTypeOK, Text
<1>2. run = [state |-> "queued", toolStepCount |-> 0, recoveryCount |-> 0] /\ run \in AgentRun
  BY DEF Init, AgentRun, AgentRunState
<1>3. LoopTypeOK
  BY <1>2 DEF Init, LoopTypeOK
<1>4. AtAwait /\ AbortIsSeen /\ ReturnsAreBounded /\ ReadIsBounded
  BY <1>2 DEF Init, AtAwait, AbortIsSeen, ReturnsAreBounded, ReadIsBounded, Ended
<1>5. RequestsArePaid
  BY <1>2 DEF Init, RequestsArePaid, Paid
<1> QED BY <1>1, <1>3, <1>4, <1>5 DEF IInv, TypeOK

-----------------------------------------------------------------------------
(* The steps.                                                              *)

\* An event of the socket comes to a request that is pending, and is not its abort.
LEMMA SocketEvent ==
  ASSUME ClientTypeOK, ClientStep
  PROVE  /\ ClientTypeOK'
         /\ request \in Pending
         /\ request' \in (Pending \union Settled) \ {"cancelled"}
<1> USE ClientAssumption DEF ClientTypeOK, Pending, Settled, Failure
<1>1. CASE respond \/ endDrain \/ socketFails \/ streamEnds
  BY <1>1 DEF respond, endDrain, socketFails, streamEnds, settle, statusErrors
<1>2. CASE TextDelta
  BY <1>2 DEF TextDelta
<1>3. CASE CallStart
  <2>1. PICK id \in CallIds, name \in CallNames :
          accumulator' = Append(accumulator, [index |-> Len(accumulator) + Len(toolCalls) + 1,
                                              id |-> id, name |-> name, whole |-> FALSE])
    BY <1>3 DEF CallStart
  <2>2. Len(accumulator) + Len(toolCalls) + 1 \in 1..MaxCalls
    BY <1>3 DEF CallStart
  <2>3. [index |-> Len(accumulator) + Len(toolCalls) + 1, id |-> id, name |-> name,
         whole |-> FALSE] \in Partial
    BY <2>2 DEF Partial
  <2>4. accumulator' \in Seq(Partial)
    BY <2>1, <2>3
  <2> QED BY <1>3, <2>4 DEF CallStart
<1>4. CASE ArgumentsDelta
  <2>1. PICK i \in DOMAIN accumulator : accumulator' = [accumulator EXCEPT ![i].whole = TRUE]
    BY <1>4 DEF ArgumentsDelta
  <2>2. accumulator[i] \in Partial
    OBVIOUS
  <2>3. [accumulator[i] EXCEPT !.whole = TRUE] \in Partial
    BY <2>2 DEF Partial
  <2>4. accumulator' \in Seq(Partial)
    BY <2>1, <2>3
  <2> QED BY <1>4, <2>4 DEF ArgumentsDelta
<1>5. \A partial \in Partial : complete(partial) \in Call
  BY DEF complete, Partial, Call
<1>6. CASE FinishReason
  <2> DEFINE flushed == [i \in DOMAIN accumulator |-> complete(accumulator[i])]
  <2>1. flushed \in Seq(Call)
    BY <1>5
  <2>2. toolCalls' = toolCalls \o flushed /\ accumulator' = <<>>
    BY <1>6 DEF FinishReason
  <2> HIDE DEF flushed
  <2>3. toolCalls' \in Seq(Call) /\ accumulator' \in Seq(Partial)
    BY <2>1, <2>2
  <2> QED BY <1>6, <2>3 DEF FinishReason
<1>7. CASE BlockStop
  <2>1. accumulator \in Seq(Partial) /\ accumulator # <<>>
    BY <1>7 DEF BlockStop
  <2>2. Head(accumulator) \in Partial /\ Tail(accumulator) \in Seq(Partial)
    BY <2>1
  <2>3. Append(toolCalls, complete(Head(accumulator))) \in Seq(Call)
    BY <1>5, <2>2
  <2> QED BY <1>7, <2>2, <2>3 DEF BlockStop
<1> QED BY <1>1, <1>2, <1>3, <1>4, <1>6, <1>7 DEF ClientStep

\* At the top of the loop an aborted run ends and another asks the model again.
LEMMA TopOfLoop ==
  ASSUME ClientTypeOK, signal \in BOOLEAN,
         NEW r \in AgentRun, NEW path \in PathsToTop, NEW h \in History,
         beginTurn(r, path, h)
  PROVE  /\ ClientTypeOK' /\ text' = "empty"
         /\ run' \in AgentRun
         /\ run'.toolStepCount = r.toolStepCount /\ run'.recoveryCount = r.recoveryCount
         /\ todo' = <<>>
         /\ UNCHANGED <<options, signal, answer>>
         /\ history' \in History /\ history'.returns = h.returns
         /\ signal => run'.state = "cancelled" /\ history'.requests = h.requests
         /\ ~signal => /\ run'.state = "waiting_for_model"
                       /\ history'.requests = h.requests + 1
                       /\ request' \notin {"idle", "cancelled"}
<1>1. /\ run' = [r EXCEPT !.state = IF signal THEN "cancelled" ELSE "waiting_for_model"]
      /\ todo' = <<>>
      /\ \/ signal /\ history' = h /\ forget
         \/ ~signal /\ history' = [h EXCEPT !.requests = h.requests + 1] /\ makeRequest
      /\ UNCHANGED <<options, signal, answer>>
  BY PathsOfTop DEF beginTurn
<1>2. /\ run' \in AgentRun /\ run'.toolStepCount = r.toolStepCount
      /\ run'.recoveryCount = r.recoveryCount
      /\ run'.state = IF signal THEN "cancelled" ELSE "waiting_for_model"
  BY <1>1 DEF AgentRun, AgentRunState, Ended
<1>3. /\ history' \in History /\ history'.returns = h.returns
      /\ history'.requests = IF signal THEN h.requests ELSE h.requests + 1
  BY <1>1 DEF History
<1>4. /\ ClientTypeOK' /\ text' = "empty"
      /\ ~signal => request' \notin {"idle", "cancelled"}
  <2>1. <<>> \in Seq(Partial) /\ <<>> \in Seq(Call) /\ "empty" \in Text
    BY DEF Text
  <2>2. CASE signal
    BY <1>1, <2>1, <2>2 DEF forget, ClientTypeOK
  <2>3. CASE ~signal
    BY <1>1, <2>1, <2>3 DEF makeRequest, ClientTypeOK, Pending, Settled, Failure
  <2> QED BY <2>2, <2>3
<1> QED BY <1>1, <1>2, <1>3, <1>4

\* The facts of the invariant about the numbers, for the steps.
LEMMA Counters ==
  ASSUME IInv
  PROVE  /\ run \in AgentRun /\ history \in History /\ signal \in BOOLEAN /\ ClientTypeOK
         /\ run.toolStepCount \in Nat /\ run.recoveryCount \in Nat
         /\ history.requests \in Nat /\ history.returns \in Nat
         /\ MAX_TOOL_STEPS_PER_REQUEST \in Nat /\ MAX_PROTOCOL_RECOVERY_TURNS \in Nat
         /\ run.toolStepCount <= MAX_TOOL_STEPS_PER_REQUEST
BY LoopAssumption DEF IInv, TypeOK, LoopTypeOK, AgentRun, History

\* What beginning a turn keeps, when the step, recovery or human that pays for its
\* request is counted in r and h.
LEMMA NextTurn ==
  ASSUME IInv, NEW r \in AgentRun, NEW path \in PathsToTop, NEW h \in History,
         beginTurn(r, path, h),
         h.requests <= r.toolStepCount + r.recoveryCount + h.returns,
         r.recoveryCount <= MAX_PROTOCOL_RECOVERY_TURNS,
         goal'.stuckScore \in 0..STALL_THRESHOLD, goal'.stuckScore < STALL_THRESHOLD,
         used' \in [bytes : Nat, commands : 0..MAX_COMMANDS_PER_AGENT_RUN],
         ReadIsBounded'
  PROVE  IInv'
<1>1. /\ ClientTypeOK' /\ text' = "empty"
      /\ run' \in AgentRun
      /\ run'.toolStepCount = r.toolStepCount /\ run'.recoveryCount = r.recoveryCount
      /\ todo' = <<>>
      /\ UNCHANGED <<options, signal, answer>>
      /\ history' \in History /\ history'.returns = h.returns
      /\ signal => run'.state = "cancelled" /\ history'.requests = h.requests
      /\ ~signal => /\ run'.state = "waiting_for_model"
                    /\ history'.requests = h.requests + 1
                    /\ request' \notin {"idle", "cancelled"}
  BY Counters, TopOfLoop
<1>2. /\ r.toolStepCount \in Nat /\ r.recoveryCount \in Nat /\ h.requests \in Nat
      /\ h.returns \in Nat /\ MAX_PROTOCOL_RECOVERY_TURNS \in Nat
  BY LoopAssumption DEF AgentRun, History
<1>3. TypeOK'
  BY <1>1 DEF IInv, TypeOK, LoopTypeOK, History
<1>4. AtAwait'
  BY <1>1, Counters DEF AtAwait, Ended
<1>5. AbortIsSeen' /\ ReturnsAreBounded'
  BY <1>1, Counters DEF AbortIsSeen, ReturnsAreBounded
<1>6. RequestsArePaid'
  <2>1. /\ Paid' = r.toolStepCount + r.recoveryCount + h.returns
        /\ run'.recoveryCount <= MAX_PROTOCOL_RECOVERY_TURNS /\ run'.recoveryCount \in Nat
    BY <1>1, <1>2 DEF Paid
  <2>2. run'.state \in {"cancelled", "waiting_for_model"}
        /\ history'.requests \in {h.requests, h.requests + 1}
    BY <1>1, Counters
  <2>3. history'.requests <= Paid' + 1 /\ Paid' \in Nat
    BY <1>2, <2>1, <2>2
  <2> QED BY <1>2, <2>1, <2>2, <2>3 DEF RequestsArePaid
<1> QED BY <1>3, <1>4, <1>5, <1>6 DEF IInv

\* What ending a run keeps.
LEMMA RunEnds ==
  ASSUME IInv, NEW r \in AgentRun, NEW state \in Ended,
         run' = [r EXCEPT !.state = state], todo' = <<>>, ClientTypeOK',
         history.requests <= r.toolStepCount + r.recoveryCount + history.returns + 1,
         r.recoveryCount > MAX_PROTOCOL_RECOVERY_TURNS =>
           history.requests <= r.toolStepCount + r.recoveryCount + history.returns,
         answer' \in {"none", "text", "control"},
         goal'.stuckScore \in 0..STALL_THRESHOLD,
         used' \in [bytes : Nat, commands : 0..MAX_COMMANDS_PER_AGENT_RUN],
         ReadIsBounded',
         UNCHANGED <<options, signal, history>>
  PROVE  IInv'
<1>1. /\ run' \in AgentRun /\ run'.toolStepCount = r.toolStepCount
      /\ run'.recoveryCount = r.recoveryCount /\ run'.state = state
  BY DEF AgentRun, AgentRunState
<1>2. TypeOK'
  BY <1>1 DEF IInv, TypeOK, LoopTypeOK
<1>3. AtAwait' /\ AbortIsSeen' /\ ReturnsAreBounded'
  BY <1>1 DEF AtAwait, AbortIsSeen, ReturnsAreBounded, Ended
<1>4. RequestsArePaid'
  BY <1>1 DEF RequestsArePaid, Paid, Ended
<1> QED BY <1>2, <1>3, <1>4 DEF IInv

\* What a tool call may use.
LEMMA ToolUse ==
  ASSUME IInv, NEW call, executeProjectTool(call)
  PROVE  /\ used' \in [bytes : Nat, commands : 0..MAX_COMMANDS_PER_AGENT_RUN]
         /\ ReadIsBounded'
<1> USE LoopAssumption
<1>1. /\ used \in [bytes : Nat, commands : 0..MAX_COMMANDS_PER_AGENT_RUN]
      /\ used.bytes < MAX_TOTAL_AGENT_READ_BYTES + MAX_SINGLE_FILE_READ_BYTES
  BY DEF IInv, TypeOK, LoopTypeOK, ReadIsBounded
<1>2. CASE UNCHANGED used
  BY <1>1, <1>2 DEF ReadIsBounded
<1>3. CASE handleReadFile
  BY <1>1, <1>3 DEF handleReadFile, ReadIsBounded
<1>4. CASE handleRunCommand
  BY <1>1, <1>4 DEF handleRunCommand, ReadIsBounded
<1> QED BY <1>2, <1>3, <1>4 DEF executeProjectTool

LEMMA Budgets ==
  ASSUME IInv
  PROVE  /\ used \in [bytes : Nat, commands : 0..MAX_COMMANDS_PER_AGENT_RUN]
         /\ goal.stuckScore \in 0..STALL_THRESHOLD
         /\ ReadIsBounded
BY DEF IInv, TypeOK, LoopTypeOK

LEMMA StartStep ==
  ASSUME IInv, Start
  PROVE  IInv'
<1>1. /\ run.state = "queued"
      /\ beginTurn(run, <<"queued", "starting", "waiting_for_model">>, history)
      /\ UNCHANGED <<goal, used>>
  BY DEF Start
<1>2. <<"queued", "starting", "waiting_for_model">> \in PathsToTop
  BY DEF PathsToTop
<1>3. /\ goal.stuckScore < STALL_THRESHOLD /\ run.recoveryCount <= MAX_PROTOCOL_RECOVERY_TURNS
      /\ history.requests = 0
  BY <1>1 DEF IInv, AtAwait, RequestsArePaid, Ended
<1>4. ReadIsBounded'
  BY <1>1, Budgets DEF ReadIsBounded
<1> QED BY <1>1, <1>2, <1>3, <1>4, Counters, Budgets, NextTurn

LEMMA ReceiveStep ==
  ASSUME IInv, Receive
  PROVE  IInv'
<1>1. /\ run.state = "waiting_for_model" /\ ClientStep
      /\ text' = "blocked" => history.returns < MaxReturns
      /\ UNCHANGED <<options, run, signal, todo, goal, used, answer, history>>
  BY DEF Receive, loop
<1>2. /\ ClientTypeOK' /\ request \in Pending
      /\ request' \in (Pending \union Settled) \ {"cancelled"}
  BY <1>1, SocketEvent, Counters
<1>3. TypeOK' /\ AtAwait' /\ RequestsArePaid' /\ ReturnsAreBounded' /\ ReadIsBounded'
  BY <1>1, <1>2 DEF IInv, TypeOK, LoopTypeOK, AtAwait, RequestsArePaid, Paid,
                    ReturnsAreBounded, ReadIsBounded
<1>4. AbortIsSeen'
  BY <1>1, <1>2 DEF IInv, AbortIsSeen, Pending, Settled, Failure
<1> QED BY <1>3, <1>4 DEF IInv

\* A run that is not over has paid for its requests, and its turn was not aborted.
LEMMA AtTurn ==
  ASSUME IInv, Turn
  PROVE  /\ ~signal /\ run.state = "waiting_for_model" /\ todo = <<>>
         /\ goal.stuckScore < STALL_THRESHOLD
         /\ history.requests <= run.toolStepCount + run.recoveryCount + history.returns + 1
         /\ run.recoveryCount <= MAX_PROTOCOL_RECOVERY_TURNS
BY DEF IInv, Turn, AtAwait, AbortIsSeen, RequestsArePaid, Paid, Ended

\* The client forgets a request whose run ends.
LEMMA Forgotten ==
  ASSUME ClientTypeOK, forget
  PROVE  ClientTypeOK'
<1>1. <<>> \in Seq(Partial) /\ <<>> \in Seq(Call) /\ "empty" \in Text
  BY DEF Text
<1> QED BY <1>1 DEF forget, ClientTypeOK

LEMMA ModelFailsStep ==
  ASSUME IInv, ModelFails
  PROVE  IInv'
<1> DEFINE state == IF signal \/ request = "cancelled" THEN "cancelled" ELSE "failed"
<1>1. /\ run.state = "waiting_for_model"
      /\ stop(<<run.state, state>>)
      /\ UNCHANGED answer
  BY DEF ModelFails
<1>2. transition(<<run.state, state>>) = state /\ state \in Ended
  BY <1>1, OtherPaths DEF Ended
<1> HIDE DEF state
<1>3. /\ run' = [run EXCEPT !.state = state] /\ todo' = <<>> /\ ClientTypeOK'
      /\ UNCHANGED <<options, signal, goal, used, history, answer>>
  BY <1>1, <1>2, Counters, Forgotten DEF stop, end
<1>4. /\ history.requests <= run.toolStepCount + run.recoveryCount + history.returns + 1
      /\ run.recoveryCount <= MAX_PROTOCOL_RECOVERY_TURNS
  BY <1>1 DEF IInv, RequestsArePaid, Paid, Ended
<1>5. ReadIsBounded' /\ answer' \in {"none", "text", "control"}
  BY <1>3, Budgets DEF ReadIsBounded, IInv, TypeOK, LoopTypeOK
<1> QED BY <1>2, <1>3, <1>4, <1>5, Counters, Budgets, RunEnds

LEMMA BeginCallsStep ==
  ASSUME IInv, BeginCalls
  PROVE  IInv'
<1>1. /\ Turn /\ decision.kind = "tool_calls"
      /\ run' = [run EXCEPT !.state = "executing_tools"]
      /\ todo' = decision.calls
      /\ UNCHANGED <<client, options, signal, goal, used, answer, history>>
  BY PathsOfATurn DEF BeginCalls
<1>2. decision.calls \in Seq(Call) /\ Len(decision.calls) > 0 /\ ~budgetExhausted
  BY <1>1, DecisionIs DEF IInv
<1>3. /\ run' \in AgentRun /\ run'.state = "executing_tools"
      /\ run'.toolStepCount = run.toolStepCount /\ run'.recoveryCount = run.recoveryCount
  BY <1>1, Counters DEF AgentRun, AgentRunState
<1>4. TypeOK'
  BY <1>1, <1>2, <1>3 DEF IInv, TypeOK, LoopTypeOK, ClientTypeOK, client
<1>5. AtAwait'
  BY <1>1, <1>2, <1>3, AtTurn DEF AtAwait, Ended
<1>6. RequestsArePaid'
  <2>1. run.toolStepCount < MAX_TOOL_STEPS_PER_REQUEST
    BY <1>2, Counters DEF budgetExhausted
  <2> QED BY <1>1, <1>3, <2>1, AtTurn, Counters DEF RequestsArePaid, Paid
<1>7. AbortIsSeen' /\ ReturnsAreBounded' /\ ReadIsBounded'
  BY <1>1, <1>3 DEF IInv, AbortIsSeen, ReturnsAreBounded, ReadIsBounded
<1> QED BY <1>4, <1>5, <1>6, <1>7 DEF IInv

LEMMA HumanRequiredStep ==
  ASSUME IInv, HumanRequired
  PROVE  IInv'
<1> DEFINE h == [history EXCEPT !.returns = history.returns + 1]
           path == Processing \o <<"waiting_for_human">>
<1>1. Turn /\ decision.kind = "human_required" /\ UNCHANGED <<goal, used>>
  BY DEF HumanRequired
<1>2. history.returns < MaxReturns
  BY <1>1, DecisionIs DEF IInv, ReturnsAreBounded, Turn
<1>3. /\ h \in History /\ h.returns = history.returns + 1 /\ h.requests = history.requests
      /\ MaxReturns \in Nat
  BY <1>2, Counters, LoopAssumption DEF History
<1>4. ReadIsBounded'
  BY <1>1, Budgets DEF ReadIsBounded
<1>5. CASE /\ run' = [run EXCEPT !.state = transition(path)]
           /\ history' = h
           /\ UNCHANGED <<client, options, signal, todo, answer>>
  <2>1. /\ run' \in AgentRun /\ run'.state = "waiting_for_human"
        /\ run'.toolStepCount = run.toolStepCount /\ run'.recoveryCount = run.recoveryCount
    BY <1>5, PathsOfATurn, Counters DEF AgentRun, AgentRunState
  <2> HIDE DEF h, path
  <2>2. TypeOK'
    BY <1>1, <1>3, <1>5, <2>1 DEF IInv, TypeOK, LoopTypeOK, ClientTypeOK, client, History
  <2>3. AtAwait' /\ AbortIsSeen' /\ ReturnsAreBounded'
    BY <1>1, <1>5, <2>1, AtTurn DEF AtAwait, AbortIsSeen, ReturnsAreBounded, Ended
  <2>4. RequestsArePaid'
    BY <1>1, <1>3, <1>5, <2>1, AtTurn, Counters DEF RequestsArePaid, Paid
  <2> QED BY <1>4, <2>2, <2>3, <2>4 DEF IInv
<1>6. CASE beginTurn(run, path \o <<"continuing", "waiting_for_model">>, h)
  <2>1. path \o <<"continuing", "waiting_for_model">> \in PathsToTop
    BY DEF PathsToTop
  <2>2. h.requests <= run.toolStepCount + run.recoveryCount + h.returns
    BY <1>1, <1>3, AtTurn, Counters
  <2> HIDE DEF h, path
  <2> QED BY <1>1, <1>3, <1>4, <1>6, <2>1, <2>2, AtTurn, Counters, Budgets, NextTurn
<1> QED BY <1>5, <1>6 DEF HumanRequired

LEMMA FinalStep ==
  ASSUME IInv, Final
  PROVE  IInv'
<1>1. /\ Turn
      /\ run' = [run EXCEPT !.state = "completed"] /\ todo' = <<>> /\ ClientTypeOK'
      /\ answer' \in {"text", "control"}
      /\ UNCHANGED <<options, signal, goal, used, history>>
  BY PathsOfATurn, Counters, Forgotten DEF Final, stop, end
<1>2. ReadIsBounded' /\ "completed" \in Ended
  BY <1>1, Budgets DEF ReadIsBounded, Ended
<1> QED BY <1>1, <1>2, AtTurn, Counters, Budgets, RunEnds

LEMMA RecoverStep ==
  ASSUME IInv, Recover
  PROVE  IInv'
<1> DEFINE r == [run EXCEPT !.recoveryCount = run.recoveryCount + 1]
           path == Processing \o <<"continuing", "waiting_for_model">>
<1>1. /\ Turn /\ run.recoveryCount < MAX_PROTOCOL_RECOVERY_TURNS
      /\ beginTurn(r, path, history)
      /\ UNCHANGED <<goal, used>>
  BY DEF Recover
<1>2. /\ r \in AgentRun /\ r.recoveryCount = run.recoveryCount + 1
      /\ r.toolStepCount = run.toolStepCount
  BY <1>1, Counters DEF AgentRun
<1>3. path \in PathsToTop
  BY DEF PathsToTop
<1> HIDE DEF r, path
<1>4. /\ history.requests <= r.toolStepCount + r.recoveryCount + history.returns
      /\ r.recoveryCount <= MAX_PROTOCOL_RECOVERY_TURNS
  BY <1>1, <1>2, AtTurn, Counters
<1>5. ReadIsBounded'
  BY <1>1, Budgets DEF ReadIsBounded
<1> QED BY <1>1, <1>2, <1>3, <1>4, <1>5, AtTurn, Counters, Budgets, NextTurn

LEMMA GiveUpStep ==
  ASSUME IInv, GiveUp
  PROVE  IInv'
<1>1. /\ Turn /\ UNCHANGED <<answer, options, signal, goal, used, history>>
      /\ todo' = <<>> /\ ClientTypeOK'
  BY Counters, Forgotten DEF GiveUp, stop, end
<1>2. /\ ReadIsBounded' /\ "failed" \in Ended
      /\ answer' \in {"none", "text", "control"}
  BY <1>1, Budgets DEF ReadIsBounded, Ended, IInv, TypeOK, LoopTypeOK
<1>3. CASE run' = [run EXCEPT !.state = "failed"]
  BY <1>1, <1>2, <1>3, AtTurn, Counters, Budgets, RunEnds
<1>4. CASE /\ run.recoveryCount = MAX_PROTOCOL_RECOVERY_TURNS
           /\ run' = [[run EXCEPT !.recoveryCount = run.recoveryCount + 1]
                        EXCEPT !.state = "failed"]
  <2> DEFINE r == [run EXCEPT !.recoveryCount = run.recoveryCount + 1]
  <2>1. /\ r \in AgentRun /\ r.recoveryCount = run.recoveryCount + 1
        /\ r.toolStepCount = run.toolStepCount
    BY <1>4, Counters DEF AgentRun
  <2>2. run' = [r EXCEPT !.state = "failed"]
    BY <1>4
  <2> HIDE DEF r
  <2>3. history.requests <= r.toolStepCount + r.recoveryCount + history.returns
    BY <1>1, <2>1, AtTurn, Counters
  <2>4. history.requests <= r.toolStepCount + r.recoveryCount + history.returns + 1
    BY <2>1, <2>3, Counters
  <2> QED BY <1>1, <1>2, <2>1, <2>2, <2>3, <2>4, Budgets, RunEnds
<1> QED BY <1>3, <1>4, PathsOfATurn DEF GiveUp, stop, end

LEMMA CallEndsStep ==
  ASSUME IInv, CallEnds
  PROVE  IInv'
<1>1. /\ Len(todo) > 1 /\ executeProjectTool(Head(todo))
      /\ UNCHANGED <<client, options, signal, goal, answer, history>>
  BY DEF CallEnds
<1>2. /\ todo \in Seq(Call) /\ todo # <<>>
      /\ Tail(todo) \in Seq(Call) /\ Len(Tail(todo)) = Len(todo) - 1
  BY <1>1 DEF IInv, TypeOK, LoopTypeOK
<1>3. run.state = "executing_tools"
  BY <1>2 DEF IInv, AtAwait
<1>4. /\ used' \in [bytes : Nat, commands : 0..MAX_COMMANDS_PER_AGENT_RUN]
      /\ ReadIsBounded'
  BY <1>1, ToolUse
<1>5. CASE todo' = Tail(todo) /\ UNCHANGED run
  <2>1. todo' \in Seq(Call) /\ todo' # <<>>
    BY <1>1, <1>2, <1>5
  <2>2. TypeOK'
    BY <1>1, <1>4, <1>5, <2>1 DEF IInv, TypeOK, LoopTypeOK, ClientTypeOK, client
  <2>3. AtAwait' /\ AbortIsSeen' /\ RequestsArePaid' /\ ReturnsAreBounded'
    BY <1>1, <1>3, <1>5, <2>1
       DEF IInv, AtAwait, AbortIsSeen, RequestsArePaid, Paid, ReturnsAreBounded
  <2> QED BY <1>4, <2>2, <2>3 DEF IInv
<1>6. CASE /\ todo' = <<>>
           /\ run' = [run EXCEPT !.state = transition(<<run.state, "cancelled">>)]
  <2>1. run' = [run EXCEPT !.state = "cancelled"] /\ "cancelled" \in Ended
    BY <1>3, <1>6, OtherPaths DEF Ended
  <2>2. ClientTypeOK' /\ answer' \in {"none", "text", "control"}
    BY <1>1 DEF IInv, TypeOK, LoopTypeOK, ClientTypeOK, client
  <2>3. /\ history.requests <= run.toolStepCount + run.recoveryCount + history.returns + 1
        /\ run.recoveryCount <= MAX_PROTOCOL_RECOVERY_TURNS
    BY <1>3 DEF IInv, RequestsArePaid, Paid, Ended
  <2>4. UNCHANGED <<options, signal, history>> /\ goal'.stuckScore \in 0..STALL_THRESHOLD
    BY <1>1, Budgets
  <2>5. run \in AgentRun /\ ~ (run.recoveryCount > MAX_PROTOCOL_RECOVERY_TURNS)
    BY <2>3, Counters
  <2>6. todo' = <<>>
    BY <1>6
  <2> QED BY <1>4, <2>1, <2>2, <2>3, <2>4, <2>5, <2>6, RunEnds
<1> QED BY <1>5, <1>6 DEF CallEnds

LEMMA TurnEndsStep ==
  ASSUME IInv, TurnEnds
  PROVE  IInv'
<1> DEFINE r == [run EXCEPT !.toolStepCount = run.toolStepCount + 1]
<1>1. /\ Len(todo) = 1 /\ executeProjectTool(Head(todo))
      /\ goal' = [last |-> thisTurn, stuckScore |-> stuck]
      /\ \/ /\ stuck < STALL_THRESHOLD
            /\ beginTurn(r, <<"executing_tools", "continuing", "waiting_for_model">>, history)
         \/ /\ stuck >= STALL_THRESHOLD
            /\ run' = [r EXCEPT !.state = "failed"]
            /\ todo' = <<>>
            /\ forget
            /\ UNCHANGED <<options, signal, answer, history>>
  BY OtherPaths DEF TurnEnds
<1>2. run.state = "executing_tools"
  BY <1>1 DEF IInv, AtAwait
<1>3. /\ run.toolStepCount < MAX_TOOL_STEPS_PER_REQUEST
      /\ run.recoveryCount <= MAX_PROTOCOL_RECOVERY_TURNS
      /\ history.requests <= run.toolStepCount + run.recoveryCount + history.returns + 1
      /\ goal.stuckScore < STALL_THRESHOLD
  BY <1>2 DEF IInv, AtAwait, RequestsArePaid, Paid, Ended
<1>4. /\ r \in AgentRun /\ r.toolStepCount = run.toolStepCount + 1
      /\ r.recoveryCount = run.recoveryCount
  BY <1>3, Counters DEF AgentRun
<1> HIDE DEF r
<1>5. /\ history.requests <= r.toolStepCount + r.recoveryCount + history.returns
      /\ r.recoveryCount <= MAX_PROTOCOL_RECOVERY_TURNS
  BY <1>3, <1>4, Counters
<1>6. stuck \in 0..STALL_THRESHOLD /\ goal'.stuckScore = stuck
  BY <1>1, <1>3, Budgets, LoopAssumption DEF stuck
<1>7. /\ used' \in [bytes : Nat, commands : 0..MAX_COMMANDS_PER_AGENT_RUN]
      /\ ReadIsBounded'
  BY <1>1, ToolUse
<1>8. CASE /\ stuck < STALL_THRESHOLD
           /\ beginTurn(r, <<"executing_tools", "continuing", "waiting_for_model">>, history)
  <2>1. <<"executing_tools", "continuing", "waiting_for_model">> \in PathsToTop
    BY DEF PathsToTop
  <2> QED BY <1>4, <1>5, <1>6, <1>7, <1>8, <2>1, Counters, NextTurn
<1>9. CASE /\ run' = [r EXCEPT !.state = "failed"]
           /\ todo' = <<>>
           /\ forget
           /\ UNCHANGED <<options, signal, answer, history>>
  <2>1. ClientTypeOK' /\ "failed" \in Ended /\ answer' \in {"none", "text", "control"}
    BY <1>9, Counters, Forgotten DEF Ended, IInv, TypeOK, LoopTypeOK
  <2>2. history.requests <= r.toolStepCount + r.recoveryCount + history.returns + 1
    BY <1>4, <1>5, Counters
  <2> QED BY <1>4, <1>5, <1>6, <1>7, <1>9, <2>1, <2>2, Counters, RunEnds
<1> QED BY <1>1, <1>8, <1>9

LEMMA AbortStep ==
  ASSUME IInv, Abort
  PROVE  IInv'
<1>1. /\ ~signal /\ run.state \notin Ended
      /\ run.state = "waiting_for_model" => request \notin Settled
      /\ signal' = TRUE
      /\ abortRequest
      /\ UNCHANGED <<options, run, todo, goal, used, answer, history>>
  BY DEF Abort
<1>2. /\ ClientTypeOK' /\ text' = text
      /\ request \in Pending => request' = "cancelled"
  BY <1>1, Counters DEF abortRequest, settle, client, ClientTypeOK, Settled, Failure
<1>3. TypeOK' /\ AtAwait' /\ RequestsArePaid' /\ ReturnsAreBounded' /\ ReadIsBounded'
  BY <1>1, <1>2 DEF IInv, TypeOK, LoopTypeOK, AtAwait, RequestsArePaid, Paid,
                    ReturnsAreBounded, ReadIsBounded
<1>4. AbortIsSeen'
  <2> SUFFICES ASSUME run.state = "waiting_for_model" PROVE request' = "cancelled"
    BY <1>1 DEF AbortIsSeen
  <2>1. request \in Pending
    BY <1>1, Counters DEF IInv, AbortIsSeen, ClientTypeOK
  <2> QED BY <1>2, <2>1
<1> QED BY <1>3, <1>4 DEF IInv

LEMMA ReturnControlStep ==
  ASSUME IInv, ReturnControl
  PROVE  IInv'
<1>1. /\ run.state = "waiting_for_human"
      /\ beginTurn(run, <<"waiting_for_human", "continuing", "waiting_for_model">>, history)
      /\ UNCHANGED <<goal, used>>
  BY DEF ReturnControl, Waiting
<1>2. <<"waiting_for_human", "continuing", "waiting_for_model">> \in PathsToTop
  BY DEF PathsToTop
<1>3. /\ goal.stuckScore < STALL_THRESHOLD /\ run.recoveryCount <= MAX_PROTOCOL_RECOVERY_TURNS
      /\ history.requests <= run.toolStepCount + run.recoveryCount + history.returns
  BY <1>1 DEF IInv, AtAwait, RequestsArePaid, Paid, Ended
<1>4. ReadIsBounded'
  BY <1>1, Budgets DEF ReadIsBounded
<1> QED BY <1>1, <1>2, <1>3, <1>4, Counters, Budgets, NextTurn

LEMMA WaitRejectedStep ==
  ASSUME IInv, WaitRejected
  PROVE  IInv'
<1>1. run.state = "waiting_for_human"
  BY DEF WaitRejected, Waiting
<1>2. /\ run' = [run EXCEPT !.state = "cancelled"] /\ todo' = <<>> /\ ClientTypeOK'
      /\ UNCHANGED <<options, signal, goal, used, history, answer>>
  BY OtherPaths, Counters, Forgotten DEF WaitRejected, stop, end
<1>3. /\ history.requests <= run.toolStepCount + run.recoveryCount + history.returns + 1
      /\ run.recoveryCount <= MAX_PROTOCOL_RECOVERY_TURNS
  BY <1>1 DEF IInv, RequestsArePaid, Paid, Ended
<1>4. ReadIsBounded' /\ answer' \in {"none", "text", "control"} /\ "cancelled" \in Ended
  BY <1>2, Budgets DEF ReadIsBounded, IInv, TypeOK, LoopTypeOK, Ended
<1> QED BY <1>2, <1>3, <1>4, Counters, Budgets, RunEnds

LEMMA NextIInv ==
  ASSUME IInv, [Next]_vars
  PROVE  IInv'
<1>1. CASE UNCHANGED vars
  BY <1>1 DEF vars, loop, client, IInv, TypeOK, LoopTypeOK, ClientTypeOK, AtAwait, AbortIsSeen,
              RequestsArePaid, Paid, ReturnsAreBounded, ReadIsBounded
<1> QED BY <1>1, StartStep, ReceiveStep, ModelFailsStep, BeginCallsStep, HumanRequiredStep,
           FinalStep, RecoverStep, GiveUpStep, WaitRejectedStep, CallEndsStep, TurnEndsStep,
           AbortStep, ReturnControlStep
        DEF Next, Continue, ToolReturns

-----------------------------------------------------------------------------
(* Theorems.                                                               *)

\* Every request is paid for, and every await of the run is one its table allows.
THEOREM Invariant == Spec => []IInv
BY InitIInv, NextIInv, PTL DEF Spec

\* The run, its request and its budgets have their types, the counters within their limits.
THEOREM TypeCorrect == Spec => []TypeOK
<1>1. IInv => TypeOK
  BY DEF IInv
<1> QED BY <1>1, Invariant, PTL

\* No way through the loop, with whatever the model, the tools and the user do, makes a
\* transition that the table of the run refuses.
THEOREM PathsAreAllowed == Spec => []EveryPathIsAllowed
<1>1. IInv => EveryPathIsAllowed
  BY DEF IInv, AtAwait, EveryPathIsAllowed, Ended
<1> QED BY <1>1, Invariant, PTL

\* A run asks the model at most once more than its steps, its recoveries and its humans
\* allow, and reads at most one file beyond its limit.
THEOREM WorkBound == Spec => []WorkIsBounded
<1>1. IInv => WorkIsBounded
  BY Counters DEF IInv, RequestsArePaid, Paid, ReadIsBounded, WorkIsBounded, AgentRun
<1> QED BY <1>1, Invariant, PTL

-----------------------------------------------------------------------------
(* The refinement.                                                         *)

\* What the contract sees of a state.
LEMMA Phases ==
  ASSUME IInv
  PROVE  /\ run.state \in Ended => phase = run.state
         /\ run.state = "executing_tools" => phase = "acting"
         /\ run.state = "waiting_for_human" => phase = "waiting"
         /\ run.state \in {"queued", "waiting_for_model"} => phase = "thinking"
         /\ run.state # "executing_tools" => Len(todo) = 0
         /\ Len(todo) \in Nat
         /\ phase \in Ended <=> run.state \in Ended
BY DEF phase, IInv, AtAwait, Ended, TypeOK, LoopTypeOK

LEMMA PhasesAfter ==
  ASSUME IInv'
  PROVE  /\ run'.state \in Ended => phase' = run'.state
         /\ run'.state = "executing_tools" => phase' = "acting"
         /\ run'.state = "waiting_for_human" => phase' = "waiting"
         /\ run'.state \in {"queued", "waiting_for_model"} => phase' = "thinking"
         /\ run'.state # "executing_tools" => Len(todo)' = 0
         /\ Len(todo)' \in Nat
BY DEF phase, IInv, AtAwait, Ended, TypeOK, LoopTypeOK

\* Where beginning a turn leaves the contract.
LEMMA TopIsSeen ==
  ASSUME IInv, IInv', NEW r \in AgentRun, NEW path \in PathsToTop, NEW h \in History,
         beginTurn(r, path, h)
  PROVE  /\ Len(todo)' = 0 /\ UNCHANGED signal
         /\ signal => phase' = "cancelled"
         /\ ~signal => phase' = "thinking"
<1>1. /\ UNCHANGED signal
      /\ signal => run'.state = "cancelled"
      /\ ~signal => run'.state = "waiting_for_model"
  BY Counters, TopOfLoop
<1> QED BY <1>1, PhasesAfter, Counters DEF Ended

LEMMA InitRefines == Init => Contract!Init
<1> SUFFICES ASSUME Init PROVE Contract!Init
  OBVIOUS
<1>1. run.state = "queued" /\ todo = <<>> /\ signal \in BOOLEAN
  BY DEF Init
<1>2. phase = "thinking"
  BY <1>1 DEF phase, Ended
<1> QED BY <1>1, <1>2 DEF Contract!Init

\* Each step of the loop is a step of the contract, or one it does not see.
LEMMA StepRefines ==
  ASSUME IInv, IInv', [Next]_vars
  PROVE  [Contract!Next]_(Contract!vars)
<1> USE Phases, PhasesAfter
<1> USE DEF Contract!Next, Contract!Step, Contract!vars, Contract!Ended, Ended
<1>1. CASE UNCHANGED vars
  BY <1>1 DEF vars, loop, phase
<1>2. CASE Start
  <2>1. /\ run.state = "queued"
        /\ beginTurn(run, <<"queued", "starting", "waiting_for_model">>, history)
        /\ <<"queued", "starting", "waiting_for_model">> \in PathsToTop
    BY <1>2 DEF Start, PathsToTop
  <2>2. /\ Len(todo)' = 0 /\ UNCHANGED signal
        /\ signal => phase' = "cancelled"
        /\ ~signal => phase' = "thinking"
    BY <2>1, Counters, TopIsSeen
  <2> QED BY <2>1, <2>2, Counters DEF Contract!Cancel
<1>3. CASE Receive
  BY <1>3 DEF Receive, loop, phase
<1>4. CASE ModelFails
  <2> DEFINE state == IF signal \/ request = "cancelled" THEN "cancelled" ELSE "failed"
  <2>1. /\ run.state = "waiting_for_model" /\ UNCHANGED signal
        /\ run' = [run EXCEPT !.state = transition(<<"waiting_for_model", state>>)]
    BY <1>4 DEF ModelFails, stop, end
  <2>2. run'.state = state
    BY <2>1, OtherPaths, Counters DEF AgentRun
  <2>3. signal <=> request = "cancelled"
    BY <2>1 DEF IInv, AbortIsSeen
  <2> QED BY <2>1, <2>2, <2>3 DEF Contract!Cancel, Contract!Fail
<1>5. CASE BeginCalls
  <2>1. /\ Turn /\ decision.kind = "tool_calls" /\ UNCHANGED signal
        /\ run'.state = "executing_tools" /\ todo' = decision.calls
    BY <1>5, PathsOfATurn, Counters DEF BeginCalls, AgentRun
  <2>2. Len(todo)' \in Nat \ {0}
    BY <2>1, DecisionIs DEF IInv
  <2> QED BY <2>1, <2>2, AtTurn DEF Contract!BeginCalls
<1>6. CASE HumanRequired
  <2> DEFINE h == [history EXCEPT !.returns = history.returns + 1]
             path == Processing \o <<"waiting_for_human">>
  <2>1. Turn /\ decision.kind = "human_required"
    BY <1>6 DEF HumanRequired
  <2>2. run.state = "waiting_for_model" /\ ~signal
    BY <2>1, AtTurn
  <2>3. CASE /\ run' = [run EXCEPT !.state = transition(path)]
             /\ UNCHANGED <<client, options, signal, todo, answer>>
    <3>1. run'.state = "waiting_for_human" /\ UNCHANGED <<signal, todo>>
      BY <2>3, PathsOfATurn, Counters DEF AgentRun
    <3> QED BY <2>2, <3>1 DEF Contract!AskHuman
  <2>4. CASE beginTurn(run, path \o <<"continuing", "waiting_for_model">>, h)
    <3>1. path \o <<"continuing", "waiting_for_model">> \in PathsToTop
      BY DEF PathsToTop
    <3>2. h \in History
      BY <2>1, DecisionIs, Counters, LoopAssumption
         DEF IInv, ReturnsAreBounded, Turn, History
    <3> HIDE DEF h, path
    <3>3. Len(todo)' = 0 /\ UNCHANGED signal /\ phase' = "thinking"
      BY <2>2, <2>4, <3>1, <3>2, Counters, TopIsSeen
    <3> QED BY <2>2, <3>3
  <2> QED BY <1>6, <2>3, <2>4 DEF HumanRequired
<1>7. CASE Final
  <2>1. Turn /\ run'.state = "completed" /\ UNCHANGED signal
    BY <1>7, PathsOfATurn, Counters DEF Final, stop, end, AgentRun
  <2> QED BY <2>1, AtTurn DEF Contract!Answer
<1>8. CASE Recover
  <2> DEFINE r == [run EXCEPT !.recoveryCount = run.recoveryCount + 1]
             path == Processing \o <<"continuing", "waiting_for_model">>
  <2>1. /\ Turn /\ run.recoveryCount < MAX_PROTOCOL_RECOVERY_TURNS
        /\ beginTurn(r, path, history)
    BY <1>8 DEF Recover
  <2>2. r \in AgentRun
    BY <2>1, Counters DEF AgentRun
  <2>3. path \in PathsToTop
    BY DEF PathsToTop
  <2> HIDE DEF r, path
  <2>4. run.state = "waiting_for_model" /\ ~signal
    BY <2>1, AtTurn
  <2>5. Len(todo)' = 0 /\ UNCHANGED signal /\ phase' = "thinking"
    BY <2>1, <2>2, <2>3, <2>4, Counters, TopIsSeen
  <2> QED BY <2>4, <2>5
<1>9. CASE GiveUp
  <2>1. Turn /\ run'.state = "failed" /\ UNCHANGED signal
    BY <1>9, PathsOfATurn, Counters DEF GiveUp, stop, end, AgentRun
  <2> QED BY <2>1, AtTurn DEF Contract!Fail
<1>10. CASE WaitRejected
  <2>1. /\ run.state = "waiting_for_human" /\ signal /\ UNCHANGED signal
        /\ run'.state = "cancelled"
    BY <1>10, OtherPaths, Counters DEF WaitRejected, Waiting, stop, end, AgentRun
  <2> QED BY <2>1 DEF Contract!Cancel
<1>11. CASE CallEnds
  <2>1. /\ Len(todo) > 1 /\ UNCHANGED signal
        /\ \/ ~signal /\ todo' = Tail(todo) /\ UNCHANGED run
           \/ /\ signal
              /\ run' = [run EXCEPT !.state = transition(<<run.state, "cancelled">>)]
    BY <1>11 DEF CallEnds
  <2>2. run.state = "executing_tools" /\ Len(Tail(todo)) = Len(todo) - 1
    BY <2>1 DEF IInv, AtAwait, TypeOK, LoopTypeOK
  <2>3. CASE ~signal /\ todo' = Tail(todo) /\ UNCHANGED run
    BY <2>1, <2>2, <2>3 DEF Contract!NextCall
  <2>4. CASE signal /\ run' = [run EXCEPT !.state = transition(<<run.state, "cancelled">>)]
    <3>1. run'.state = "cancelled"
      BY <2>2, <2>4, OtherPaths, Counters DEF AgentRun
    <3> QED BY <2>1, <2>2, <2>4, <3>1 DEF Contract!Cancel
  <2> QED BY <2>1, <2>3, <2>4
<1>12. CASE TurnEnds
  <2> DEFINE r == [run EXCEPT !.toolStepCount = run.toolStepCount + 1]
             path == <<"executing_tools", "continuing", "waiting_for_model">>
  <2>1. /\ Len(todo) = 1
        /\ \/ beginTurn(r, path, history)
           \/ run' = [r EXCEPT !.state = "failed"] /\ UNCHANGED signal
    BY <1>12, OtherPaths DEF TurnEnds
  <2>2. run.state = "executing_tools" /\ run.toolStepCount < MAX_TOOL_STEPS_PER_REQUEST
    BY <2>1 DEF IInv, AtAwait, RequestsArePaid
  <2>3. r \in AgentRun
    BY <2>2, Counters DEF AgentRun
  <2>4. path \in PathsToTop
    BY DEF PathsToTop
  <2> HIDE DEF r, path
  <2>5. CASE beginTurn(r, path, history)
    <3>1. /\ Len(todo)' = 0 /\ UNCHANGED signal
          /\ signal => phase' = "cancelled"
          /\ ~signal => phase' = "thinking"
      BY <2>3, <2>4, <2>5, Counters, TopIsSeen
    <3> QED BY <2>1, <2>2, <3>1, Counters DEF Contract!LastCallEnds, Contract!Cancel
  <2>6. CASE run' = [r EXCEPT !.state = "failed"] /\ UNCHANGED signal
    <3>1. run'.state = "failed"
      BY <2>3, <2>6 DEF AgentRun
    <3> QED BY <2>1, <2>2, <2>6, <3>1 DEF Contract!LastCallEnds
  <2> QED BY <2>1, <2>5, <2>6
<1>13. CASE Abort
  <2>1. ~signal /\ run.state \notin Ended /\ signal' = TRUE /\ UNCHANGED <<run, todo>>
    BY <1>13 DEF Abort
  <2>2. UNCHANGED phase
    BY <2>1 DEF phase
  <2> QED BY <2>1, <2>2 DEF Contract!Abort
<1>14. CASE ReturnControl
  <2> DEFINE path == <<"waiting_for_human", "continuing", "waiting_for_model">>
  <2>1. run.state = "waiting_for_human" /\ ~signal /\ beginTurn(run, path, history)
    BY <1>14 DEF ReturnControl, Waiting
  <2>2. path \in PathsToTop
    BY DEF PathsToTop
  <2> HIDE DEF path
  <2>3. Len(todo)' = 0 /\ UNCHANGED signal /\ phase' = "thinking"
    BY <2>1, <2>2, Counters, TopIsSeen
  <2> QED BY <2>1, <2>3 DEF Contract!ReturnControl
<1> QED BY <1>1, <1>2, <1>3, <1>4, <1>5, <1>6, <1>7, <1>8, <1>9, <1>10, <1>11, <1>12, <1>13,
           <1>14
        DEF Next, Continue, ToolReturns

\* The safety part of ImplementsContract: whatever the model, the tools and the user do,
\* the loop takes the steps the queue expects of a run, so that nothing begins after an
\* abort and an aborted run gives no answer.
THEOREM LoopIsARun == Spec => Contract!Safety
<1>1. Spec => Contract!Init
  BY InitRefines DEF Spec
<1>2. IInv /\ IInv' /\ [Next]_vars => [Contract!Next]_(Contract!vars)
  BY StepRefines
<1>3. Spec => [][Contract!Next]_(Contract!vars)
  BY <1>2, Invariant, PTL DEF Spec
<1> QED BY <1>1, <1>3 DEF Contract!Safety

-----------------------------------------------------------------------------
(* The browser.  Consents are given and withdrawn one at a time while      *)
(* controls go with tabs, sessions, profiles, windows and stopped runs:    *)
(* what every step keeps is that each control has its consent.             *)

\* That an agent which is neither refused nor asked for is allowed, is what is added.
PoliciesStored == \A p \in DOMAIN profiles : profiles[p] \in Policy

BrowserIInv == PoliciesStored /\ ConsentPrecedesControl /\ ReferencesExist

-----------------------------------------------------------------------------
(* The operators of the model *)

LEMMA Updates ==
  ASSUME NEW ss, NEW s, NEW patch
  PROVE  DOMAIN Browser!updateBrowserSession(ss, s, patch) = DOMAIN ss
  BY DEF Browser!updateBrowserSession

\* A revoked control leaves the consents of the others.
LEMMA RevokeKeeps ==
  ASSUME ConsentPrecedesControl, NEW S, Browser!Revoke(S)
  PROVE  ConsentPrecedesControl'
  <1> DEFINE lost == S \cap DOMAIN controls
  <1>1. /\ controls' = Browser!Without(controls, lost) /\ consents' = {c \in consents : c[2] \notin lost}
    BY DEF Browser!Revoke
  <1>2. DOMAIN controls' = DOMAIN controls \ lost /\ \A t \in DOMAIN controls' : controls'[t] = controls[t]
    BY <1>1 DEF Browser!Without
  <1>3. ASSUME NEW t \in DOMAIN controls'
        PROVE  <<controls'[t].request, t>> \in consents'
    <2>1. <<controls[t].request, t>> \in consents
      BY <1>2 DEF ConsentPrecedesControl
    <2>2. <<controls[t].request, t>>[2] = t
      OBVIOUS
    <2>3. t \notin lost /\ controls'[t] = controls[t]
      BY <1>2
    <2> QED BY <1>1, <2>1, <2>2, <2>3
  <1> QED BY <1>3 DEF ConsentPrecedesControl

\* A control granted with a consent has it.
LEMMA GrantKeeps ==
  ASSUME ConsentPrecedesControl, NEW r, NEW q, NEW ss,
         Browser!grantAgentControl([request |-> r, session |-> q.session, tab |-> q.tab], ss),
         consents' = Browser!Agreed(r, q, ss)
  PROVE  ConsentPrecedesControl'
  <1> DEFINE c == [request |-> r, session |-> q.session, tab |-> q.tab]
  <1>1. CASE q.session \in DOMAIN ss
    <2>1. controls' = Browser!With(controls, q.tab, c)
      BY <1>1 DEF Browser!grantAgentControl
    <2>2. consents' = {x \in consents : x[2] # q.tab} \cup {<<r, q.tab>>}
      BY <1>1 DEF Browser!Agreed
    <2>3. /\ DOMAIN controls' = DOMAIN controls \cup {q.tab} /\ controls'[q.tab] = c
          /\ \A t \in DOMAIN controls : t # q.tab => controls'[t] = controls[t]
      BY <2>1 DEF Browser!With
    <2>4. ASSUME NEW t \in DOMAIN controls', t # q.tab
          PROVE  <<controls'[t].request, t>> \in consents'
      <3>1. <<controls[t].request, t>> \in consents /\ controls'[t] = controls[t]
        BY <2>3, <2>4 DEF ConsentPrecedesControl
      <3>2. <<controls[t].request, t>>[2] = t
        OBVIOUS
      <3> QED BY <2>2, <2>4, <3>1, <3>2
    <2>5. <<controls'[q.tab].request, q.tab>> \in consents'
      BY <2>2, <2>3
    <2> QED BY <2>4, <2>5 DEF ConsentPrecedesControl
  <1>2. CASE q.session \notin DOMAIN ss
    BY <1>2 DEF Browser!grantAgentControl, Browser!Agreed, ConsentPrecedesControl
  <1> QED BY <1>1, <1>2

LEMMA ControlsStay ==
  ASSUME ConsentPrecedesControl, UNCHANGED <<controls, consents>>
  PROVE  ConsentPrecedesControl'
  BY DEF ConsentPrecedesControl

\* Neither a question nor what follows a yes makes a session or forgets one.
LEMMA EstablishActivates ==
  ASSUME NEW r, NEW q, NEW ss, NEW ts, NEW bs, Browser!Establish(r, q, ss, ts, bs)
  PROVE  DOMAIN sessions' = DOMAIN ss /\ activeSession' \in DOMAIN ss \cup {activeSession}
  BY Updates DEF Browser!Establish

\* Who asks for control waits for an answer, or the policy of the user is his consent.
LEMMA AskedKeeps ==
  ASSUME ConsentPrecedesControl, NEW r, NEW policy \in Policy \ {"off"}, NEW q, NEW ss, NEW ts, NEW bs,
         Browser!AskOrEstablish(r, policy, q, ss, ts, bs)
  PROVE  /\ ConsentPrecedesControl'
         /\ DOMAIN sessions' = DOMAIN ss /\ activeSession' \in DOMAIN ss \cup {activeSession}
  <1>1. CASE policy = "ask"
    <2>1. UNCHANGED <<activeSession, controls, consents>> /\ sessions' = ss
      BY <1>1 DEF Browser!AskOrEstablish, Browser!AsksFirst
    <2> QED BY <2>1, ControlsStay
  <1>2. CASE policy # "ask"
    <2>1. policy = "allowed"
      BY <1>2 DEF Policy
    <2>2. Browser!Establish(r, q, ss, ts, bs) /\ consents' = Browser!Agreed(r, q, ss)
      BY <1>2, <2>1 DEF Browser!AskOrEstablish, Browser!AsksFirst
    <2>3. Browser!grantAgentControl([request |-> r, session |-> q.session, tab |-> q.tab], ss)
      BY <2>2 DEF Browser!Establish
    <2> QED BY <2>2, <2>3, GrantKeeps, EstablishActivates
  <1> QED BY <1>1, <1>2

LEMMA ReferencesStay ==
  ASSUME ReferencesExist, UNCHANGED <<tabs, activeSession>>, DOMAIN sessions \subseteq DOMAIN sessions'
  PROVE  ReferencesExist'
  BY DEF ReferencesExist, EveryTabHasASession, ActiveSessionExists

\* A tab that is created has its session.
LEMMA TabCreated ==
  ASSUME ReferencesExist, NEW s, NEW t, tabs' = Browser!With(tabs, t, s),
         activeSession' \in DOMAIN sessions' \cup {activeSession},
         DOMAIN sessions \cup {s} \subseteq DOMAIN sessions'
  PROVE  ReferencesExist'
  <1>1. DOMAIN tabs' = DOMAIN tabs \cup {t} /\ tabs'[t] = s
        /\ \A x \in DOMAIN tabs : x # t => tabs'[x] = tabs[x]
    BY DEF Browser!With
  <1> QED BY <1>1 DEF ReferencesExist, EveryTabHasASession, ActiveSessionExists

\* Of sessions that are forgotten nothing stays, the tabs their lists do not name included.
LEMMA ForgetKeeps ==
  ASSUME ReferencesExist, NEW S, NEW X, NEW remaining,
         remaining = tabs \/ remaining = Browser!Without(tabs, X), Browser!Forget(S, remaining)
  PROVE  ReferencesExist'
  <1>1. /\ tabs' = Browser!Without(remaining, {t \in DOMAIN remaining : remaining[t] \in S})
        /\ sessions' = Browser!Without(sessions, S)
        /\ activeSession' = IF activeSession \in S THEN None ELSE activeSession
    BY DEF Browser!Forget, Browser!deleteBrowserTabsBySession
  <1>2. /\ DOMAIN remaining \subseteq DOMAIN tabs
        /\ \A t \in DOMAIN remaining : remaining[t] = tabs[t]
    BY DEF Browser!Without
  <1>3. /\ \A t \in DOMAIN tabs' : t \in DOMAIN remaining /\ tabs'[t] = remaining[t] /\ remaining[t] \notin S
        /\ DOMAIN sessions' = DOMAIN sessions \ S
    BY <1>1 DEF Browser!Without
  <1> QED BY <1>1, <1>2, <1>3 DEF ReferencesExist, EveryTabHasASession, ActiveSessionExists

LEMMA PoliciesStay ==
  ASSUME PoliciesStored, UNCHANGED profiles
  PROVE  PoliciesStored'
  BY DEF PoliciesStored

LEMMA PolicySet ==
  ASSUME PoliciesStored, NEW p, NEW policy \in Policy, profiles' = Browser!With(profiles, p, policy)
  PROVE  PoliciesStored'
  BY DEF PoliciesStored, Browser!With

-----------------------------------------------------------------------------
(* Steps *)

LEMMA SetPolicy ==
  ASSUME BrowserIInv, NEW p \in Profiles, NEW policy \in PoliciesSet[p],
         Browser!createBrowserProfile(p, policy) \/ Browser!updateBrowserProfilePublic(p, policy)
  PROVE  BrowserIInv'
  <1>1. /\ profiles' = Browser!With(profiles, p, policy)
        /\ UNCHANGED <<sessions, tabs, activeSession, controls, consents>>
    BY DEF Browser!createBrowserProfile, Browser!updateBrowserProfilePublic, Browser!agents, Browser!pages
  <1>2. policy \in Policy
    BY PoliciesArePolicies
  <1>3. PoliciesStored'
    BY <1>1, <1>2, PolicySet DEF BrowserIInv
  <1> QED BY <1>1, <1>3, ControlsStay, ReferencesStay DEF BrowserIInv

\* A step of a deletion revokes and forgets as the closing of a session does.
LEMMA Deletion ==
  ASSUME BrowserIInv, NEW p, NEW cleared, NEW list, NEW others, Browser!DeletionGoesOn(p, cleared, list, others)
  PROVE  BrowserIInv'
  <1> DEFINE left == list \cap DOMAIN sessions
  <1>1. /\ \E S : Browser!ReleaseTabs(S)
        /\ \E S, X : Browser!Forget(S, Browser!Without(tabs, X))
    BY DEF Browser!DeletionGoesOn
  <1>2. ConsentPrecedesControl'
    BY <1>1, RevokeKeeps DEF BrowserIInv, Browser!ReleaseTabs
  <1>3. ReferencesExist'
    BY <1>1, ForgetKeeps DEF BrowserIInv
  <1>4. profiles' = profiles \/ profiles' = Browser!Without(profiles, {p})
    BY DEF Browser!DeletionGoesOn
  <1>5. PoliciesStored'
    BY <1>4 DEF BrowserIInv, PoliciesStored, Browser!Without
  <1> QED BY <1>2, <1>3, <1>5 DEF BrowserIInv

LEMMA DeleteProfile == ASSUME BrowserIInv, NEW p, Browser!deleteBrowserProfilePublic(p) PROVE BrowserIInv'
  <1> DEFINE list == {s \in DOMAIN sessions : sessions[s].profile = p}
  <1>1. CASE p \in Private
    <2>1. Browser!DeletionGoesOn(p, {}, list, deleting)
      BY <1>1 DEF Browser!deleteBrowserProfilePublic
    <2> QED BY <2>1, Deletion
  <1>2. CASE p \notin Private
    <2>1. /\ Browser!ReleaseTabs(list) /\ UNCHANGED profiles
          /\ Browser!Forget(list, Browser!Without(tabs, Browser!Listed(list)))
      BY <1>2 DEF Browser!deleteBrowserProfilePublic
    <2> QED BY <2>1, RevokeKeeps, ForgetKeeps, PoliciesStay DEF BrowserIInv, Browser!ReleaseTabs
  <1> QED BY <1>1, <1>2

LEMMA DeletionCleared == ASSUME BrowserIInv, NEW d, Browser!deletionStorageCleared(d) PROVE BrowserIInv'
  BY Deletion DEF Browser!deletionStorageCleared

LEMMA CreateSession == ASSUME BrowserIInv, NEW p, NEW s, NEW t, Browser!createBrowserSession(p, s, t) PROVE BrowserIInv'
  <1>1. ConsentPrecedesControl' /\ PoliciesStored'
    BY ControlsStay, PoliciesStay DEF BrowserIInv, Browser!createBrowserSession, Browser!agents
  <1>2. DOMAIN sessions' = DOMAIN sessions \cup {s}
    BY DEF Browser!With, Browser!createBrowserSession, Browser!WithNewSession
  <1>3. ReferencesExist'
    BY <1>2, TabCreated DEF BrowserIInv, Browser!createBrowserSession, Browser!createTabInternal
  <1> QED BY <1>1, <1>3 DEF BrowserIInv

LEMMA CloseSession == ASSUME BrowserIInv, NEW s, Browser!closeBrowserSession(s) PROVE BrowserIInv'
  <1>1. Browser!Revoke(Browser!Listed({s})) /\ UNCHANGED profiles
    BY DEF Browser!closeBrowserSession, Browser!ReleaseTabs
  <1>2. \E S : Browser!Forget(S, Browser!Without(tabs, Browser!Listed({s})))
    BY DEF Browser!closeBrowserSession
  <1>3. ReferencesExist'
    BY <1>2, ForgetKeeps DEF BrowserIInv
  <1> QED BY <1>1, <1>3, RevokeKeeps, PoliciesStay DEF BrowserIInv

LEMMA StorageCleared == ASSUME BrowserIInv, NEW s, Browser!storageCleared(s) PROVE BrowserIInv'
  <1>1. ConsentPrecedesControl' /\ PoliciesStored'
    BY ControlsStay, PoliciesStay DEF BrowserIInv, Browser!storageCleared, Browser!agents
  <1>2. Browser!Forget({s}, tabs)
    BY DEF Browser!storageCleared
  <1>3. ReferencesExist'
    BY <1>2, ForgetKeeps DEF BrowserIInv
  <1> QED BY <1>1, <1>3 DEF BrowserIInv

LEMMA ActivateSession == ASSUME BrowserIInv, NEW s, Browser!activateSession(s) PROVE BrowserIInv'
  <1>1. ConsentPrecedesControl' /\ PoliciesStored'
    BY ControlsStay, PoliciesStay DEF BrowserIInv, Browser!activateSession, Browser!agents, Browser!stored
  <1>2. ReferencesExist'
    BY DEF BrowserIInv, Browser!activateSession, Browser!stored, ReferencesExist, EveryTabHasASession, ActiveSessionExists
  <1> QED BY <1>1, <1>2 DEF BrowserIInv

LEMMA NewTab == ASSUME BrowserIInv, NEW s, NEW t, NEW blank, Browser!newBrowserTab(s, t, blank) PROVE BrowserIInv'
  <1>1. ConsentPrecedesControl' /\ PoliciesStored'
    BY ControlsStay, PoliciesStay DEF BrowserIInv, Browser!newBrowserTab, Browser!agents
  <1>2. DOMAIN sessions' = DOMAIN sessions
    BY Updates DEF Browser!newBrowserTab
  <1>3. ReferencesExist'
    BY <1>2, TabCreated DEF BrowserIInv, Browser!newBrowserTab, Browser!createTabInternal
  <1> QED BY <1>1, <1>3 DEF BrowserIInv

LEMMA TabLoaded == ASSUME BrowserIInv, NEW l, Browser!tabLoaded(l) PROVE BrowserIInv'
  <1>1. ConsentPrecedesControl' /\ PoliciesStored'
    BY ControlsStay, PoliciesStay DEF BrowserIInv, Browser!tabLoaded, Browser!agents
  <1>2. DOMAIN sessions' = DOMAIN sessions
    BY Updates DEF Browser!tabLoaded
  <1>3. ReferencesExist'
    BY <1>2, ReferencesStay DEF BrowserIInv, Browser!tabLoaded
  <1> QED BY <1>1, <1>3 DEF BrowserIInv

LEMMA CloseTab == ASSUME BrowserIInv, NEW t, Browser!closeBrowserTab(t) PROVE BrowserIInv'
  <1>1. ConsentPrecedesControl' /\ PoliciesStored'
    BY RevokeKeeps, PoliciesStay DEF BrowserIInv, Browser!closeBrowserTab
  <1>2. DOMAIN sessions' = DOMAIN sessions
    BY Updates DEF Browser!closeBrowserTab
  <1>3. tabs' = Browser!Without(tabs, {t}) /\ UNCHANGED activeSession
    BY DEF Browser!closeBrowserTab
  <1>4. \A x \in DOMAIN tabs' : x \in DOMAIN tabs /\ tabs'[x] = tabs[x]
    BY <1>3 DEF Browser!Without
  <1>5. ReferencesExist'
    BY <1>2, <1>3, <1>4 DEF BrowserIInv, ReferencesExist, EveryTabHasASession, ActiveSessionExists
  <1> QED BY <1>1, <1>5 DEF BrowserIInv

LEMMA ActivateTab == ASSUME BrowserIInv, NEW t, Browser!activateTab(t) PROVE BrowserIInv'
  <1>1. ConsentPrecedesControl' /\ PoliciesStored'
    BY ControlsStay, PoliciesStay DEF BrowserIInv, Browser!activateTab, Browser!agents
  <1>2. DOMAIN sessions' = DOMAIN sessions
    BY Updates DEF Browser!activateTab
  <1>3. ReferencesExist'
    BY <1>2, ReferencesStay DEF BrowserIInv, Browser!activateTab, Browser!pages
  <1> QED BY <1>1, <1>3 DEF BrowserIInv

LEMMA ProcessGone == ASSUME BrowserIInv, NEW t, Browser!renderProcessGone(t) PROVE BrowserIInv'
  <1>1. ConsentPrecedesControl'
    BY RevokeKeeps DEF BrowserIInv, Browser!renderProcessGone
  <1>2. ReferencesExist' /\ PoliciesStored'
    BY ReferencesStay, PoliciesStay DEF BrowserIInv, Browser!renderProcessGone, Browser!stored, Browser!pages
  <1> QED BY <1>1, <1>2 DEF BrowserIInv

\* Steps that leave what the invariant reads.
LEMMA NothingRead ==
  ASSUME BrowserIInv, UNCHANGED <<profiles, controls, consents, tabs, sessions, activeSession>>
  PROVE  BrowserIInv'
  BY ControlsStay, ReferencesStay, PoliciesStay DEF BrowserIInv

LEMMA WindowClosed == ASSUME BrowserIInv, Browser!setBrowserNativeWindow_null PROVE BrowserIInv'
  <1>1. ConsentPrecedesControl'
    BY DEF Browser!setBrowserNativeWindow_null, ConsentPrecedesControl
  <1>2. ReferencesExist' /\ PoliciesStored'
    BY ReferencesStay, PoliciesStay DEF BrowserIInv, Browser!setBrowserNativeWindow_null, Browser!stored
  <1> QED BY <1>1, <1>2 DEF BrowserIInv

\* A session that is there: refused, asked for, or allowed by its profile.
LEMMA Bootstrap ==
  ASSUME BrowserIInv, NEW r, NEW s, NEW binds, Browser!bootstrapAgentControl(r, s, binds)
  PROVE  BrowserIInv'
  <1> DEFINE policy == Browser!PolicyOf(s)
             q(t) == [session |-> s, tab |-> t, tabIds |-> sessions[s].tabIds, binds |-> binds]
  <1>1. PICK t : IF policy = "off" \/ t = None
                 THEN UNCHANGED <<sessions, activeSession, controls, consents>>
                 ELSE Browser!AskOrEstablish(r, policy, q(t), sessions, tabs, Browser!BindingDropped(r, binds))
    BY DEF Browser!bootstrapAgentControl
  <1>2. policy \in Policy
    BY DEF BrowserIInv, PoliciesStored, Policy, Browser!PolicyOf
  <1>3. UNCHANGED <<profiles, tabs>>
    BY DEF Browser!bootstrapAgentControl
  <1>4. CASE policy = "off" \/ t = None
    BY <1>1, <1>3, <1>4, NothingRead
  <1>5. CASE ~(policy = "off" \/ t = None)
    <2>1. /\ ConsentPrecedesControl'
          /\ DOMAIN sessions' = DOMAIN sessions /\ activeSession' \in DOMAIN sessions \cup {activeSession}
      BY <1>1, <1>2, <1>5, AskedKeeps DEF BrowserIInv
    <2>2. ReferencesExist'
      BY <1>3, <2>1 DEF BrowserIInv, ReferencesExist, EveryTabHasASession, ActiveSessionExists
    <2> QED BY <1>3, <2>1, <2>2, PoliciesStay DEF BrowserIInv
  <1> QED BY <1>4, <1>5

LEMMA BootstrapDefault ==
  ASSUME BrowserIInv, NEW r, NEW p, NEW s, NEW t, NEW binds, Browser!bootstrapDefaultSession(r, p, s, t, binds)
  PROVE  BrowserIInv'
  <1> DEFINE q(x) == [session |-> s, tab |-> x, tabIds |-> <<t>>, binds |-> binds]
             ss == Browser!WithNewSession(p, s, t)
  <1>1. profiles' = IF p \notin DOMAIN profiles \/ profiles[p] = "off"
                    THEN Browser!With(profiles, p, "ask") ELSE profiles
    BY DEF Browser!bootstrapDefaultSession
  <1>2. PoliciesStored' /\ profiles'[p] \in Policy \ {"off"}
    <2>1. "ask" \in Policy
      BY DEF Policy
    <2>2. CASE p \notin DOMAIN profiles \/ profiles[p] = "off"
      <3>1. profiles' = Browser!With(profiles, p, "ask")
        BY <1>1, <2>2
      <3>2. profiles'[p] = "ask"
        BY <3>1 DEF Browser!With
      <3> QED BY <2>1, <3>1, <3>2, PolicySet DEF BrowserIInv
    <2>3. CASE p \in DOMAIN profiles /\ profiles[p] # "off"
      BY <1>1, <2>3, PoliciesStay DEF BrowserIInv, PoliciesStored
    <2> QED BY <2>2, <2>3
  <1>3. PICK x : Browser!AskOrEstablish(r, profiles'[p], q(x), ss, Browser!With(tabs, t, s), Browser!BindingDropped(r, binds))
    BY DEF Browser!bootstrapDefaultSession
  <1>4. DOMAIN ss = DOMAIN sessions \cup {s}
    BY DEF Browser!With, Browser!WithNewSession
  <1>5. /\ ConsentPrecedesControl'
        /\ DOMAIN sessions' = DOMAIN ss /\ activeSession' \in DOMAIN ss \cup {activeSession}
    BY <1>2, <1>3, AskedKeeps DEF BrowserIInv
  <1>6. tabs' = Browser!With(tabs, t, s)
    BY DEF Browser!bootstrapDefaultSession, Browser!createTabInternal
  <1>7. ReferencesExist'
    BY <1>4, <1>5, <1>6, TabCreated DEF BrowserIInv
  <1> QED BY <1>2, <1>5, <1>7 DEF BrowserIInv

LEMMA Approve == ASSUME BrowserIInv, NEW r, Browser!approveAction(r) PROVE BrowserIInv'
  <1> DEFINE a == approvals[r]
  <1>1. /\ Browser!Establish(r, a, sessions, tabs, binding) /\ consents' = Browser!Agreed(r, a, sessions)
        /\ UNCHANGED <<profiles, tabs>>
    BY DEF Browser!approveAction
  <1>2. Browser!grantAgentControl([request |-> r, session |-> a.session, tab |-> a.tab], sessions)
    BY <1>1 DEF Browser!Establish
  <1>3. ConsentPrecedesControl' /\ PoliciesStored'
    BY <1>1, <1>2, GrantKeeps, PoliciesStay DEF BrowserIInv
  <1>4. DOMAIN sessions' = DOMAIN sessions /\ activeSession' \in DOMAIN sessions \cup {activeSession}
    BY <1>1, EstablishActivates
  <1>5. ReferencesExist'
    BY <1>1, <1>4 DEF BrowserIInv, ReferencesExist, EveryTabHasASession, ActiveSessionExists
  <1> QED BY <1>3, <1>5 DEF BrowserIInv

LEMMA UserGrants == ASSUME BrowserIInv, NEW r, NEW t, Browser!userGrants(r, t) PROVE BrowserIInv'
  <1> DEFINE q == [session |-> tabs[t], tab |-> t]
  <1>1. q.session = tabs[t] /\ q.tab = t
    OBVIOUS
  <1>2. /\ Browser!grantAgentControl([request |-> r, session |-> q.session, tab |-> q.tab], sessions)
        /\ consents' = Browser!Agreed(r, q, sessions)
    BY <1>1 DEF Browser!userGrants
  <1>3. ConsentPrecedesControl'
    BY <1>2, GrantKeeps DEF BrowserIInv
  <1>4. UNCHANGED <<profiles, sessions, tabs, activeSession>>
    BY DEF Browser!userGrants, Browser!stored, Browser!pages
  <1> QED BY <1>3, <1>4, ReferencesStay, PoliciesStay DEF BrowserIInv

LEMMA TakeControl == ASSUME BrowserIInv, NEW s, Browser!userTakeControl(s) PROVE BrowserIInv'
  <1>1. ConsentPrecedesControl'
    BY RevokeKeeps DEF BrowserIInv, Browser!userTakeControl
  <1>2. ReferencesExist' /\ PoliciesStored'
    BY ReferencesStay, PoliciesStay DEF BrowserIInv, Browser!userTakeControl, Browser!stored, Browser!pages
  <1> QED BY <1>1, <1>2 DEF BrowserIInv

LEMMA Restarts == ASSUME BrowserIInv, Browser!Restart PROVE BrowserIInv'
  <1> DEFINE kept == {s \in DOMAIN sessions : sessions[s].profile \notin Private \cap DOMAIN profiles}
  <1>1. ConsentPrecedesControl' /\ PoliciesStored'
    BY PoliciesStay DEF BrowserIInv, Browser!Restart, ConsentPrecedesControl
  <1>2. /\ DOMAIN sessions' = kept /\ activeSession' = None
        /\ tabs' = Browser!Without(tabs, {t \in DOMAIN tabs : tabs[t] \in DOMAIN sessions \ kept})
    BY DEF Browser!Restart, Browser!reconcileBrowserOnStartup
  <1>3. \A t \in DOMAIN tabs' : t \in DOMAIN tabs /\ tabs'[t] = tabs[t] /\ tabs[t] \notin DOMAIN sessions \ kept
    BY <1>2 DEF Browser!Without
  <1>4. ReferencesExist'
    BY <1>2, <1>3 DEF BrowserIInv, ReferencesExist, EveryTabHasASession, ActiveSessionExists
  <1> QED BY <1>1, <1>4 DEF BrowserIInv

LEMMA Keeps == BrowserIInv /\ [Browser!Next]_(Browser!vars) => BrowserIInv'
  <1> SUFFICES ASSUME BrowserIInv, [Browser!Next]_(Browser!vars) PROVE BrowserIInv'
    OBVIOUS
  <1>1. CASE Browser!UserManages
    BY <1>1, SetPolicy, DeleteProfile, CreateSession, CloseSession, ActivateSession, NewTab, CloseTab, ActivateTab
       DEF Browser!UserManages
  <1>2. CASE Browser!UserDecides
    <2>1. ASSUME NEW r \in Requests, Browser!rejectAction(r) PROVE BrowserIInv'
      BY <2>1, NothingRead DEF Browser!rejectAction, Browser!stored, Browser!pages
    <2>2. CASE Browser!openBrowserWindow
      BY <2>2, NothingRead DEF Browser!openBrowserWindow, Browser!stored, Browser!agents
    <2> QED BY <1>2, <2>1, <2>2, TakeControl, UserGrants, Approve DEF Browser!UserDecides
  <1>3. CASE Browser!browserAppMounted
    BY <1>3, NothingRead DEF Browser!browserAppMounted, Browser!stored, Browser!agents
  <1>4. ASSUME NEW r \in Requests, NEW op \in Ops, NEW t \in Tabs, Browser!AgentOperates(r, op, t) PROVE BrowserIInv'
    BY <1>4, NothingRead DEF Browser!AgentOperates, Browser!stored, Browser!pages
  <1>5. ASSUME NEW r \in Requests, Browser!Stop(r) PROVE BrowserIInv'
    BY <1>5, NothingRead DEF Browser!Stop, Browser!stored, Browser!pages
  <1>6. CASE UNCHANGED Browser!vars
    BY <1>6, NothingRead DEF Browser!vars, Browser!stored, Browser!pages, Browser!agents
  <1> QED BY <1>1, <1>2, <1>3, <1>4, <1>5, <1>6, StorageCleared, DeletionCleared, TabLoaded, ProcessGone,
          WindowClosed, Bootstrap, BootstrapDefault, Restarts DEF Browser!Next

\* The policies that are stored, control by consent and the references between tabs and
\* sessions hold together: only a policy that allows agents stands for a yes.
THEOREM BrowserInvariant == Browser!Spec => []BrowserIInv
  <1>1. Browser!Init => BrowserIInv
    BY DEF Browser!Init, BrowserIInv, PoliciesStored, ConsentPrecedesControl, ReferencesExist, EveryTabHasASession, ActiveSessionExists
  <1>2. BrowserIInv /\ [Browser!Next]_(Browser!vars) => BrowserIInv'
    BY Keeps
  <1> QED BY <1>1, <1>2, PTL DEF Browser!Spec

\* Whatever order the questions, answers, grants, takeovers and closed tabs come in, and
\* whatever becomes of the policy of the profile meanwhile, a request controls a tab only
\* while the user's consent for that request and that tab stands: his yes, his grant, or
\* the policy "allowed" that the profile had when the agent asked.
THEOREM Consented == Browser!Spec => []ConsentPrecedesControl
  <1>1. BrowserIInv => ConsentPrecedesControl
    BY DEF BrowserIInv
  <1> QED BY <1>1, BrowserInvariant, PTL

\* Every tab in the store has its session and the active session is in the store, through
\* every clean-up, also of a tab whose page is still loading and after any restart.
THEOREM References == Browser!Spec => []ReferencesExist
  <1>1. BrowserIInv => ReferencesExist
    BY DEF BrowserIInv
  <1> QED BY <1>1, BrowserInvariant, PTL

LEMMA StartForgets ==
  ASSUME BrowserIInv, [Browser!Next]_(Browser!vars), starts' # starts
  PROVE  NothingPrivateStored'
  <1>1. Browser!Restart
    <2>1. Browser!UserManages => UNCHANGED starts
      BY DEF Browser!UserManages, Browser!stored, Browser!createBrowserProfile, Browser!updateBrowserProfilePublic,
         Browser!deleteBrowserProfilePublic, Browser!createBrowserSession, Browser!closeBrowserSession,
         Browser!activateSession, Browser!newBrowserTab, Browser!closeBrowserTab, Browser!activateTab
    <2>2. Browser!UserDecides => UNCHANGED starts
      BY DEF Browser!UserDecides, Browser!stored, Browser!userTakeControl, Browser!approveAction,
         Browser!userGrants, Browser!rejectAction, Browser!openBrowserWindow
    <2>3. ASSUME NEW d, Browser!deletionStorageCleared(d) PROVE UNCHANGED starts
      BY <2>3 DEF Browser!deletionStorageCleared
    <2>4. ASSUME NEW r, NEW s, NEW binds, Browser!bootstrapAgentControl(r, s, binds) PROVE UNCHANGED starts
      BY <2>4 DEF Browser!bootstrapAgentControl
    <2>5. ASSUME NEW r, NEW p, NEW s, NEW t, NEW binds, Browser!bootstrapDefaultSession(r, p, s, t, binds)
          PROVE  UNCHANGED starts
      BY <2>5 DEF Browser!bootstrapDefaultSession
    <2>6. ASSUME NEW r, NEW op, NEW t, Browser!AgentOperates(r, op, t) \/ Browser!Stop(r) PROVE UNCHANGED starts
      BY <2>6 DEF Browser!AgentOperates, Browser!Stop, Browser!stored
    <2> QED BY <2>1, <2>2, <2>3, <2>4, <2>5, <2>6 DEF Browser!Next, Browser!vars, Browser!stored, Browser!storageCleared,
         Browser!tabLoaded, Browser!renderProcessGone, Browser!browserAppMounted, Browser!setBrowserNativeWindow_null
  <1> DEFINE kept == {s \in DOMAIN sessions : sessions[s].profile \notin Private \cap DOMAIN profiles}
  <1>2. sessions' = [s \in kept |-> [sessions[s] EXCEPT !.lifecycle = "suspended"]]
    BY <1>1 DEF Browser!Restart, Browser!reconcileBrowserOnStartup
  <1>3. profiles' = profiles /\ \A s \in kept : sessions'[s].profile = sessions[s].profile
    BY <1>1, <1>2 DEF Browser!Restart
  <1>4. ReferencesExist'
    BY Keeps DEF BrowserIInv
  <1> QED BY <1>2, <1>3, <1>4 DEF ReferencesExist, NothingPrivateStored

\* What is left in the store of a stored private profile when the program stops is dropped
\* when it starts, whatever the clean-up of a closed session had done by then.
THEOREM PrivateForgotten == Browser!Spec => PrivateIsForgotten
  <1>1. BrowserIInv /\ [Browser!Next]_(Browser!vars) => [NothingPrivateStored']_starts
    BY StartForgets
  <1> QED BY <1>1, BrowserInvariant, PTL DEF Browser!Spec, PrivateIsForgotten
=============================================================================
