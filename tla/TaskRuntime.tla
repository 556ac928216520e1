---------------------------- MODULE TaskRuntime ----------------------------
(***************************************************************************)
(* One task of the task runtime, from its creation to its last step:       *)
(* src/main/tasks/task-runner.ts, task-manager.ts, task-types.ts and       *)
(* task-planner.ts, over the task tables of src/main/database/db.ts and    *)
(* runTaskStep of src/main/queue/QueueManager.ts.                          *)
(*                                                                         *)
(* The runner is a coroutine that awaits the planner or the agent run of a *)
(* step.  One action is one continuation: it digests what the await gave   *)
(* and goes on, through the top of the step loop, to the next await or to  *)
(* the end.  "stored" is what the database holds, "runner" what the        *)
(* coroutine holds in memory; the two differ, and a restart keeps only the *)
(* first.                                                                  *)
(*                                                                         *)
(* Abstracted: titles, prompts, evidence, timestamps.  A retry of the      *)
(* whole task creates another task: another instance of this module.  The  *)
(* multi-agent mode, which an environment flag turns on, is in MultiAgent. *)
(***************************************************************************)
EXTENDS Naturals, Sequences, FiniteSets

CONSTANTS StepIds,        \* ids the planner gives to steps
          VerifyStep,     \* the id of the injected verification step
          MaxPlanRevisions, MaxStepAttempts, MaxTotalSteps, MaxNoProgress

ASSUME TaskAssumption == /\ IsFiniteSet(StepIds)
                         /\ VerifyStep \notin StepIds
                         /\ {MaxPlanRevisions, MaxStepAttempts,
                             MaxTotalSteps, MaxNoProgress} \subseteq Nat \ {0}

VARIABLES stored,  \* the task and its plan in the database
          runner   \* the coroutine of the task, or NoRunner

vars == <<stored, runner>>

-----------------------------------------------------------------------------
(* Types *)

TerminalTask == {"completed", "failed", "cancelled"}
TerminalStep == {"completed", "failed", "cancelled", "skipped"}
Done         == {"completed", "skipped"}
ActiveTask   == {"planning", "running", "verifying"}

Step == [id : StepIds \union {VerifyStep}, kind : {"work", "verify"},
         deps : SUBSET StepIds,
         status : TerminalStep \union {"pending", "running", "blocked", "interrupted"},
         attempts : Nat]

Stored == [status : {"none", "paused"} \union ActiveTask \union TerminalTask,
           failure : {"none", "no_config", "unexpected_exit", "budget", "stalled",
                      "attempts", "verification"},
           version : Nat, steps : Seq(Step)]

NoRunner == [pc |-> "none", steps |-> <<>>, version |-> 0,
             current |-> VerifyStep, attempt |-> 0,
             pause |-> FALSE, registered |-> FALSE, aborted |-> FALSE, noProgress |-> 0]

Runner == [pc : {"none", "planning", "step", "replan", "verify"},
           steps : Seq(Step), version : Nat,
           current : StepIds \union {VerifyStep}, attempt : Nat,
           pause : BOOLEAN,       \* pauseRequested
           registered : BOOLEAN,  \* found by pauseTask and cancelTask
           aborted : BOOLEAN,     \* the step's controller
           noProgress : Nat]

TypeOK == stored \in Stored /\ runner \in Runner

-----------------------------------------------------------------------------
(* Plans *)

\* What validatePlannerOutput accepts: at least one step, unique ids, known
\* dependencies, no cycle.  Ids of earlier plans of the task are not known to it.
PlannerOutput(s) ==
  LET ids == {s[k].id : k \in DOMAIN s}
  IN  /\ s # <<>>
      /\ \A j, k \in DOMAIN s : s[j].id = s[k].id => j = k
      /\ \A k \in DOMAIN s : s[k].deps \subseteq ids
      /\ ~\E cycle \in SUBSET ids \ {{}} :
           \A k \in DOMAIN s : s[k].id \in cycle => s[k].deps \intersect cycle # {}

\* What makePlan makes of a list of steps: all of them fresh, at most one per id.
NewPlans ==
  LET fresh == [id : StepIds, kind : {"work", "verify"}, deps : SUBSET StepIds,
                status : {"pending"}, attempts : {0}]
  IN  UNION {[1..n -> fresh] : n \in 1..Cardinality(StepIds)}

\* What the planner comes to when it answers in time: it asks again until the
\* answer is valid, and throws after that.
generatePlan == {s \in NewPlans : PlannerOutput(s)}

\* The plan that stands in when the planner has failed for good: one step.
buildFallbackPlan == {<<[id |-> s, kind |-> "work", deps |-> {}, status |-> "pending",
                         attempts |-> 0]>> : s \in StepIds}

\* Every step with the id is changed, should there be two.
transitionStep(steps, id, status) ==
  [k \in DOMAIN steps |->
     IF steps[k].id = id THEN [steps[k] EXCEPT !.status = status] ELSE steps[k]]

\* The same with the number of attempts.
settleStep(steps, id, status, attempts) ==
  [k \in DOMAIN steps |->
     IF steps[k].id = id THEN [steps[k] EXCEPT !.status = status, !.attempts = attempts]
                         ELSE steps[k]]

\* Every step whose status is in "from" gets the status "to".
setAll(steps, from, to) ==
  [k \in DOMAIN steps |->
     IF steps[k].status \in from THEN [steps[k] EXCEPT !.status = to] ELSE steps[k]]

firstWith(steps, id) ==
  CHOOSE k \in DOMAIN steps : steps[k].id = id /\ \A j \in 1..(k - 1) : steps[j].id # id

getReadySteps(steps) ==
  {k \in DOMAIN steps :
     /\ steps[k].status \in {"pending", "interrupted"}
     /\ steps[k].deps \subseteq {steps[j].id : j \in {i \in DOMAIN steps :
                                                        steps[i].status \in Done}}}

\* The steps that are done, in their order: the set of the one such sequence.
doneSteps(steps) ==
  LET done == {k \in DOMAIN steps : steps[k].status \in Done}
  IN  {[k \in 1..Cardinality(done) |-> steps[at[k]]] :
         at \in {at \in [1..Cardinality(done) -> done] :
                  \A j, k \in DOMAIN at : j < k => at[j] < at[k]}}

AllDone(steps) == \A k \in DOMAIN steps : steps[k].status \in TerminalStep

-----------------------------------------------------------------------------
(* Ways on.  w is the runner and st the stored record as the caller left   *)
(* them; each sets runner' and stored'.                                    *)

End(st, status) == runner' = NoRunner /\ stored' = [st EXCEPT !.status = status]

failTask(st, why) ==
  runner' = NoRunner /\ stored' = [st EXCEPT !.status = "failed", !.failure = why]

\* The runner returns with the task "paused".  That is no terminal status, so
\* the finally block of startTaskRunner takes it for an unexpected exit.
ReturnPaused(st) == failTask(st, "unexpected_exit")

startStep(w, st, k) ==
  LET id      == w.steps[k].id
      running == transitionStep(w.steps, id, "running")
  IN  /\ runner' = [w EXCEPT !.pc = "step", !.steps = running, !.current = id,
                             !.attempt = w.steps[k].attempts + 1, !.aborted = FALSE]
      /\ stored' = [st EXCEPT !.status = "running", !.version = w.version,
                              !.steps = running]

\* The verification step is stored as pending and runs in memory only.
runVerification(w, st) ==
  LET verify == [id |-> VerifyStep, kind |-> "verify", status |-> "pending",
                 deps |-> {w.steps[k].id : k \in DOMAIN w.steps}, attempts |-> 0]
      plan   == Append(w.steps, verify)
  IN  /\ runner' = [w EXCEPT !.pc = "verify", !.current = VerifyStep, !.attempt = 1,
                             !.aborted = FALSE,
                             !.steps = transitionStep(plan, VerifyStep, "running")]
      /\ stored' = [st EXCEPT !.status = "verifying", !.version = w.version,
                              !.steps = plan]

OverBudget(w) == w.version > MaxPlanRevisions \/ Len(w.steps) > MaxTotalSteps

Stopped(w) == w.pause \/ OverBudget(w) \/ w.noProgress >= MaxNoProgress

\* Fault: the pause request is only looked at when nothing is left to start.
loopTop_PauseLast(w, st) ==
  LET ready == getReadySteps(w.steps)
  IN  \/ \E k \in ready : (\A j \in ready : k <= j) /\ startStep(w, st, k)
      \/ ready = {} /\ w.pause /\ ReturnPaused(st)
      \/ ready = {} /\ ~w.pause /\ AllDone(w.steps) /\ runVerification(w, st)

\* Fault: a plan without a ready step is taken for a finished one.
loopTop_NoReadyIsDone(w, st) ==
  LET ready == getReadySteps(w.steps)
  IN  \/ w.pause /\ ReturnPaused(st)
      \/ ~w.pause /\ Stopped(w) /\ failTask(st, "stalled")
      \/ ~Stopped(w) /\ \E k \in ready : (\A j \in ready : k <= j) /\ startStep(w, st, k)
      \/ ~Stopped(w) /\ ready = {} /\ End(st, "completed")

\* The step loop from its top to its next await.
loopTop(w, st) ==
  LET ready    == getReadySteps(w.steps)
      verified == \E k \in DOMAIN w.steps : w.steps[k].kind = "verify"
      blocked  == \E k \in DOMAIN w.steps : w.steps[k].status = "blocked"
  IN  \/ w.pause /\ ReturnPaused(st)
      \/ ~w.pause /\ Stopped(w) /\ failTask(st, IF OverBudget(w) THEN "budget" ELSE "stalled")
      \/ ~Stopped(w) /\ \E k \in ready : (\A j \in ready : k <= j) /\ startStep(w, st, k)
      \/ ~Stopped(w) /\ ready = {} /\ AllDone(w.steps) /\ verified /\ End(st, "completed")
      \/ ~Stopped(w) /\ ready = {} /\ AllDone(w.steps) /\ ~verified /\ runVerification(w, st)
      \/ /\ ~Stopped(w) /\ ready = {} /\ ~AllDone(w.steps)
         /\ IF blocked THEN ReturnPaused(st) ELSE failTask(st, "stalled")

-----------------------------------------------------------------------------
(* createAndStartTask and resumeTask *)

\* The conversation has an agent profile with a key, or it has none.
createTask ==
  /\ stored.status = "none"
  /\ \/ /\ stored' = [stored EXCEPT !.status = "planning"]
        /\ runner' = [NoRunner EXCEPT !.pc = "planning"]
     \/ /\ stored' = [stored EXCEPT !.status = "failed", !.failure = "no_config"]
        /\ UNCHANGED runner

startTaskRunner(st) ==
  LET w == [NoRunner EXCEPT !.steps = st.steps, !.version = st.version, !.registered = TRUE]
  IN  loopTop(w, [st EXCEPT !.status = "running"])

\* The planner answered; a failed one is replaced by a plan of one step.
planReady ==
  /\ runner.pc = "planning"
  /\ \E plan \in generatePlan \union buildFallbackPlan :
       startTaskRunner([stored EXCEPT !.version = 1, !.steps = plan])

\* Only what a restart left paused is stored as paused; a task interrupted
\* while it was planning has no plan to resume.
resumeTask(steps) ==
  /\ stored.status = "paused" /\ stored.steps # <<>>
  /\ startTaskRunner([stored EXCEPT !.steps = steps])

-----------------------------------------------------------------------------
(* Continuations of the runner *)

Saved(steps) == [stored EXCEPT !.steps = steps, !.version = runner.version]

stepCompleted ==
  LET steps == settleStep(runner.steps, runner.current, "completed", runner.attempt)
  IN  /\ runner.pc = "step" /\ ~runner.aborted
      /\ loopTop([runner EXCEPT !.steps = steps, !.noProgress = 0], Saved(steps))

\* Fault: the last revision asks for one more.
stepAsksForReplan_OneMore ==
  /\ runner.pc = "step" /\ ~runner.aborted
  /\ \/ /\ runner.version > MaxPlanRevisions
        /\ failTask(stored, "budget")
     \/ /\ runner.version <= MaxPlanRevisions
        /\ runner' = [runner EXCEPT !.pc = "replan", !.steps =
             settleStep(runner.steps, runner.current, "completed", runner.attempt)]
        /\ UNCHANGED stored

\* The step counts as completed, in memory only until the new plan is there.
stepAsksForReplan ==
  /\ runner.pc = "step" /\ ~runner.aborted
  /\ \/ /\ runner.version >= MaxPlanRevisions
        /\ failTask(stored, "budget")
     \/ /\ runner.version < MaxPlanRevisions
        /\ runner' = [runner EXCEPT !.pc = "replan", !.steps =
             settleStep(runner.steps, runner.current, "completed", runner.attempt)]
        /\ UNCHANGED stored

\* Fault: a failed attempt is not counted, neither for the step nor the task.
stepFailed_Uncounted ==
  LET again == transitionStep(runner.steps, runner.current, "pending")
  IN  /\ runner.pc = "step" /\ ~runner.aborted
      /\ loopTop([runner EXCEPT !.steps = again], Saved(again))

stepFailed ==
  LET again == settleStep(runner.steps, runner.current, "pending", runner.attempt)
      over  == settleStep(runner.steps, runner.current, "failed", runner.attempt)
  IN  /\ runner.pc = "step" /\ ~runner.aborted
      /\ \/ /\ runner.attempt < MaxStepAttempts
            /\ loopTop([runner EXCEPT !.steps = again, !.noProgress = @ + 1], Saved(again))
         \/ /\ runner.attempt >= MaxStepAttempts
            /\ failTask(Saved(over), "attempts")

stepBlocked ==
  /\ runner.pc = "step" /\ ~runner.aborted
  /\ ReturnPaused(Saved(settleStep(runner.steps, runner.current, "blocked", runner.attempt)))

\* An answer without a recognisable result ("protocol_recovery") has no case of
\* its own: the step stays running and the loop goes on.
stepAmbiguous ==
  /\ runner.pc = "step" /\ ~runner.aborted
  /\ loopTop(runner, stored)

stepCancelled ==
  LET steps == setAll(transitionStep(runner.steps, runner.current, "interrupted"),
                      {"pending"}, "cancelled")
  IN  /\ runner.pc = "step" /\ runner.aborted
      /\ End(Saved(steps), "cancelled")

\* The run of a step returns: aborted before it began or while it lasted, with the
\* result its answer states, or with an error, which counts as a failed step.
runTaskStep ==
  \/ stepCompleted
  \/ stepAsksForReplan
  \/ stepFailed
  \/ stepBlocked
  \/ stepAmbiguous
  \/ stepCancelled

\* The planner is called with a signal nobody aborts.
replanSucceeds ==
  /\ runner.pc = "replan"
  /\ \E done \in doneSteps(runner.steps), new \in generatePlan :
       LET plan == done \o new
           v    == runner.version + 1
       IN  loopTop([runner EXCEPT !.steps = plan, !.version = v],
                   [stored EXCEPT !.status = "running", !.steps = plan, !.version = v])

replanFails ==
  /\ runner.pc = "replan"
  /\ loopTop([runner EXCEPT !.noProgress = @ + 1], stored)

verificationPasses ==
  /\ runner.pc = "verify" /\ ~runner.aborted
  /\ End(Saved(transitionStep(runner.steps, VerifyStep, "completed")), "completed")

verificationFails ==
  /\ runner.pc = "verify" /\ ~runner.aborted
  /\ failTask(stored, "verification")

verificationCancelled ==
  /\ runner.pc = "verify" /\ runner.aborted
  /\ End(stored, "cancelled")

-----------------------------------------------------------------------------
(* The user, and the process *)

pauseTask ==
  /\ runner.registered
  /\ stored.status \in {"running", "verifying"}
  /\ runner' = [runner EXCEPT !.pause = TRUE]
  /\ UNCHANGED stored

Open == {"pending", "running", "blocked", "interrupted"}

\* Cancels at once in the database; the coroutine learns of it when its step
\* returns, and while it replans it does not.
cancelTask ==
  LET steps == setAll(runner.steps, Open, "cancelled")
  IN  /\ runner.registered
      /\ stored.status \notin TerminalTask
      /\ stored' = [Saved(steps) EXCEPT !.status = "cancelled"]
      /\ runner' = [runner EXCEPT !.steps = steps, !.registered = FALSE,
                                  !.aborted = (runner.pc # "replan")]

\* Edits the stored plan, under a live runner too, and resumes a paused task
\* if the conversation still has an agent profile.
retryStep(id) ==
  LET steps == settleStep(stored.steps, id, "pending", 0)
  IN  /\ \E k \in DOMAIN stored.steps : stored.steps[k].id = id
      /\ stored.steps[firstWith(stored.steps, id)].status = "failed"
      /\ \/ /\ stored.status = "paused"
            /\ resumeTask(steps)
         \/ /\ stored' = [stored EXCEPT !.steps = steps]
            /\ UNCHANGED runner

skipStep(id) ==
  /\ \E k \in DOMAIN stored.steps : stored.steps[k].id = id
  /\ stored.steps[firstWith(stored.steps, id)].status \in {"pending", "failed", "blocked"}
  /\ stored' = [stored EXCEPT !.steps = transitionStep(stored.steps, id, "skipped")]
  /\ UNCHANGED runner

\* Fault: a task under verification is not among the interrupted ones.
Restart_NotVerifying ==
  /\ runner' = NoRunner
  /\ IF stored.status \in ActiveTask \ {"verifying"}
       THEN stored' = [stored EXCEPT !.status = "paused",
                         !.steps = setAll(stored.steps, {"running"}, "interrupted")]
       ELSE UNCHANGED stored

\* The process ends between two segments; at startup
\* reconcileInterruptedTasks pauses what was active.
Restart ==
  /\ runner' = NoRunner
  /\ IF stored.status \in ActiveTask
       THEN stored' = [stored EXCEPT !.status = "paused",
                         !.steps = setAll(stored.steps, {"running"}, "interrupted")]
       ELSE UNCHANGED stored

-----------------------------------------------------------------------------
Init == /\ stored = [status |-> "none", failure |-> "none", version |-> 0, steps |-> <<>>]
        /\ runner = NoRunner

RunnerStep ==
  \/ planReady
  \/ runTaskStep
  \/ replanSucceeds
  \/ replanFails
  \/ verificationPasses
  \/ verificationFails
  \/ verificationCancelled

UserStep ==
  \/ createTask
  \/ resumeTask(stored.steps)
  \/ pauseTask
  \/ cancelTask
  \/ \E id \in StepIds \union {VerifyStep} : retryStep(id)
  \/ \E id \in StepIds \union {VerifyStep} : skipStep(id)

Next == RunnerStep \/ UserStep \/ Restart

Spec == Init /\ [][Next]_vars

\* Each await of the runner returns: provider calls and tools have timeouts,
\* and the agent loop has a tool budget.  Approval dialogs are answered.
FairSpec == Spec /\ WF_vars(RunnerStep)

-----------------------------------------------------------------------------
(* Properties *)

\* What the database shows as planning, running or verifying is being worked
\* on, before and after any crash: no task hangs in an active status that
\* nothing will ever change.
ActiveTaskHasRunner == stored.status \in ActiveTask => runner.pc # "none"

\* The ids of a plan name one step each.
StepIdsUnique ==
  \A j, k \in DOMAIN stored.steps : stored.steps[j].id = stored.steps[k].id => j = k

\* The budgets hold for what is stored, across retries, replans, crashes and
\* resumes: revisions of the plan, steps a runner works on, and - as long as
\* every id names one step - attempts of a step.
WithinBudget ==
  /\ stored.version <= MaxPlanRevisions
  /\ runner.pc = "step" => Len(runner.steps) <= MaxTotalSteps
  /\ StepIdsUnique => \A k \in DOMAIN stored.steps :
                        stored.steps[k].attempts <= MaxStepAttempts

\* A task ends as completed only when its runner has every step of the plan
\* completed or skipped, unless the task had been cancelled before - as long as every
\* id names one step.  The store may lag behind the runner: a step that asked for a
\* failed replan is stored as running.
CompletedTaskIsDone ==
  [][stored'.status = "completed" /\ runner.registered /\ StepIdsUnique' =>
       \A k \in DOMAIN stored'.steps : \/ stored'.steps[k].status \in Done
                                       \/ runner.steps[k].status \in Done]_vars

Work(r) == <<r.pc, r.current, r.attempt>>

\* After a pause request the runner starts no step, no further attempt and no
\* verification: it finishes the step or the replanning it is in and stops.
PauseStartsNothing ==
  [][runner.pause /\ runner'.pc \in {"step", "verify"} => Work(runner') = Work(runner)]_vars

\* Whatever the steps answer - failures, replans, ambiguous answers - a runner
\* stops: the budgets leave it no endless loop.
RunnerStops == runner.pc # "none" ~> runner.pc = "none"

=============================================================================
