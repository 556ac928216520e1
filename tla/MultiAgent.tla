----------------------------- MODULE MultiAgent -----------------------------
(***************************************************************************)
(* The multi-agent mode of one task (environment flag FORGE_MULTI_AGENT):  *)
(* src/main/tasks/multi-agent/ma-manager.ts, coordinator.ts,               *)
(* worker-runner.ts, ma-store.ts and ma-reconciler.ts, under the branch of *)
(* _runLoop in src/main/tasks/task-runner.ts that starts it.               *)
(*                                                                         *)
(* A coordinator turn is one agent run; its plan creates and assigns work  *)
(* items, which are then run one after the other, each by an agent run of  *)
(* its own, before the next turn.  The actions of one plan are applied in  *)
(* one segment; here each is a step of its own, which only adds crashes    *)
(* between two of them, and those are real: each is saved at once.         *)
(*                                                                         *)
(* Abstracted: titles, prompts, roles and evidence.  A work item is its    *)
(* duplicate fingerprint, numbered in the order of creation; an instance   *)
(* matters only while it works, so it is the item it works on.  Proposals  *)
(* are counted by id.  What the runner does after the orchestration        *)
(* (verification, single-agent loop) is in TaskRuntime: "handed".          *)
(***************************************************************************)
EXTENDS MultiAgentState, FiniteSets

vars == <<task, work, proposals, workers, loop>>

-----------------------------------------------------------------------------
(* Types *)

WorkItem == [status : {"unused", "pending", "assigned", "running", "completed",
                       "failed", "blocked", "interrupted"},
             attempts : Nat, deps : SUBSET Items]

TaskStatus == {"ready", "running", "verifying", "paused", "failed", "cancelled"}

NoLoop == [pc |-> "none", turn |-> 0, acts |-> 0, todo |-> {}, current |-> 0,
           pause |-> FALSE, aborted |-> FALSE, registered |-> FALSE]

Loop == [pc : {"none", "coordinator", "applying", "worker", "handed"},
         turn : 0..MaxTurns, acts : 0..MaxActions,
         todo : SUBSET Items,    \* assigned items of this turn still to run
         current : 0..MaxItems,  \* the item of the live worker run
         pause : BOOLEAN,        \* pauseRequested
         aborted : BOOLEAN,      \* the signal of maController
         registered : BOOLEAN]   \* found by pauseTask and cancelTask

TypeOK == /\ task \in TaskStatus
          /\ work \in [Items -> WorkItem]
          /\ proposals \in [Proposals -> {"unused", "pending", "accepted", "resolved"}]
          /\ workers \subseteq Items
          /\ loop \in Loop

-----------------------------------------------------------------------------
(* The store *)

Created == {w \in Items : work[w].status # "unused"}

\* The next free item, if the bound allows one more.
Fresh == {w \in Items : w = Cardinality(Created) + 1}

newWorkItem(deps) == [status |-> "pending", attempts |-> 0, deps |-> deps]

setStatus(wk, set, status) ==
  [w \in Items |-> IF w \in set THEN [wk[w] EXCEPT !.status = status] ELSE wk[w]]

-----------------------------------------------------------------------------
(* Ways on.  wk is the work as the caller left it, l the loop.             *)

\* The loop is left: an aborted one interrupts what is assigned or running.
Leave(wk, l) ==
  work' = IF l.aborted
            THEN setStatus(wk, WithStatus(wk, {"assigned", "running"}), "interrupted")
            ELSE wk

\* After a pause the task is neither running nor terminal, so its runner fails it.
EndPaused(wk, l) == Leave(wk, l) /\ loop' = NoLoop /\ task' = "failed"

\* The runner goes on with the verification, or with its own step loop.
HandOver(wk, l, status) ==
  Leave(wk, l) /\ loop' = [l EXCEPT !.pc = "handed", !.todo = {}] /\ task' = status

\* The top of the coordinator loop.
nextTurn(wk, l) ==
  LET over == l.aborted \/ l.turn >= MaxTurns
  IN  \/ over /\ EndPaused(wk, l)
      \/ /\ ~over
         /\ loop' = [l EXCEPT !.pc = "coordinator", !.acts = 0, !.todo = {}, !.current = 0]
         /\ work' = wk
         /\ UNCHANGED task

begin(wk, w) == [wk EXCEPT ![w].status = "running", ![w].attempts = @ + 1]

\* Fault: the abort is only noticed by the run of the next worker.
dispatch_IgnoreAbort(wk, l, ws) ==
  LET able == {w \in l.todo : wk[w].attempts < MaxAttempts}
  IN  \/ /\ able = {}
         /\ workers' = ws
         /\ nextTurn(setStatus(wk, l.todo, "failed"), l)
      \/ \E w \in able :
           /\ \A v \in able : w <= v
           /\ work' = begin(wk, w)
           /\ workers' = ws \union {w}
           /\ loop' = [l EXCEPT !.pc = "worker", !.current = w, !.todo = {v \in @ : v > w}]
           /\ UNCHANGED task

\* The next assigned item, in order of creation, that has an attempt left; one
\* that has none fails.  "ws" is what the caller left of the workers.
dispatch(wk, l, ws) ==
  LET able  == {w \in l.todo : wk[w].attempts < MaxAttempts}
      first == {w \in able : \A v \in able : w <= v}
  IN  \/ l.aborted /\ workers' = ws /\ nextTurn(wk, l)
      \/ /\ ~l.aborted /\ able = {}
         /\ workers' = ws
         /\ nextTurn(setStatus(wk, l.todo, "failed"), l)
      \/ \E w \in first :
           /\ ~l.aborted
           /\ work' = begin(setStatus(wk, {v \in l.todo : v < w}, "failed"), w)
           /\ workers' = ws \union {w}
           /\ loop' = [l EXCEPT !.pc = "worker", !.current = w, !.todo = {v \in @ : v > w}]
           /\ UNCHANGED task

-----------------------------------------------------------------------------
(* The runner and its user *)

\* runMultiAgentOrchestration, for a new task or one that is resumed.
start ==
  /\ task \in {"ready", "paused"}
  /\ task' = "running"
  /\ loop' = [NoLoop EXCEPT !.pc = "coordinator", !.registered = TRUE]
  /\ UNCHANGED <<work, proposals, workers>>

pauseTask ==
  /\ loop.registered /\ task \in {"running", "verifying"}
  /\ loop' = [loop EXCEPT !.pause = TRUE]
  /\ UNCHANGED <<task, work, proposals, workers>>

\* pauseWatcher looks every 100 ms while the orchestration awaits something.
pauseWatcher ==
  /\ loop.pc \in {"coordinator", "worker"}
  /\ loop.pause /\ ~loop.aborted
  /\ loop' = [loop EXCEPT !.aborted = TRUE]
  /\ UNCHANGED <<task, work, proposals, workers>>

\* Marks the task and aborts the controller of a step; the orchestration has a
\* controller of its own and hears nothing.
cancelTask ==
  /\ loop.registered /\ task \notin {"failed", "cancelled"}
  /\ task' = "cancelled"
  /\ loop' = [loop EXCEPT !.registered = FALSE]
  /\ UNCHANGED <<work, proposals, workers>>

-----------------------------------------------------------------------------
(* The coordinator *)

\* The run failed, or it was aborted by a pause.
coordinatorFails ==
  /\ loop.pc = "coordinator"
  /\ EndPaused(work, loop)
  /\ UNCHANGED <<proposals, workers>>

\* The answer holds no valid plan: the turn counts, the coordinator tries again.
coordinatorUnparsable ==
  /\ loop.pc = "coordinator"
  /\ nextTurn(work, [loop EXCEPT !.turn = @ + 1])
  /\ UNCHANGED <<proposals, workers>>

coordinatorPlans ==
  /\ loop.pc = "coordinator"
  /\ loop' = [loop EXCEPT !.pc = "applying"]
  /\ UNCHANGED <<task, work, proposals, workers>>

\* One more action of the plan.
Apply == /\ loop.pc = "applying" /\ loop.acts < MaxActions
         /\ loop' = [loop EXCEPT !.acts = @ + 1]
         /\ UNCHANGED <<task, workers>>

\* A title that is there already names the item that has it.
createWorkItem(deps) ==
  /\ Apply
  /\ \E w \in Fresh : work' = [work EXCEPT ![w] = newWorkItem(deps)]
  /\ UNCHANGED proposals

\* Whatever the status of the item is.
assignWorkItem(w) ==
  /\ Apply
  /\ work' = setStatus(work, {w}, "assigned")
  /\ UNCHANGED proposals

\* A new item, or none if one has the title; also for a proposal that was
\* resolved before.
acceptSubtask(p) ==
  /\ Apply
  /\ proposals[p] # "unused"
  /\ proposals' = [proposals EXCEPT ![p] = "accepted"]
  /\ \/ \E w \in Fresh : work' = [work EXCEPT ![w] = newWorkItem({})]
     \/ UNCHANGED work

\* reject_subtask and merge_subtask.
resolveSubtask(p) ==
  /\ Apply
  /\ proposals[p] # "unused"
  /\ proposals' = [proposals EXCEPT ![p] = "resolved"]
  /\ UNCHANGED work

requestReview(w) ==
  /\ Apply
  /\ \/ \E r \in Fresh : work' = [work EXCEPT ![r] = newWorkItem({w})]
     \/ UNCHANGED work
  /\ UNCHANGED proposals

\* Fault: only turns without a plan count.
endTurn_Uncounted ==
  LET l == [loop EXCEPT !.todo = WithStatus(work, {"assigned"})]
  IN  /\ loop.pc = "applying"
      /\ UNCHANGED proposals
      /\ \/ HandOver(work, l, "verifying") /\ UNCHANGED workers
         \/ HandOver(work, l, task) /\ UNCHANGED workers
         \/ EndPaused(work, l) /\ UNCHANGED workers
         \/ dispatch(work, l, workers)

\* All actions are applied: one that asked for it ends the orchestration, and
\* otherwise the assigned items are run.
endTurn ==
  LET l == [loop EXCEPT !.turn = @ + 1, !.todo = WithStatus(work, {"assigned"})]
  IN  /\ loop.pc = "applying"
      /\ UNCHANGED proposals
      /\ \/ HandOver(work, l, "verifying") /\ UNCHANGED workers
         \/ HandOver(work, l, task) /\ UNCHANGED workers
         \/ EndPaused(work, l) /\ UNCHANGED workers
         \/ dispatch(work, l, workers)

-----------------------------------------------------------------------------
(* The workers *)

\* What the answer of a worker says; one that cannot be read counts as the last.
WorkItemResult == {"completed", "blocked", "failed", "replan_required", "protocol_recovery"}

\* A replan request fails the item, an answer without a result makes it pending again.
finalStatus(result) ==
  IF result = "protocol_recovery" THEN "pending"
  ELSE IF result = "replan_required" THEN "failed" ELSE result

Outcomes == {finalStatus(result) : result \in WorkItemResult}

\* Fault: the instance of a failed item keeps working.
workerReturns_KeepFailed(outcome, found) ==
  LET w == loop.current
  IN  /\ loop.pc = "worker"
      /\ proposals' = [p \in Proposals |-> IF p \in found THEN "pending" ELSE proposals[p]]
      /\ dispatch(setStatus(work, {w}, outcome), loop,
                  IF outcome = "failed" THEN workers ELSE workers \ {w})

\* "found" are the subtasks the worker proposes.
workerReturns(outcome, found) ==
  LET w == loop.current
  IN  /\ loop.pc = "worker"
      /\ proposals' = [p \in Proposals |-> IF p \in found THEN "pending" ELSE proposals[p]]
      /\ dispatch(setStatus(work, {w}, outcome), loop, workers \ {w})

workerInterrupted ==
  LET w == loop.current
  IN  /\ loop.pc = "worker" /\ loop.aborted
      /\ dispatch(setStatus(work, {w}, "interrupted"), loop, workers \ {w})
      /\ UNCHANGED proposals

\* The run of a work item returns, with an answer or because it was aborted.
runWorkItemStep ==
  \/ \E outcome \in Outcomes, found \in SUBSET {p \in Proposals : proposals[p] = "unused"} :
       workerReturns(outcome, found)
  \/ workerInterrupted

\* The process ends and starts again; both reconcilers run.
Restart ==
  /\ task' = IF task \in {"running", "verifying"} THEN "paused" ELSE task
  /\ work' = setStatus(work, WithStatus(work, {"assigned", "running"}), "interrupted")
  /\ workers' = {}
  /\ loop' = NoLoop
  /\ UNCHANGED proposals

-----------------------------------------------------------------------------
Init == /\ task = "ready"
        /\ work = [w \in Items |-> [status |-> "unused", attempts |-> 0, deps |-> {}]]
        /\ proposals = [p \in Proposals |-> "unused"]
        /\ workers = {}
        /\ loop = NoLoop

applyCoordinatorActions ==
  \/ \E deps \in SUBSET Created : createWorkItem(deps)
  \/ \E w \in Created : assignWorkItem(w)
  \/ \E p \in Proposals : acceptSubtask(p)
  \/ \E p \in Proposals : resolveSubtask(p)
  \/ \E w \in Created : requestReview(w)
  \/ endTurn

Orchestrate ==
  \/ coordinatorFails
  \/ coordinatorUnparsable
  \/ coordinatorPlans
  \/ applyCoordinatorActions
  \/ runWorkItemStep

Next == start \/ pauseTask \/ pauseWatcher \/ cancelTask \/ Orchestrate \/ Restart

Spec == Init /\ [][Next]_vars

\* Each run returns, as in TaskRuntime; nothing makes the watcher or a user act.
FairSpec == Spec /\ WF_vars(Orchestrate)

-----------------------------------------------------------------------------
(* Properties *)

\* Whatever coordinator and workers answer, an orchestration comes to its end.
OrchestrationEnds == loop.pc = "coordinator" ~> loop.pc \in {"none", "handed"}

=============================================================================
