-------------------------- MODULE MultiAgentState --------------------------
(***************************************************************************)
(* What is stored of a task in the multi-agent mode (see MultiAgent) and   *)
(* what its orchestration keeps in memory, and what holds between the two. *)
(***************************************************************************)
EXTENDS Naturals

CONSTANTS MaxItems,         \* bound: work items of the task
          Proposals,        \* bound: ids of subtask proposals
          MaxActions,       \* bound: actions in one coordinator plan
          MaxAttempts,      \* MA_MAX_ATTEMPTS
          MaxTurns          \* MA_MAX_COORDINATOR_TURNS

ASSUME MultiAgentAssumption == /\ {MaxItems, MaxActions} \subseteq Nat
                               /\ {MaxAttempts, MaxTurns} \subseteq Nat \ {0}

VARIABLES task,       \* stored status of the root task
          work,       \* the stored work items
          proposals,  \* the stored subtask proposals
          workers,    \* current items of the stored instances that work
          loop        \* the orchestration in memory, or NoLoop

-----------------------------------------------------------------------------
Items == 1..MaxItems

WithStatus(wk, statuses) == {w \in Items : wk[w].status \in statuses}

-----------------------------------------------------------------------------
(* Properties *)

\* No work item is tried more often than the limit, whatever the coordinator
\* assigns again, however its attempts end and however often the process
\* starts again.
AttemptsBounded == \A w \in Items : work[w].attempts <= MaxAttempts

\* A work item is stored as running exactly while a worker run of it is live,
\* and exactly then one instance is stored as working, on that item: no
\* outcome, abort or crash leaves an item or an instance busy with nobody.
RunningHasWorker ==
  LET live == IF loop.pc = "worker" THEN {loop.current} ELSE {}
  IN  WithStatus(work, {"running"}) = live /\ workers = live

\* Assigned work is run, failed or interrupted before the coordinator is asked
\* again: what is still assigned while a worker runs is about to be dispatched.
AssignedIsScheduled ==
  /\ loop.pc = "coordinator" => WithStatus(work, {"assigned"}) = {}
  /\ loop.pc = "worker" => WithStatus(work, {"assigned"}) = loop.todo

\* Whatever outcome, abort or crash ends it, work is where its status says, and within its
\* attempts.
WorkIsAccounted == AttemptsBounded /\ RunningHasWorker /\ AssignedIsScheduled

Begun(w) == work'[w].attempts > work[w].attempts

\* Once the watcher has seen a pause request, no worker begins.
PauseStopsWorkers == [][loop.aborted => \A w \in Items : ~Begun(w)]_work

=============================================================================
