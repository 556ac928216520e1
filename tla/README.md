# UzMoon Forge: models and proofs

TLA+ models of UzMoon Forge, the desktop application in which a user lets AI agents
work on local projects. The models are written from the code; paths below are
relative to `src/src/main` unless they begin with `renderer/` or `shared/`, which are
beside it.

* `*.tla` without prefix: one module per component, with its actions and properties;
* `MC*.tla`, `*.cfg`: the instances TLC checks;
* `*Proofs.tla`: theorems for every value of the constants, checked by TLAPS;
* `PROJECT.json`: which lines each definition models, the runs, the mutants that
  show that a property can fail, the hazards, the findings, the theorems.

To check a run: `tlc -workers 2 -config MCQueueSafety.cfg MCConversationQueue`.
To check the proofs of a module: `tlapm ConversationQueueProofs.tla`.

## 1. The system

The main process is one JavaScript thread. Handlers, timers and continuations of
`await` run one at a time and to their next `await`; what can interleave are these
segments. The store (`database/db.ts`) is an object in memory that every operation
saves synchronously, so a crash falls between two segments and loses what is only
in memory: coroutines, locks, registries, counters, process handles. Where the files
themselves matter (edits, profiles and keys) a module goes below the segment, to the
single write. The renderer is another process: what it sends and what it is sent
are messages, and it can be reloaded or closed at any time.

### Inventory

| component | state | operations | who it talks to | what is hard |
|---|---|---|---|---|
| Conversation queue `queue/QueueManager.ts` | stored items, stored pause flag; in memory the dispatch lock, the abort controllers, the registry of live runs | send, stop, resume, retry, skip, edit, remove, clear, Return Control, delete conversation; ends of runs; `completeQueueItemAsTask`; load | IPC handlers, agent loop, task runtime, snapshots, store | a run that waits for its user has its item stored as paused; deletion and re-creation of a conversation under its run; two owners (run, task) of one answer; crash |
| Task runtime `tasks/task-runner.ts`, `task-manager.ts`, `task-planner.ts`, `task-types.ts` | stored task and plan; in memory the coroutine with its copy of the plan, the pause flag, the step's controller, counters | create, plan, step, retry, replan, verify, pause, cancel, resume, retry step, skip step, load | planner and agent runs, queue, multi-agent mode | user operations write the stored plan under a coroutine that holds another; late planner answers; budgets over crashes |
| Multi-agent mode `tasks/multi-agent/*` | stored work items, instances, proposals; in memory the loop of coordinator turns | coordinator plan (create, assign, accept, reject, cancel, finish), worker run, pause watcher, cancel, reconciliation | task runtime, agent runs | attempts over all ways a worker ends; nothing busy with nobody; abort reaches only part of the loop |
| Context snapshots `project-files/service.ts`, `queue/QueueManager.ts`, `database/db.ts` | files on disk; references in messages, queue items, ledgers | capture, send, edit, remove, clear, delete, branch, run, sweep at load | queue, store, edit service | three kinds of references to one file, copied by branches, pruned at load |
| Command manager `commands/command-manager.ts`, `command-policy.ts`, `process-adapter.ts` | stored commands and trust rules; in memory process handles and spawned ids | propose, approve once or for good, reject, cancel, revoke, timeout, end, quit, load | run_command tool, package.json, operating system | late and double decisions; scripts that change; a cancellation racing a timer; processes that outlive their command; restart |
| Tool protocol and dispatch `agent-client/tool-types.ts`, `project-files/tool-executor.ts` | none | which tools are offered, what is accepted, what each handler asks for first | agent loop, permission engine, browser | two tables that must agree |
| Permission engine `permissions/*`, dialogs in `renderer/App.tsx` | stored presets and policies; in memory grants per request and per session, open questions; in the renderer a queue of dialogs | check, ask, answer, Stop, reload, restart, change of policy | all tools, renderer | ids of tool calls repeat; questions have no time limit; three layers of policy |
| Agent loop and model client `agent-client/agent-loop.ts`, `client.ts` | the run's state and counters; the promise and socket of its request | turns, tool calls, recovery of malformed answers, stall detection, wait for a human, abort | provider, tools, queue | abort at every await, budgets counted in different places, streams that break off |
| Edit service `project-files/edit-service.ts`, `edit-ir.ts`, handlers, `renderer/project/DiffReviewModal.tsx` | project files, temporary files, write journal, backups, stored proposals and history | normalise an answer, review, apply, verify, roll back, undo, sweep at start | permission engine, snapshots, file system | several writes that must look like one; the user writes the same files; a kill or a failure between any two |
| Browser control `browser/*`, `renderer/browser-app/BrowserApp.tsx` | stored profiles, sessions, tabs; in memory views, the agents' controls, budgets, questions | create, change and delete profiles, open, close and load tabs, close sessions, bootstrap of control, page operations, approve, grant, take control, Stop, restart | tools, queue, renderer, Electron | values read before an await on the user or a page; private sessions over kills; one slot for questions |
| Chat screen `renderer/screens/ChatScreen.tsx` | a copy of one conversation, of all streams, of the banners | open, send, stream, end, hydrate, close | queue by request, reply and event | a reply older than an event that overtook it in meaning; streams the screen was not there to see start |
| Agent profiles and keys `database/db.ts`, `secret-store/secrets.ts`, `renderer/screens/*` | `forge.json`, `secrets.enc`; forms and lists | connect, save, test, set default, delete, migrate, launch | queue (which profile a run uses) | two files, several calls per button, copies in forms |
| Dev processes `commands/dev-process-manager.ts` | process and state per project | start, probe, stop, end | browser, tools | start racing stop, readiness of the wrong address |
| Resource manager, task helpers, project tools, command helpers, git, reliability, telemetry, settings, other IPC, tests | see `PROJECT.json` | | | leaves without state of their own, or observers |

### What makes a component correct

* Queue: one execution per conversation; Stop and Return Control reach the run they
  mean and no other; nothing starts again unasked; a queue that is paused holds and
  one that is not does not forget an item; one answer per attempt.
* Tasks: an active status means that somebody works; budgets hold over retries and
  crashes; "completed" is honest; a pause starts nothing; the runner stops.
* Multi-agent: attempts are bounded; busy items and instances belong to a live run;
  nothing assigned is forgotten; a pause starts no worker; the orchestration ends.
* Snapshots: what a message or a ledger refers to exists, what nothing refers to goes.
* Commands: only what was authorized starts, once, within the limit, and under a rule
  for the script as it is; what is shown as running runs; what was told stays true.
* Permissions: Stop withdraws the questions of its run; a grant for one call is spent
  once although ids repeat; only a reload of the window loses a question; an answer
  for longer than one call sticks.
* Agent loop: only transitions of its table; bounded work; to the queue it is the
  simple run of `AgentRunContract`.
* Edits: an apply that fails restores the files; one that is killed loses no text; no
  temporary file stays; what the user wrote survives; only content that was reviewed, or
  written by the edit undone, is overwritten.
* Browser: control follows a consent that still stands: a yes, a grant, or a profile set to
  "allowed" when the agent asked; what is named exists; a private profile is forgotten at
  the next start, wherever the program was killed.
* Chat: streams shown are the runs that go on; their text is whole; what is shown is
  stored, and stays.
* Profiles: what was answered is on disk; set-up and default tell one story; a key
  goes before the profile it belongs to.

## 2. Modules

| module | code it stands for | composes |
|---|---|---|
| `ConversationQueue` | `queue/QueueManager.ts`, the queue tables of `database/db.ts`, `CHAT_*` and `QUEUE_*` in `ipc/handlers.ts` | the queue with the executions it starts and the tasks that own its items |
| `TaskRuntime` | `tasks/task-runner.ts`, `task-manager.ts`, `task-types.ts`, `task-planner.ts` | the coroutine with the stored task |
| `MultiAgent` | `tasks/multi-agent/{ma-manager,coordinator,worker-runner,ma-store,ma-reconciler}.ts` | EXTENDS `MultiAgentState`; the orchestration under `_runLoop` |
| `ContextSnapshots` | the life of snapshot files over `service.ts`, `QueueManager.ts`, `db.ts`, `handlers.ts` | EXTENDS `ContextReferences`; messages, queue items, ledgers, files |
| `CommandManager` | `commands/command-manager.ts`, `command-policy.ts`, `process-adapter.ts`, `handleRunCommand` | manager, operating system, waiting tool |
| `ToolProtocol` | `agent-client/tool-types.ts` | tables of offered and accepted tools, validation |
| `CapabilityRegistry` | `permissions/capability-registry.ts`, the pure part of `permission-engine.ts` | EXTENDS `ToolProtocol` |
| `ToolExecutor` | the dispatch of `project-files/tool-executor.ts` | EXTENDS `CapabilityRegistry` |
| `Permissions` | `permissions/permission-engine.ts`, its store, `PERMISSION_IPC`, `renderer/App.tsx` | EXTENDS `ToolExecutor`; runs, engine, renderer |
| `ModelClient` | `makeRequest` of `agent-client/client.ts` | one request, one action per socket event |
| `AgentRunContract` | what `QueueManager.ts` and `task-runner.ts` expect of `runAgentLoop` | abstract specification |
| `AgentLoop` | `agent-client/agent-loop.ts`, budgets of `tool-executor.ts` | EXTENDS `ModelClient`; implements `AgentRunContract` |
| `EditProposal` | `edit-ir.ts`, the pure part of `edit-service.ts` | from an answer to a proposal |
| `EditService` | apply, rollback, undo, sweep of `edit-service.ts` and `ipc/handlers.ts` | EXTENDS `EditProposal`; disk, store, handler |
| `EditReview` | `renderer/project/DiffReviewModal.tsx` | EXTENDS `EditService`; the user's dialog over the handlers |
| `BrowserActions` | the page operations of `browser/browser-manager.ts` | what each is charged as and needs |
| `Browser` | `browser/browser-manager.ts`, `browser-window-controller.ts`, `BROWSER_IPC`, the question slot of `renderer/browser-app/BrowserApp.tsx` | EXTENDS `BrowserActions`, `BrowserState`; store, views, agents, user |
| `ChatView` | `renderer/screens/ChatScreen.tsx` with the events and replies of `QueueManager.ts` and `handlers.ts` | screen, channel, main process |
| `AgentProfiles` | profiles and state of `database/db.ts`, `secret-store/secrets.ts`, their handlers and screens | renderer functions, handlers, two files |
| `MultiAgentState`, `ContextReferences`, `BrowserState` | what `MultiAgent`, `ContextSnapshots` and `Browser` store and keep | constants, variables and properties, for the component and for its proofs (section 5) |

How code becomes an action, in every module:

* One action is one synchronous segment, with every call it makes. `processNext` of
  the queue, the top of the step loop of a task, and launch and spawn of a command
  run inside the operation that reaches them, and are operators of its action.
* A status in the store is a field of a record (`item`, `stored`, `work`, `command`);
  what is lost in a crash is a variable or field of its own (`runs`, `conv.held`,
  `runner`, `loop`, `process`, `spawned`). `Restart` is a crash at any moment followed
  by load and reconciliation.
* Where no screen is modelled the renderer is any user: every IPC operation is enabled
  whenever its handler accepts it, at any time and on stale information.
* Models, tools and processes answer nondeterministically with each outcome the code
  distinguishes.
* `MultiAgent` is finer than the code in one place: the actions of one coordinator
  plan run in one segment and are separate steps here, which adds crashes between
  them. Each is saved at once, so a killed process can leave exactly these states.

### State and code

* `ConversationQueue`: `item[i].status` is `QueueItem.status`; "unused" and "gone" are
  ids not yet or no longer stored. `conv[c].paused` is the stored queue flag, `.held`
  membership in the dispatch lock, `.stream` the entry of the run registry. `runs` are the
  live calls of `runAgentLoop`; an aborted one is still live until it notices.
  `tasks` are items some task still has as its `queueItemId`. `retries` and
  `answers` are counted for the properties only.
* `TaskRuntime`: `stored.steps` is the stored plan, `runner.steps` the copy of the
  coroutine, and which of the two an operation reads is as in the code. `runner.pc`
  names the `await` it is in. A retry of the whole task creates another task, which is
  another instance.
* `MultiAgent`: a work item is its duplicate fingerprint; an instance matters while
  it works, so `workers` holds the item it works on. `loop.pc` names the `await`,
  `loop.todo` the assigned items read at the start of the turn.
* `ContextSnapshots`: `files` is the directory; the references are sets of ids in
  `messages`, `items` and `ledger`. `edited`, `branched`, `read`, `captured` and `sent`
  are history.
* `CommandManager`: a command is a script of package.json, another command that may be
  approved, or one that policy blocks. `process[c]` joins the operating system's
  process with its handle: "cancelled" and "timedout" have their SIGTERM,
  "deaf" is a handle whose `spawn` threw (see 6). `told` is what the `run_command` tool
  waits for or said.
* `Permissions`: `preset`, `globals` and `overrides` are the settings file, `sessions` and `once`
  the grants, `pending` the promises that wait. `channel` and `answers` are the two
  directions of IPC, `dialogs` the queue of the renderer. A check that needs no answer and
  the act of its tool are one segment; so are an answer and the act it allows.
  `credit` counts, for the property, the answers that left a grant.
* `ModelClient`, `AgentLoop`: `request` is the promise with its socket, `accumulator` the
  calls that arrive in pieces. A settled promise is continued before any other event.
  A text is only what `normalizeDecision` can tell of it. `todo` are the calls of the
  turn still to be made, `goal` the stall detector, `used` the budgets of the tools.
* `EditService`: a text is a sequence over two characters, so that replacements and their
  count are computed. `handler` has the writes that the handler under way has still to
  make; each write to disk is an action, any of them may fail, and the program may be
  killed between any two. `written` is what the user wrote last.
* `Browser`: `controls` is keyed by tab, `budgets` by request, `binding` by conversation, as in
  the code. `loading`, `closing` and `deleting` are operations between their halves. `window` is
  "opening" until its page has subscribed. `profiles` maps a stored profile to its policy, which
  UPDATE_PROFILE changes; `PoliciesSet` says which ones the user gives it. `consents` is history:
  what the user agreed to and has not taken back, by a yes to the question, by
  GRANT_AGENT_ACCESS (of a stored tab, with the session it belongs to), or by the policy
  "allowed" at the moment the agent asked.
* `ChatView`: `stored`, `queued`, `run` are the main process in short (the queue in full is
  `ConversationQueue`). `requests` and `pushes` are the channel, in order; a reply carries
  what the handler read when it ran. `visit` tells replies to an earlier mount.
  A run that fails or is stopped leaves the queue paused, and so does a wait, after which a
  success may start nothing; pausing by hand is not modelled. Where the profile or its key is
  missing an item fails without an event. `started` is history.
* `AgentProfiles`: `disk` has both files and the ones beside them; a handler's writes are
  separate actions. `functions` are the renderer's, each with the calls it has still to
  make. `acked` and `deleted` are history.

## 3. Runs

State counts are distinct states. Each property of a passing run has a mutant, a
defect put into one operator (`..._Something` beside the original), under which TLC
finds the property violated in the same instance.

| run | instance | states | shows |
|---|---|---|---|
| `queue_safety` | 2 conversations, 2 requests, 1 retry; symmetric | 345,835 | one execution per conversation, which lock and registry agree on; no unasked rerun; one answer per attempt; no lost wake-up; a paused queue holds |
| `task` | 2 step ids, 3 steps, 2 revisions, 2 attempts, 2 steps without progress; fair | 77,318 | active means worked on; budgets; honest completion; pause starts nothing; the runner stops |
| `snapshots` | 2 conversations, 2 messages, 3 files; symmetric | 43,223 | ledgers and unshared messages find their files; no leak |
| `multi_agent` | 2 items, 1 proposal, 2 actions a plan, 2 attempts, 3 turns; fair | 278,605 | attempts bounded, busy items have their worker, assigned is scheduled; pause stops workers; the orchestration ends |
| `commands` | 2 commands, 2 bodies, 1 process, list of 1; fair | 56,319 | starts are authorized, single, within the limit, under a valid rule; running has a process; what was told stays; the agent is answered |
| `permissions` | a request in a project and a task step in none, 1 call id, 2 questions | 147,648 | Stop withdraws; once is once; only a reload loses a question |
| `agent_loop` | both protocols, 1 native call, 5 texts, 2 steps, 1 recovery; fair | 467,628 | bounded work; implements the contract |
| `edits` | 2 files, 5 answers, 2 mishaps, 1 user write | 1,422,325 | a failed apply restores; a killed one loses no text; no temporary file stays; content survives; only known content is overwritten |
| `browser` | 1 request, a persistent and a private profile, 2 sessions, 2 tabs, 1 restart; symmetric | 1,342,552 | consent precedes control; references exist; private is forgotten |
| `chat_view` | 2 conversations (one a draft), 2 sends, 2 visits, 1 chunk, 1 request and 2 pushes under way | 3,780,360 | streams match runs; text is whole; the view is stored; what is shown stays |
| `profiles` | 2 profiles, 1 renderer function, 1 kill; symmetric | 1,047,973 | answers are durable; set-up is coherent; the key goes first; no deadlock |
| `chat_answer` | as `chat_view` | violation | an answer is stored and not shown (section 6) |

`TypeOK` of every module also holds in these instances; it is in no configuration
to keep the runs short, and proved of every component but two: the browser, whose proofs do without, and the
chat screen, whose invariant has the same types with wider bounds on texts and visits. `MCPermissions` makes
TLC evaluate one more fact at its start, `OfferedIsAccepted`: every tool offered to a model,
with any of its optional arguments, passes validation and has a handler.

Why the bounds are enough:

* Queue: conversations share no state except counters of ids, so two suffice for
  cross-talk; one of two requests can be live, waiting or owned by a task while the
  other is queued, retried or sent after a deletion. One retry separates first attempts
  from asked-for ones.
* Tasks: two ids give independent and dependent steps and let a replan use an id
  again; every budget is small enough to run out and large enough to be used.
* Snapshots: one message to act upon, one to suffer, two conversations to be original
  and branch; three files cover two references of one message and one read by a run.
* Multi-agent: two items are a dependency or an order; three turns are a plan, a
  correction and an end. `MaxItems` and `MaxActions` bound the state space only: the
  code reports more and goes on.
* Commands: the limit and the list are 1, so that a second command already meets both.
  Two bodies and none give a rule that matches, one that no longer does, and one made
  without a body. The safety part also held for three commands with both limits at 2.
* Permissions: a run makes one call at a time; two runs have two questions open together,
  or one run asks twice under one call id. The two runs differ in all that scopes tell
  apart: project or none, request or task step. One settable capability, the one asked
  for, and the policy that asks; other capabilities differ in their table rows only.
* Agent loop: every budget can be reached, and exceeded if it were not checked; five
  texts lead to each class of decision, a malformed and a repeated one included.
* Edits: two mishaps are a failure and a kill during its repair; five answers are a plain
  rewrite, two files, a structured replacement, one with a wrong count and one over an
  altered base. `Faults` leaves out "verify": with it `FailedApplyRestores` fails
  (section 6).
* Browser: two tabs and sessions are one that goes and one that stays; the private profile
  asks before it gives control, the persistent one asks and is set to "allowed" while questions
  wait and controls are held. The properties also held in two instances that are no run, to keep
  within minutes: with "off" for the persistent profile as well (2,320,546 states), and with two
  requests that compete for the tabs of one session of one persistent profile (1,242,862). The
  theorems have no bound on any of these.
* Chat: the second visit is the screen coming back in the middle of a run; two pushes and a
  request under way are an event between request and reply. One chunk separates a text
  that was reset from one that was kept.
* Profiles: two profiles are a default and another; one kill falls between any two writes,
  and its launch is the second life.

Deadlock is checked in `profiles` only, where a launch, a click or a reply is always
possible. In the other systems the user may do nothing more, and bounded ids are used
up, so that a stop is right.

## 4. Fairness

* Tasks and multi-agent: the coroutine itself (`RunnerStep`, `Orchestrate`). Each
  `await` is an agent run or planner call with a timeout, a tool budget and a turn
  budget. Users, watchers and crashes are not fair; the liveness properties hold
  although a crash is possible at any time, because it removes the coroutine.
* Commands: the timer of each process (`timeoutFires`), the SIGKILL three seconds
  after its SIGTERM (`Killed`), and the polling tool. Nothing makes a
  process that is not signalled end.
* Agent loop: its own steps (`Start`, `Continue`) and the return of a tool (`ToolReturns`),
  which has a time limit or a user. The provider is not fair: it may never answer. An
  aborted run still ends, because the abort settles the promise; this is the liveness
  of `AgentRunContract`.
* The other modules have safety properties only.

## 5. Proofs

Every modelled component with a state of its own has theorems, about every value of the constants
that satisfies the named assumptions of the specification: `QueueAssumption`,
`TaskAssumption`, `MultiAgentAssumption`, `CommandAssumption`, `PermissionAssumption`,
`ClientAssumption` with `LoopAssumption`, `EditAssumption`, `ProfilesAssumption`,
`PoliciesArePolicies` of the browser, and the three of `ChatView` (existing conversations are conversations, `None` is not one,
bounds are numbers); the theorems about snapshots need none. TLC evaluates each of them in the run of its module. They say that
bounds are numbers, that bounded sets are finite and that tables have their types; a theorem
that needs more says so.

The theorems are in eight modules. Three of them hold two components that work together:

| module | about | with |
|---|---|---|
| `ConversationQueueProofs` | `ConversationQueue` | `Context == INSTANCE ContextSnapshots`, the files of what is queued |
| `TaskRuntimeProofs` | `TaskRuntime` | `MA == INSTANCE MultiAgent`, the mode in which a task has no plan |
| `AgentLoopProofs` | `AgentLoop` | `Browser == INSTANCE Browser`, which the tools of a run drive |
| `AgentProfilesProofs`, `ChatViewProofs`, `CommandManagerProofs`, `EditReviewProofs`, `PermissionsProofs` | the component of the name | |

A component that is instanced has its constants, variables and properties in a small module
(`ContextReferences`, `MultiAgentState`, `BrowserState`) which both it and the proofs extend:
its actions and its specification are those of the instance, the properties those TLC checks.
A lemma `SamePromises` goes from the instance's copy of a property to the property where both
are used.

The plan of each is the same. An invariant (`IInv`, `ContextIInv`, `MultiAgentIInv`,
`BrowserIInv`) strengthens `TypeOK`, or the properties themselves, until every step keeps it; a lemma per action shows that;
`Invariant` is the temporal conclusion, and the properties follow from it, or, for properties
of steps, from it and one look at each action. TLC checked each strengthening on an instance
before it was proved.

| property (run) | theorem | needs |
|---|---|---|
| `ExecutionIsExclusive`, `NoUnaskedRerun` (queue) | `Exclusive`, `NoRerun` | |
| `OneAnswerPerAttempt` | `OneAnswer` | `AnswersKept` |
| `PauseHolds`, `NoLostWakeup` | `PauseIsKept`, `QueueGoesOn` | |
| `ReferencesResolve`, `NothingLeaks` (snapshots) | `NeededFilesStay`, `NoFileLeaks` | |
| `ActiveTaskHasRunner`, `WithinBudget`, `PauseStartsNothing` (task) | `ActiveIsAlive`, `BudgetsHold`, `PauseIsKept` | |
| `CompletedTaskIsDone` | `CompletedMeansDone` | ids that name one step, as the property says |
| `WorkIsAccounted`, `PauseStopsWorkers` (multi_agent) | `Accounted`, `Pause` | |
| all safety properties of commands | `Authorized`, `Processes`, `FinalAnswer`, `AutomaticStart` | |
| `StopWithdraws`, `OnceIsCounted`, `OnlyReloadLosesAQuestion` (permissions) | `StopIsHeard`, `OnceCounts`, `QuestionsKept` | |
| `AnswerSticks` (in no run) | `AnswersStick` | |
| `WorkIsBounded` (agent_loop) | `WorkBound` | |
| `EveryPathIsAllowed` (in no run) | `PathsAreAllowed` | |
| safety part of `ImplementsContract` | `LoopIsARun` | |
| `ConsentPrecedesControl`, `ReferencesExist`, `PrivateIsForgotten` (browser) | `Consented`, `References`, `PrivateForgotten` | |
| `StreamsMatchRuns`, `TextIsWhole`, `ViewIsStored`, `ShownStays` (chat_view) | `StreamsMatch`, `TextWhole`, `ViewStored`, `StoredStaysShown` | |
| `AnswersAreDurable`, `SetUpIsCoherent`, `KeyGoesFirst` (profiles) | `Durable`, `Coherent`, `KeyFirst` | |
| `ContentSurvives` (edits) | `UsersTextSurvives` | writes that verify |
| `OnlyKnownContentIsOverwritten` | `KnownIsOverwritten` | one edit for a file |
| `FailedApplyRestores`, `OverwrittenIsBackedUp` | `FailureRestored`, `OverwrittenBackedUp` | both |
| `NoTempIsLeft` | `NoTempStays` | |

* `ConversationQueueProofs`. A processing item is the one of the live run, ids of
  live runs are below the next id, and an item that waits has a retry left to account for
  its next attempt. Because `processNext` goes on from values its caller computed, the
  invariant is a predicate `Good` over values; each operation is shown to lead to good
  values and one lemma, `ProcessNextGood`, covers the rest of the segment.
  `AnswersAccounted` is an invariant beside it: the answers of an item, the one a live run
  owes and the one a task owes are together within what its attempts pay for. A wake-up
  is not lost because a queue that stalls would have waited before the step already
  (`StalledWaits`, `NextWakes`): whatever frees a queue ends in `processNext`.
* `ContextSnapshots` (in `ConversationQueueProofs`). Files are deleted for a message that others share ids or
  references with; `Sharing` says how far that goes (references are captured for one
  id, an item refers to what its message does until it is edited, an id lives in one
  conversation until it is branched). The operators on sequences of messages are
  shown to be what they are on sets (`AtIn`, from the rank of a position).
* `TaskRuntimeProofs`. The store and the memory hold the same steps in other states
  (`SameSteps`); attempts are charged before a step runs (`Budgets`); a step that was cancelled
  and done by no namesake leaves nothing to do but a verification that waits for it
  (`Cancelled`). Without unique ids `CompletedTaskIsDone` is false in larger instances than
  the run's (section 6), which is why the property has the hypothesis.
* `MultiAgent` (in `TaskRuntimeProofs`). `Between` says where a continuation stands once it has settled
  the item that ran: nothing runs, and what is assigned is what is left to do. `DispatchGood`
  and `NextTurnGood` lead from there to the invariant. `Rested` is needed for start and
  resume: a task that can be started left nothing assigned.
* `CommandManagerProofs`. `CommandOK` says that an undecided command has left no trace (no
  process, no entry in `_spawnedIds`, no start, nobody waiting) and that one with a process is
  running or cancelled: so the end of a process never changes an answer that was given.
  The limit on processes and the list that a restart reconciles rest on the cardinality of
  subsets; `ListShrinks` says that later commands only push a command off the list.
* `PermissionsProofs`. A question is open in the main process and shown by the window.
  It is in one place on its way there and back (`OnePlace`), and what the window holds of
  a question that is not open any more is followed by the event that removes it
  (`Going`): with the order of the channel this is `StopWithdraws`.
* `AgentLoopProofs`. Each request to the model is paid for by a step, a recovery or a
  human (`RequestsArePaid`); bytes are charged after a read, so that the last one may
  exceed the budget by itself and no more (`ReadIsBounded`). `LoopIsARun` maps the
  first states and every step of the loop to `AgentRunContract`, where most are stutters.
* `Browser` (in `AgentLoopProofs`). To the two invariants `BrowserIInv` adds `PoliciesStored`:
  a stored policy is a policy. Who is not refused and not asked is then "allowed", so that
  the control given without a question has the consent of the policy. With it they are inductive
  without a type: whatever makes a control also has the consent (`GrantKeeps`), and
  whatever withdraws a consent releases every control that rested on it (`RevokeKeeps`); of a
  session that is forgotten every tab goes, those its own list has lost included
  (`ForgetKeeps`).
* `AgentProfilesProofs`. A handler writes two files, each through a temporary one, and a kill
  falls between any two of its steps: `DiskOK` says at each of them what a launch would read.
  `AnswersAreDurable` follows. `SetUpIsCoherent` depends on what the screens will ask for
  next: `CallGood` says of every call under way that what it names is stored and has its key,
  or an earlier call of the same function sees to that, and `ScreensOK` that every form and
  list lets only such calls be made. The handlers by themselves would accept worse ones;
  the coherence is a property of the two together.
* `ChatViewProofs`. Nothing need be right on the screen while something is on its way to
  it, so the invariant is about the way: what is shown is so, or what makes it so is
  coming, in the order that makes it so. `Places` follows a message through the main
  process. `Wire` is about the pushes: a stream announced goes on or its end comes later
  (`EndsFollow`), a run that goes on has no end under way (`EndsAreFinal`), what would hide it
  is followed by its start (`StartsFollow`), no chunk is read before its start
  (`ChunksFollow`), a list of messages has what arrives before it (`ListsGrow`). `Screen`
  says what the shown knows, and `Coming` that for a run not shown or a message that does not
  fit a request or reply is under way that mends it. As an action sends several pushes
  (an answer, its end, the start of the next run) the parts are operators of the sequences,
  shown for one push at the end (main process) and one taken from the front (screen).
* `EditReviewProofs`. Three layers. `Written` holds of any proposal: before the rename the
  file is what its backup says, after it is what the handler writes, and the text the
  user wrote last is in the file, in a backup that no failure can take away, or in the
  proposal; a temporary file has its journal entry or a mishap behind it. `Restorable` adds
  what a rollback relies on: the edits still to be restored are as Apply left them,
  not undone, and their backups are what the handler found, so that `restoreFromBackup`
  refuses none. It needs answers with one edit for a file (`OneEditPerFile`), which the
  code does not ensure (section 6). `Covered` is about kills: what an apply has overwritten is in
  a backup that counts (`Found`), which the one of a write that may still fail does not.

Sequences that lose elements (`SelectSeq`) are written as the set of the one selection in
ascending order (`At`, `Without`, `Keeping`) where something is proved of them: what a
recursive definition computes is out of the prover's reach. For the same reason the type of
the edits of an answer is part of `EditAssumption`; induction over numbers is done by the
least counterexample (`LeastNatural`).

`AnswerSticks` and `EveryPathIsAllowed` are about one step and one table, and are only proved.

Only model-checked: liveness (`RunnerStops`, `OrchestrationEnds`, `AgentIsAnswered`, and the
liveness in `ImplementsContract`), as fairness and ENABLED are out of the prover's reach; and
`OfferedIsAccepted`, a fact about finite tables that TLC evaluates. `AnswerIsShown` is violated
(section 6). All other properties of the runs are theorems.

## 6. What the models show to differ from what the repository says

With a run, whose property is the statement and whose counterexample is a behaviour
of the code:

* `chat_answer`: "so we can never miss a STREAM_END that races the hydration response"
  (`renderer/screens/ChatScreen.tsx:674`). The reply with the messages can be read
  before the answer is stored and the one about the run after it ended; and the end of
  a task-owned request carries a stream no start was sent for. Either way the answer
  is in the store and not on the screen until the conversation is opened again.

Met while modelling. The models contain these behaviours; where one would
violate a property of a run, the property names the exception.

Queue, snapshots:

* A branch keeps the ids of the messages it copies and clean-up excludes messages by id
  over all conversations: deleting a conversation or clearing its queue deletes files
  its branch refers to (`queue/QueueManager.ts:340`, `:312`, `database/db.ts:657`).
  `ReferencesResolve` exempts copied messages.
* `editItem` deletes the snapshots of a queued request and leaves the references in its
  message, whose context then fails (exempt likewise).
* Removing or clearing items deletes the questions of answered requests too.
* When `createAndStartTask` throws, the item stays processing, though the comment at
  `ipc/handlers.ts:577` says it is marked as failed.

Tasks, multi-agent:

* While a task replans, cancel cannot abort the planner; its answer sets the cancelled
  task running (`tasks/task-runner.ts:592`, `tasks/task-invariants.ts:85`).
* A runner that stops at a pause leaves the status "paused", which the `finally` block
  takes for an unexpected exit (`task-runner.ts:231`, `:822`): a pause ends as a failure.
* A step whose answer is ambiguous (`protocol_recovery`) has no case in the switch of
  `task-runner.ts:546`, and a failed replan does not store its step: the step stays
  "running" in the store without a runner (`task-invariants.ts:122` excludes it).
* A replan may reuse a step id (`task-invariants.ts:103`); attempts are then counted together.
  With three revisions and four steps a task can complete with a cancelled step: a replan
  uses the id of a step that is done, the user cancels while the next replan is awaited, it
  fails and the runner goes on to verification, the program is killed, and the resumed task
  takes the namesake for the step. `CompletedTaskIsDone` asks for unique ids.
* Step retry and skip under a live runner are overwritten by its next save; a task
  interrupted while planning can be neither resumed nor cancelled.
* The controller that cancel aborts is not the one the multi-agent loop awaits: a
  cancelled task goes on starting workers (`task-runner.ts:845`, `:273`). Assignment
  does not look at dependencies (`ma-manager.ts:235`, `ma-types.ts:127`).
* The multi-agent limits on items, depth and workers are only reported; turns are counted
  in memory; a completed item can be assigned again and its result lost.

Commands:

* The timer of a cancelled command stays armed until the process is dead, and its end
  looks at the timeout first: cancelled becomes timed out (`command-manager.ts:581`).
  `AnswerIsFinal` exempts cancelled commands.
* If `spawn` throws, `process-adapter.ts:154` fires completion before `timeoutHandle`
  is declared; the completion throws and never arrives. The command stays running and
  its handle counts against the limit until the program ends.
* A command that finds the limit reached fails; `shared/types.ts` has it wait in "queued".
* `run_command` waits 65 seconds by default and the command has 120: the agent is told
  of a timeout while the command goes on.
* A trust rule made while the script has no body holds for any body it gets later.
* `cancelProjectCommands` (`command-manager.ts:366`) has no caller.

Permissions:

* `git_status` and `git_branch_info` check a capability "git.read" that is not registered
  (`tool-executor.ts:2002`, `:2057`; `reliability/invariants.ts:756`).
* An answer "once" lets the call act and leaves a grant as well. `start_project_process` and
  its kin check no permission, tab actions neither permission nor control.
* The question before edits are applied names no request and cannot be withdrawn; pausing
  or cancelling a task sets the signal only, so that a late answer lets the tool act
  (`StopWithdraws` is about requests).
* "Always allow" has no effect where the project's policy asks (`AnswerSticks` says so).

Agent loop:

* Stall detection compares native calls with their ids, which differ, and so sees none
  (`agent-loop.ts:908`, `:894`).
* With the budget of tools spent, a fence or call is shown as the answer in a chat without a project,
  though the comment near `:314` has it rejected; `attemptBudgetFinalization` (`:1138`)
  and the instruction to summarize are never used. `recoveryCount` is never reset
  though "consecutive" is said (`:176`). The step limit counts turns, not calls.
* A run that asks for a human where nobody can be asked goes round without a bound
  (`QueueManager.ts:2313`, `:2461`). `WorkIsBounded` counts such returns.
* An answer cut off by length loses its calls, arguments that do not parse become `{}`.
  After a status other than 200 the socket is destroyed before it is read; the promise may
  then settle only at Stop, and `image_unsupported` is hardly reachable.

Edits:

* "All failures produce explicit rollback" (`edit-service.ts:12`; `reliability/invariants.ts:278`).
  A write that fails its verification returns its error after the rename; the handler discards the
  backup of that file (`ipc/handlers.ts:1150`), and the rollback is for the files before it. The
  file stays overwritten and its text is gone: with "verify" in `Faults`, `FailedApplyRestores`
  is violated, and `ContentSurvives` is proved for writes that verify.
* Two replacements in one file overwrite each other (`QueueManager.ts:1590`,
  `edit-service.ts:11`). Rollback goes forward, so that two edits of one path fail to restore.
* A failure followed by a kill leaves a temporary file: its journal entry goes first.
* A kill in the middle of an apply of two files leaves it half done, without undo for the file
  whose record was still to be made: its text is in a backup (`OverwrittenIsBackedUp`) that nothing
  names. Between record and status a kill leaves a proposal that is still ready. Rejecting a proposal leaves its
  edits applicable; Reject All stays enabled after an apply. Undo and the
  rejection of one edit have handlers and no button.

Browser:

* `validateAgentControl` looks up a map that is keyed by tab with the id of a session
  (`browser-manager.ts:1219`, against `:78`): every page operation of an agent is denied, and
  no budget is ever charged. The model has the lookup as it is; its agents do everything
  up to that point.
* `cancelApprovalsForRequest` matches nothing, because the questions carry no request: a
  run that asks for the browser hangs after Stop, and a late yes still grants.
* A question sent before the page of a new window has subscribed is lost; a second one
  overwrites the first in the single slot of `renderer/browser-app/BrowserApp.tsx`.
* The session is read before the question and stale after it (`:1182`), and so is the policy:
  with the profile set to "off" or deleted meanwhile, a yes grants control against the assertion
  BROWSER_AGENT_CONTROL_EXPLICIT (`:983`), which only reports. A change of policy takes nothing
  from agents that have control; "allowed" gives it with no question.
* "Private sessions are deleted on restart" (`:381`): a session made under a private profile
  while `deleteBrowserProfilePublic` awaits the clearing of storage is not in the list it closes
  (`:505`), and the start that looks up its profile (`:383`) finds none and keeps it.
  `PrivateIsForgotten` is about profiles that are stored. UPDATE_PROFILE, DELETE_PROFILE and
  GRANT_AGENT_ACCESS have handlers and no button.
* The
  bootstrap of another conversation overwrites the control of a tab, and
  `resolveAgentBrowserTarget` returns the other's. Controls are not released when a run
  ends; `userTakeControl` revokes one tab only; `ensureDefaultSession` turns "off" into "ask".
* Two tabs opened at once can lose one from `tabIds` and exceed the limit; closing a
  session while a tab loads leaves its view. Suspended sessions are never active again.
* `MAX_SESSIONS`, `MAX_CONCURRENT_AGENT_TABS`, `evaluateBrowserPolicy` and `restoreState` are unused.

Chat screen:

* The banner for Return Control is hidden while `streaming` is set (`ChatScreen.tsx:1675`),
  which it is while the run waits (`QueueManager.ts:1423`); it does not come back when the screen does.
* A send answered before the list of messages arrives loses its message until the
  conversation is opened again. The error of a refused send appears in whatever conversation is open;
  errors before a run use streams the screen does not know; a missing profile or
  key sends none. Opening a conversation again wipes streamed text.

Profiles:

* The default is kept twice, as a flag and in the application state, and the two can
  disagree: connect A, add B, delete A, launch; the connect screen saves A again, which
  becomes the default of the state while B has the flag (`db.ts:429`). The id of the
  agent at set-up is never updated, so deleting the first agent sends the next launch to the
  connect screen though others are usable.
* Saving settings of a deleted profile brings it back without a key; testing in a form and
  then saving overwrites the stored result of the test; testing an agent that is
  never saved leaves its key; a list out of date lets a deleted profile become the default.

Development servers (read, not modelled): a server that is killed is reported as failed;
readiness probes the first address seen; a late probe announces a server that has ended.

## 7. Not modelled

* Dev processes: planned (section 8).
* Message text, prompts, evidence, hashes and output, but for what a property
  depends on: the class of an answer, the contents of edited files, whether arguments
  fit a schema.
* The pure leaves: classification of requests, parsing of git output, sanitizing,
  indexing and searching of project files, risk classes beyond the ways policy treats a command.
* Telemetry and the reliability observers, which record and let the program go on.
  Resource leases: only tests acquire one.
* In the browser: history, bookmarks, names and default flags of profiles (any stored profile may
  be the default), navigation buttons, bounds of views, what a script
  does in a page. In the chat screen: queue panel, search, archive, attachments, drawing.
* Writes that fail and crashes inside a save, except for edits, profiles and keys.
* Windows process handling; tests, benchmarks and scripts.

## 8. Plan

Built so far: all components of section 1 but the last two rows, each with a run and with
theorems for all of its safety properties. Next, in this order:

1. `DevProcess`: start, probe, stop, end, restart of the application.
2. `QueueAndTask`: the composition of `ConversationQueue` and `TaskRuntime` over
   `queueItemId`: every item left to a task is completed in the end.
3. Refinement: the main process in short that `ChatView` has, shown to be implemented by
   `ConversationQueue`.
