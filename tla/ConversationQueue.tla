------------------------- MODULE ConversationQueue -------------------------
(***************************************************************************)
(* The per-conversation request queue of the main process:                 *)
(* src/main/queue/QueueManager.ts over the queue tables of                 *)
(* src/main/database/db.ts, driven by the IPC handlers of                  *)
(* src/main/ipc/handlers.ts.                                               *)
(*                                                                         *)
(* JavaScript runs one synchronous segment at a time, so one action is one *)
(* segment: an IPC handler up to its return, or a continuation of          *)
(* runAgentLoop.  processNext runs synchronously inside the operation that *)
(* calls it, up to the first await in runAgentLoop; it is therefore part   *)
(* of those actions and not an action of its own.                          *)
(*                                                                         *)
(* Abstracted: message text, attachments, context references (their        *)
(* integrity is a choice of PreflightFails), the renderer events, and the  *)
(* turns of the agent loop, which is seen as a run that completes, fails,  *)
(* asks for a human, or notices an abort.                                  *)
(***************************************************************************)
EXTENDS Naturals, FiniteSets

CONSTANTS Conversations,   \* conversation ids
          Items,           \* bound: ids that enqueue may give to queue items
          NoConversation,  \* the conversation of an id not yet given out
          MaxRetries       \* bound: manual retries of one item

ASSUME QueueAssumption == /\ IsFiniteSet(Items)
                          /\ MaxRetries \in Nat
                          /\ NoConversation \notin Conversations

VARIABLES conv,     \* per conversation: stored queue flag and in-memory lock
          item,     \* the stored queue items
          runs,     \* live agent runs (activeControllers, activeRunRegistry)
          nextRun,  \* the next request id; ids are never reused
          tasks,    \* items whose task still holds their queueItemId
          answers,  \* assistant messages stored per item
          retries   \* history: manual retries per item

vars == <<conv, item, runs, nextRun, tasks, answers, retries>>

-----------------------------------------------------------------------------
(* Types *)

Terminal == {"completed", "failed", "cancelled"}
Stored   == {"queued", "processing", "paused"} \union Terminal
Statuses == Stored \union {"unused", "gone"}  \* not in the queue: before, after
NoRun    == 0

ConvState == [exists : BOOLEAN, paused : BOOLEAN, held : BOOLEAN, stream : Nat]

QueueItem == [conv : Conversations \union {NoConversation},
              owner : {"agent", "task"}, status : Statuses,
              attempts : Nat, rank : Nat]

Run == [id : Nat \ {NoRun}, conv : Conversations, item : Items,
        state : {"turn", "waiting"}, aborted : BOOLEAN]

TypeOK == /\ conv \in [Conversations -> ConvState]
          /\ item \in [Items -> QueueItem]
          /\ runs \subseteq Run
          /\ nextRun \in Nat \ {NoRun}
          /\ tasks \subseteq Items
          /\ answers \in [Items -> Nat]
          /\ retries \in [Items -> 0..MaxRetries]

-----------------------------------------------------------------------------
(* The queue tables.  "it" is a value of item, "cv" a value of conv.       *)

Members(c, it) == {i \in Items : it[i].conv = c /\ it[i].status \in Stored}

\* An item that is no longer in the queue is left alone.
updateQueueItem(it, i, status) ==
  IF it[i].status \in Stored THEN [it EXCEPT ![i].status = status] ELSE it

removeQueueItems(it, gone) ==
  [i \in Items |-> IF i \in gone THEN [it[i] EXCEPT !.status = "gone"] ELSE it[i]]

setQueuePaused(cv, c, flag) == [cv EXCEPT ![c].paused = flag]

\* Fault: the paused flag is not looked at.
nextQueuedItem_IgnorePause(c, cv, it) ==
  LET queued == {i \in Members(c, it) : it[i].status = "queued"}
  IN  {i \in queued : \A j \in queued : it[i].rank <= it[j].rank}

\* The first item with status queued, in queue order, unless paused.
nextQueuedItem(c, cv, it) ==
  LET queued == {i \in Members(c, it) : it[i].status = "queued"}
  IN  {i \in queued : ~cv[c].paused /\ \A j \in queued : it[i].rank <= it[j].rank}

hasProcessingItem(c, it) == \E i \in Members(c, it) : it[i].status = "processing"

\* Terminal items older than an hour; which ones are that old is the clock's.
Prunable(c, it) == {i \in Members(c, it) : it[i].status \in Terminal}

-----------------------------------------------------------------------------
(* processNext and processItem, from the state the calling operation left. *)

FailAndPause(c, cv, it, rs, i) ==
  /\ item' = updateQueueItem(it, i, "failed")
  /\ conv' = setQueuePaused(cv, c, TRUE)
  /\ runs' = rs
  /\ UNCHANGED nextRun

\* The agent profile was removed or its API key is missing.
NotConfigured(c, cv, it, rs, i) == FailAndPause(c, cv, it, rs, i)

\* Foreign or broken context, or an error thrown before the run is opened.
PreflightFails(c, cv, it, rs, i) ==
  FailAndPause(c, cv, [it EXCEPT ![i].attempts = @ + 1], rs, i)

\* The task runtime owns the request: processing, and the lock is released.
LeaveToTask(c, cv, it, rs, i) ==
  /\ it[i].owner = "task"
  /\ item' = [it EXCEPT ![i].status = "processing", ![i].attempts = @ + 1]
  /\ conv' = cv
  /\ runs' = rs
  /\ UNCHANGED nextRun

StartRun(c, cv, it, rs, i) ==
  /\ it[i].owner = "agent"
  /\ item' = [it EXCEPT ![i].status = "processing", ![i].attempts = @ + 1]
  /\ conv' = [cv EXCEPT ![c].held = TRUE, ![c].stream = nextRun]
  /\ runs' = rs \union {[id |-> nextRun, conv |-> c, item |-> i,
                         state |-> "turn", aborted |-> FALSE]}
  /\ nextRun' = nextRun + 1

\* Fault: only the stored status guards dispatch, not the in-memory lock.
Dispatchable_NoLock(c, cv, it) ==
  IF hasProcessingItem(c, it) THEN {} ELSE nextQueuedItem(c, cv, it)

Dispatchable(c, cv, it) ==
  IF cv[c].held \/ hasProcessingItem(c, it) THEN {} ELSE nextQueuedItem(c, cv, it)

processNext(c, cv, it, rs) ==
  \/ /\ Dispatchable(c, cv, it) = {}
     /\ conv' = cv /\ item' = it /\ runs' = rs
     /\ UNCHANGED nextRun
  \/ \E i \in Dispatchable(c, cv, it) :
       \/ NotConfigured(c, cv, it, rs, i)
       \/ PreflightFails(c, cv, it, rs, i)
       \/ LeaveToTask(c, cv, it, rs, i)
       \/ StartRun(c, cv, it, rs, i)

-----------------------------------------------------------------------------
(* Operations of the user *)

\* CHAT_SEND: store the message, append the item, unpause, dispatch.  For a
\* task request the handler then starts the task with the item's id.
enqueue(c, i, owner) ==
  LET last == Cardinality({j \in Items : item[j].status # "unused"})
      it   == [item EXCEPT ![i] = [conv |-> c, owner |-> owner, status |-> "queued",
                                   attempts |-> 0, rank |-> last + 1]]
  IN  /\ item[i].status = "unused"
      /\ tasks' = IF owner = "task" THEN tasks \union {i} ELSE tasks
      /\ processNext(c, [conv EXCEPT ![c].exists = TRUE, ![c].paused = FALSE], it, runs)
      /\ UNCHANGED <<answers, retries>>

pause(c) ==
  /\ conv' = setQueuePaused(conv, c, TRUE)
  /\ UNCHANGED <<item, runs, nextRun, tasks, answers, retries>>

resume(c) ==
  /\ processNext(c, setQueuePaused(conv, c, FALSE), item, runs)
  /\ UNCHANGED <<tasks, answers, retries>>

\* Any stored item that is not processing may be retried.
retry(c, i) ==
  /\ i \in Members(c, item)
  /\ item[i].status # "processing"
  /\ retries[i] < MaxRetries
  /\ retries' = [retries EXCEPT ![i] = @ + 1]
  /\ processNext(c, setQueuePaused(conv, c, FALSE), updateQueueItem(item, i, "queued"), runs)
  /\ UNCHANGED <<tasks, answers>>

\* Fault: the queue is unpaused but nothing dispatches the next item.
skip_NoDispatch(c, i) ==
  /\ i \in Members(c, item)
  /\ item[i].status # "processing"
  /\ conv' = setQueuePaused(conv, c, FALSE)
  /\ item' = updateQueueItem(item, i, "cancelled")
  /\ UNCHANGED <<runs, nextRun, tasks, answers, retries>>

skip(c, i) ==
  /\ i \in Members(c, item)
  /\ item[i].status # "processing"
  /\ processNext(c, setQueuePaused(conv, c, FALSE), updateQueueItem(item, i, "cancelled"), runs)
  /\ UNCHANGED <<tasks, answers, retries>>

\* With its user message, which ContextSnapshots follows.
Remove(gone) ==
  /\ item' = removeQueueItems(item, gone)
  /\ UNCHANGED <<conv, runs, nextRun, tasks, answers, retries>>

removeItem(c, i) == /\ i \in Members(c, item)
                    /\ item[i].status # "processing"
                    /\ Remove({i})

clearQueue(c) == Remove({i \in Members(c, item) : item[i].status # "processing"})

\* The renderer sends the new order of the items.
reorder(c) ==
  \E i, j \in Members(c, item) :
    /\ item' = [item EXCEPT ![i].rank = item[j].rank, ![j].rank = item[i].rank]
    /\ UNCHANGED <<conv, runs, nextRun, tasks, answers, retries>>

\* Abort the run whose stream is registered for the conversation.
Aborted(c) == {IF r.id = conv[c].stream THEN [r EXCEPT !.aborted = TRUE] ELSE r : r \in runs}

\* CHAT_CANCEL
cancelStream(c) ==
  /\ runs' = Aborted(c)
  /\ UNCHANGED <<conv, item, nextRun, tasks, answers, retries>>

\* CONV_DELETE: abort, then drop the conversation, its messages and its queue.
\* The lock and the stream stay until the run notices.
deleteConversation(c) ==
  LET mine == {i \in Items : item[i].conv = c}
  IN  /\ conv[c].exists
      /\ runs' = Aborted(c)
      /\ conv' = [conv EXCEPT ![c].exists = FALSE, ![c].paused = FALSE]
      /\ item' = removeQueueItems(item, mine)
      /\ answers' = [i \in Items |-> IF i \in mine THEN 0 ELSE answers[i]]
      /\ UNCHANGED <<nextRun, tasks, retries>>

\* The run a Return Control addresses: exactly the given request, or, without
\* a request id, whichever run of the conversation waits.  An aborted run has
\* already lost its resolver.
Resolvable(c, id) ==
  {r \in runs : /\ r.state = "waiting" /\ ~r.aborted /\ r.conv = c
                /\ id \in {NoRun, r.id}}

returnControl(c, id) ==
  \E r \in Resolvable(c, id) :
    /\ runs' = (runs \ {r}) \union {[r EXCEPT !.state = "turn"]}
    /\ UNCHANGED <<conv, item, nextRun, tasks, answers, retries>>

-----------------------------------------------------------------------------
(* Steps of a live run *)

\* onWaitingForHuman: the item shows as paused and the queue is paused.
onWaitingForHuman(r) ==
  /\ r.state = "turn" /\ ~r.aborted
  /\ runs' = (runs \ {r}) \union {[r EXCEPT !.state = "waiting"]}
  /\ item' = updateQueueItem(item, r.item, "paused")
  /\ conv' = setQueuePaused(conv, r.conv, TRUE)
  /\ UNCHANGED <<nextRun, tasks, answers, retries>>

\* The registry entries of a run that has ended, and the dispatch lock.
Release(c) == [conv EXCEPT ![c].held = FALSE, ![c].stream = NoRun]

\* The loop returned: store the answer, complete the item, prune, go on.  An
\* aborted run cannot get here: the abort rejects the request or the wait it
\* is in, and is looked at after each tool and before each turn.
RunCompletes(r) ==
  LET c    == r.conv
      done == updateQueueItem(item, r.item, "completed")
  IN  /\ r.state = "turn" /\ ~r.aborted
      /\ answers' = [answers EXCEPT ![r.item] = @ + 1]
      /\ \E old \in SUBSET (Prunable(c, done) \ {r.item}) :
           processNext(c, Release(c), removeQueueItems(done, old), runs \ {r})
      /\ UNCHANGED <<tasks, retries>>

EndAndPause(r, status) ==
  /\ item' = updateQueueItem(item, r.item, status)
  /\ conv' = setQueuePaused(Release(r.conv), r.conv, TRUE)
  /\ runs' = runs \ {r}
  /\ UNCHANGED <<nextRun, tasks, answers, retries>>

RunFails(r) == r.state = "turn" /\ EndAndPause(r, "failed")

RunCancelled(r) == r.aborted /\ EndAndPause(r, "cancelled")

RunEnds(r) == RunCompletes(r) \/ RunFails(r) \/ RunCancelled(r)

-----------------------------------------------------------------------------
(* The task runtime and the process *)

\* Fault: a task may report again.
completeQueueItemAsTask_Again(i) ==
  LET c    == item[i].conv
      done == updateQueueItem(item, i, "completed")
  IN  /\ i \in tasks
      /\ answers' = [answers EXCEPT ![i] = @ + 1]
      /\ \E old \in SUBSET (Prunable(c, done) \ {i}) :
           processNext(c, conv, removeQueueItems(done, old), runs)
      /\ UNCHANGED <<tasks, retries>>

\* A task that was started with this item's id has its outcome.  Neither the
\* item's status nor its owner is looked at.
completeQueueItemAsTask(i) ==
  LET c    == item[i].conv
      done == updateQueueItem(item, i, "completed")
  IN  /\ i \in tasks
      /\ tasks' = tasks \ {i}
      /\ answers' = [answers EXCEPT ![i] = @ + 1]
      /\ \E old \in SUBSET (Prunable(c, done) \ {i}) :
           processNext(c, conv, removeQueueItems(done, old), runs)
      /\ UNCHANGED <<retries>>

\* Fault: interrupted items are queued again, as a retry would do.
Restart_Requeue ==
  /\ item' = [i \in Items |-> IF item[i].status = "processing"
                                THEN [item[i] EXCEPT !.status = "queued"] ELSE item[i]]
  /\ conv' = [c \in Conversations |->
                [conv[c] EXCEPT !.held = FALSE, !.stream = NoRun]]
  /\ runs' = {} /\ tasks' = {}
  /\ UNCHANGED <<nextRun, answers, retries>>

\* The process ends at any point and loads its store again: what was
\* processing is paused, and so is a queue with a paused item.
Restart ==
  LET it == [i \in Items |-> IF item[i].status = "processing"
                               THEN [item[i] EXCEPT !.status = "paused"] ELSE item[i]]
      hasPaused(c) == \E i \in Members(c, it) : it[i].status = "paused"
  IN  /\ item' = it
      /\ conv' = [c \in Conversations |->
                   [conv[c] EXCEPT !.held = FALSE, !.stream = NoRun,
                                   !.paused = @ \/ hasPaused(c)]]
      /\ runs' = {}
      /\ tasks' = {}
      /\ UNCHANGED <<nextRun, answers, retries>>

-----------------------------------------------------------------------------
Init ==
  /\ conv = [c \in Conversations |->
              [exists |-> FALSE, paused |-> FALSE, held |-> FALSE, stream |-> NoRun]]
  /\ item = [i \in Items |-> [conv |-> NoConversation, owner |-> "agent",
                              status |-> "unused", attempts |-> 0, rank |-> 0]]
  /\ runs = {}
  /\ nextRun = 1
  /\ tasks = {}
  /\ answers = [i \in Items |-> 0]
  /\ retries = [i \in Items |-> 0]

UserStep(c) ==
  \/ \E i \in Items, owner \in {"agent", "task"} : enqueue(c, i, owner)
  \/ pause(c)
  \/ resume(c)
  \/ \E i \in Items : retry(c, i)
  \/ \E i \in Items : skip(c, i)
  \/ \E i \in Items : removeItem(c, i)
  \/ clearQueue(c)
  \/ reorder(c)
  \/ cancelStream(c)
  \/ deleteConversation(c)
  \/ \E id \in 0..(nextRun - 1) : returnControl(c, id)

Next ==
  \/ \E c \in Conversations : UserStep(c)
  \/ \E r \in runs : onWaitingForHuman(r)
  \/ \E r \in runs : RunEnds(r)
  \/ \E i \in Items : completeQueueItemAsTask(i)
  \/ Restart

Spec == Init /\ [][Next]_vars

-----------------------------------------------------------------------------
(* Properties *)

InExecution(c) ==
  {r.item : r \in {x \in runs : x.conv = c}}
    \union {i \in Members(c, item) : item[i].status = "processing"}

\* A conversation executes one request at a time, whoever executes it: there
\* are never two live runs, a live run beside an item left to a task, or two
\* items processing - also while a run waits for its user with its item shown
\* as paused, when hasProcessingItem alone would let the next one start.
OneExecutionPerConversation ==
  /\ \A c \in Conversations : \A i, j \in InExecution(c) : i = j
  /\ \A r, s \in runs : r.conv = s.conv => r = s

\* Stop and Return Control find a run through the maps keyed by conversation:
\* every live run is the registered one and holds its dispatch lock, and a
\* conversation without a live run has neither, even after it was deleted and
\* created again under the run.
RegistryMatchesRuns ==
  \A c \in Conversations :
    /\ conv[c].held <=> \E r \in runs : r.conv = c
    /\ \A r \in runs : r.conv = c => conv[c].stream = r.id
    /\ ~conv[c].held => conv[c].stream = NoRun

\* What executes in a conversation is one thing, and the one Stop would find.
ExecutionIsExclusive == OneExecutionPerConversation /\ RegistryMatchesRuns

\* No interrupted or finished request starts again by itself: each attempt
\* beyond the first was asked for by a retry, across restarts too.
NoUnaskedRerun == \A i \in Items : item[i].attempts <= 1 + retries[i]

\* No request is answered twice: an answer stored for it comes from an attempt
\* of its own or, once, from the task that owns it, in whatever order retries,
\* Stop, deletion and the end of runs and tasks meet.
OneAnswerPerAttempt ==
  \A i \in Items :
    answers[i] <= item[i].attempts + IF item[i].owner = "task" THEN 1 ELSE 0

Stalled(c) == /\ ~conv[c].paused /\ ~conv[c].held
              /\ ~hasProcessingItem(c, item)
              /\ nextQueuedItem(c, conv, item) # {}

\* No operation leaves an unpaused, idle conversation with a queued item:
\* each one that could free the queue calls processNext.  A restart is
\* excluded, because loading the store dispatches nothing.
NoLostWakeup ==
  [][\A c \in Conversations : ~Stalled(c) /\ Stalled(c)' => Restart]_vars

\* After a stop, a failure or a pause the queue holds: while it is paused only
\* a send, a resume, a retry or a skip of the user starts a request in it.
PauseHolds ==
  [][\A i \in Items : item'[i].attempts > item[i].attempts =>
       LET c == item'[i].conv
       IN  conv[c].paused => \/ \E owner \in {"agent", "task"}, j \in Items : enqueue(c, j, owner)
                             \/ resume(c)
                             \/ \E j \in Items : retry(c, j) \/ skip(c, j)]_vars

=============================================================================
