----------------------- MODULE ConversationQueueProofs -----------------------
(***************************************************************************)
(* Proofs about ConversationQueue, for any conversations, items and        *)
(* retries.                                                                *)
(*                                                                         *)
(* The invariant is written over the values (cv, it, rs, n) of conv, item, *)
(* runs and nextRun, because processNext continues from the intermediate   *)
(* values its caller computed: each operation is shown to lead to Good     *)
(* intermediate values, and ProcessNextGood does the rest once.            *)
(*                                                                         *)
(* The last part is about ContextSnapshots: the files that what waits in   *)
(* these queues refers to.                                                 *)
(***************************************************************************)
EXTENDS ConversationQueue, ContextReferences, Sequences, FiniteSetTheorems, WellFoundedInduction,
        TLAPS

CONSTANTS Messages, Snapshots

Context == INSTANCE ContextSnapshots

Types(cv, it, rs, n) == /\ cv \in [Conversations -> ConvState]
                        /\ it \in [Items -> QueueItem]
                        /\ rs \subseteq Run
                        /\ n \in Nat \ {NoRun}

\* The lock and the stream of a conversation belong to its only live run.
LockIsTheRuns(cv, rs) ==
  /\ \A r, s \in rs : r.conv = s.conv => r = s
  /\ \A c \in Conversations :
       /\ cv[c].held <=> \E r \in rs : r.conv = c
       /\ \A r \in rs : r.conv = c => cv[c].stream = r.id
       /\ ~cv[c].held => cv[c].stream = NoRun

\* A processing item is the one of the live run, if there is one, and the
\* only one of its conversation.
ProcessingIsExclusive(it, rs) ==
  \A i \in Items : it[i].status = "processing" =>
    /\ \A r \in rs : r.conv = it[i].conv => r.item = i
    /\ \A j \in Items : it[j].status = "processing" /\ it[j].conv = it[i].conv => i = j

Good(cv, it, rs, n) == /\ Types(cv, it, rs, n)
                       /\ LockIsTheRuns(cv, rs)
                       /\ ProcessingIsExclusive(it, rs)

\* Every item that waits to be dispatched has a retry left to account for it.
AttemptsAsked(it, rt) ==
  \A i \in Items : /\ it[i].attempts <= 1 + rt[i]
                   /\ it[i].status \in {"unused", "queued"} => it[i].attempts <= rt[i]

\* A task reports to the conversation its item was sent in.
TasksKnown(it, tk) == \A i \in tk : it[i].conv \in Conversations

IInv == /\ TypeOK
        /\ Good(conv, item, runs, nextRun)
        /\ AttemptsAsked(item, retries)
        /\ TasksKnown(item, tasks)

-----------------------------------------------------------------------------
\* Writing a status leaves every other field of every item as it was.
LEMMA SetStatusType ==
  ASSUME NEW it \in [Items -> QueueItem], NEW i \in Items, NEW s \in Statuses
  PROVE  /\ [it EXCEPT ![i].status = s] \in [Items -> QueueItem]
         /\ [it EXCEPT ![i].status = s][i].status = s
         /\ \A j \in Items : /\ [it EXCEPT ![i].status = s][j].conv = it[j].conv
                             /\ [it EXCEPT ![i].status = s][j].attempts = it[j].attempts
                             /\ j # i => [it EXCEPT ![i].status = s][j] = it[j]
  BY DEF QueueItem

\* What dispatch may pick: a queued item of an unlocked, unpaused conversation
\* in which nothing is processing.
LEMMA DispatchableItem ==
  ASSUME NEW cv \in [Conversations -> ConvState], NEW it \in [Items -> QueueItem],
         NEW c \in Conversations, NEW i \in Dispatchable(c, cv, it)
  PROVE  /\ i \in Items
         /\ it[i].conv = c
         /\ it[i].status = "queued"
         /\ ~cv[c].held
         /\ ~cv[c].paused
         /\ \A j \in Items : it[j].conv = c => it[j].status # "processing"
  BY DEF Dispatchable, nextQueuedItem, hasProcessingItem, Members, Stored, Terminal

\* processNext leads from Good values to a Good state.
LEMMA ProcessNextGood ==
  ASSUME NEW c \in Conversations, NEW cv, NEW it, NEW rs,
         Good(cv, it, rs, nextRun), processNext(c, cv, it, rs)
  PROVE  Good(conv', item', runs', nextRun')
<1> USE DEF Good, Types
<1>1. CASE Dispatchable(c, cv, it) = {}
  <2>1. conv' = cv /\ item' = it /\ runs' = rs /\ nextRun' = nextRun
    BY <1>1 DEF processNext
  <2> QED BY <2>1
<1>2. ASSUME NEW i \in Dispatchable(c, cv, it)
      PROVE  /\ FailAndPause(c, cv, it, rs, i) => Good(conv', item', runs', nextRun')
             /\ PreflightFails(c, cv, it, rs, i) => Good(conv', item', runs', nextRun')
  <2>1. /\ i \in Items /\ it[i].conv = c /\ it[i].status = "queued"
    BY <1>2, DispatchableItem
  <2>2. ASSUME NEW it2 \in [Items -> QueueItem], FailAndPause(c, cv, it2, rs, i),
               \A j \in Items : it2[j].conv = it[j].conv /\ it2[j].status = it[j].status
        PROVE  Good(conv', item', runs', nextRun')
    <3>1. /\ item' = [it2 EXCEPT ![i].status = "failed"]
          /\ conv' = [cv EXCEPT ![c].paused = TRUE]
          /\ runs' = rs /\ nextRun' = nextRun
      BY <2>1, <2>2 DEF FailAndPause, updateQueueItem, setQueuePaused, Stored
    <3>2. Types(conv', item', runs', nextRun')
      <4>1. item' \in [Items -> QueueItem]
        BY <2>1, <2>2, <3>1, SetStatusType DEF Statuses, Stored, Terminal
      <4>2. conv' \in [Conversations -> ConvState]
        BY <3>1 DEF ConvState
      <4> QED BY <3>1, <4>1, <4>2
    <3>3. LockIsTheRuns(conv', runs')
      BY <3>1 DEF LockIsTheRuns, ConvState
    <3>4. ProcessingIsExclusive(item', runs')
      BY <2>1, <2>2, <3>1 DEF ProcessingIsExclusive, QueueItem
    <3> QED BY <3>2, <3>3, <3>4
  <2>3. [it EXCEPT ![i].attempts = @ + 1] \in [Items -> QueueItem]
    BY <2>1 DEF QueueItem
  <2>4. \A j \in Items : /\ [it EXCEPT ![i].attempts = @ + 1][j].conv = it[j].conv
                         /\ [it EXCEPT ![i].attempts = @ + 1][j].status = it[j].status
    BY <2>1 DEF QueueItem
  <2>5. FailAndPause(c, cv, it, rs, i) => Good(conv', item', runs', nextRun')
    BY <2>2
  <2>6. PreflightFails(c, cv, it, rs, i) => Good(conv', item', runs', nextRun')
    BY <2>2, <2>3, <2>4 DEF PreflightFails
  <2> QED BY <2>5, <2>6
<1>3. ASSUME NEW i \in Dispatchable(c, cv, it), LeaveToTask(c, cv, it, rs, i)
      PROVE  Good(conv', item', runs', nextRun')
  <2>1. /\ i \in Items /\ it[i].conv = c /\ it[i].status = "queued" /\ ~cv[c].held
        /\ \A j \in Items : it[j].conv = c => it[j].status # "processing"
    BY <1>3, DispatchableItem
  <2>2. /\ item' = [it EXCEPT ![i].status = "processing", ![i].attempts = @ + 1]
        /\ conv' = cv /\ runs' = rs /\ nextRun' = nextRun
    BY <1>3 DEF LeaveToTask
  <2>3. item' \in [Items -> QueueItem]
    BY <2>1, <2>2 DEF QueueItem, Statuses, Stored
  <2>4. /\ item'[i].status = "processing" /\ item'[i].conv = c
        /\ \A j \in Items \ {i} : item'[j] = it[j]
    BY <2>1, <2>2 DEF QueueItem
  <2>5. \A r \in rs : r.conv # c
    BY <2>1 DEF LockIsTheRuns
  <2>6. ProcessingIsExclusive(item', runs')
    BY <2>1, <2>2, <2>4, <2>5 DEF ProcessingIsExclusive
  <2> QED BY <2>2, <2>3, <2>6
<1>4. ASSUME NEW i \in Dispatchable(c, cv, it), StartRun(c, cv, it, rs, i)
      PROVE  Good(conv', item', runs', nextRun')
  <2> DEFINE new == [id |-> nextRun, conv |-> c, item |-> i,
                     state |-> "turn", aborted |-> FALSE]
  <2>1. /\ i \in Items /\ it[i].conv = c /\ it[i].status = "queued" /\ ~cv[c].held
        /\ \A j \in Items : it[j].conv = c => it[j].status # "processing"
    BY <1>4, DispatchableItem
  <2>2. /\ item' = [it EXCEPT ![i].status = "processing", ![i].attempts = @ + 1]
        /\ conv' = [cv EXCEPT ![c].held = TRUE, ![c].stream = nextRun]
        /\ runs' = rs \union {new}
        /\ nextRun' = nextRun + 1
    BY <1>4 DEF StartRun
  <2>3. item' \in [Items -> QueueItem]
    BY <2>1, <2>2 DEF QueueItem, Statuses, Stored
  <2>4. conv' \in [Conversations -> ConvState]
    BY <2>2 DEF ConvState
  <2>5. runs' \subseteq Run /\ nextRun' \in Nat \ {NoRun}
    <3>1. new \in Run
      BY <2>1 DEF Run
    <3>2. nextRun + 1 \in Nat \ {NoRun}
      BY DEF NoRun
    <3> QED BY <2>2, <3>1, <3>2
  <2>6. /\ item'[i].status = "processing" /\ item'[i].conv = c
        /\ \A j \in Items \ {i} : item'[j] = it[j]
    BY <2>1, <2>2 DEF QueueItem
  <2>7. \A r \in rs : r.conv # c
    BY <2>1 DEF LockIsTheRuns
  <2>8. ProcessingIsExclusive(item', runs')
    BY <2>1, <2>2, <2>6, <2>7 DEF ProcessingIsExclusive
  <2>9. /\ conv'[c].held /\ conv'[c].stream = nextRun
        /\ \A d \in Conversations \ {c} : conv'[d] = cv[d]
    BY <2>2 DEF ConvState
  <2>10. LockIsTheRuns(conv', runs')
    <3> new.conv = c /\ new.id = nextRun
      OBVIOUS
    <3> HIDE DEF new
    <3>1. \A r, s \in runs' : r.conv = s.conv => r = s
      BY <2>2, <2>7 DEF LockIsTheRuns
    <3>2. ASSUME NEW d \in Conversations
          PROVE  /\ conv'[d].held <=> \E r \in runs' : r.conv = d
                 /\ \A r \in runs' : r.conv = d => conv'[d].stream = r.id
                 /\ ~conv'[d].held => conv'[d].stream = NoRun
      <4>1. CASE d = c
        BY <2>2, <2>7, <2>9, <4>1
      <4>2. CASE d # c
        BY <2>2, <2>9, <4>2 DEF LockIsTheRuns
      <4> QED BY <4>1, <4>2
    <3> QED BY <3>1, <3>2 DEF LockIsTheRuns
  <2> QED BY <2>3, <2>4, <2>5, <2>8, <2>10
<1> QED BY <1>1, <1>2, <1>3, <1>4 DEF processNext, NotConfigured

-----------------------------------------------------------------------------
(* What the operations do to their intermediate values.                    *)

\* A status other than processing can be written over any stored item.
LEMMA UpdateGood ==
  ASSUME NEW cv, NEW it, NEW rs, NEW n, Good(cv, it, rs, n),
         NEW i \in Items, NEW s \in Statuses \ {"processing"}
  PROVE  /\ Good(cv, updateQueueItem(it, i, s), rs, n)
         /\ \A j \in Items : /\ updateQueueItem(it, i, s)[j].attempts = it[j].attempts
                             /\ updateQueueItem(it, i, s)[j].conv = it[j].conv
<1>1. it \in [Items -> QueueItem]
  BY DEF Good, Types
<1> DEFINE it2 == updateQueueItem(it, i, s)
<1>2. /\ it2 \in [Items -> QueueItem]
      /\ \A j \in Items : it2[j].conv = it[j].conv /\ it2[j].attempts = it[j].attempts
      /\ \A j \in Items : it2[j].status = "processing" => it[j].status = "processing"
  <2>1. CASE it[i].status \in Stored
    BY <1>1, <2>1, SetStatusType DEF updateQueueItem
  <2>2. CASE it[i].status \notin Stored
    BY <1>1, <2>2 DEF updateQueueItem
  <2> QED BY <2>1, <2>2
<1> HIDE DEF it2
<1>3. ProcessingIsExclusive(it2, rs)
  BY <1>2 DEF Good, ProcessingIsExclusive
<1>4. Good(cv, it2, rs, n)
  BY <1>2, <1>3 DEF Good, Types
<1> QED BY <1>2, <1>4 DEF it2

\* Items can leave the queue while a run or a task is still busy with them.
LEMMA RemoveGood ==
  ASSUME NEW cv, NEW it, NEW rs, NEW n, Good(cv, it, rs, n), NEW gone
  PROVE  /\ Good(cv, removeQueueItems(it, gone), rs, n)
         /\ \A j \in Items : /\ removeQueueItems(it, gone)[j].attempts = it[j].attempts
                             /\ removeQueueItems(it, gone)[j].conv = it[j].conv
                             /\ removeQueueItems(it, gone)[j].status \in {it[j].status, "gone"}
<1>1. it \in [Items -> QueueItem]
  BY DEF Good, Types
<1> DEFINE it2 == removeQueueItems(it, gone)
<1>2. /\ it2 \in [Items -> QueueItem]
      /\ \A j \in Items : it2[j].conv = it[j].conv /\ it2[j].attempts = it[j].attempts
      /\ \A j \in Items : it2[j].status \in {it[j].status, "gone"}
  BY <1>1 DEF removeQueueItems, QueueItem, Statuses
<1> HIDE DEF it2
<1>3. ProcessingIsExclusive(it2, rs)
  BY <1>2 DEF Good, ProcessingIsExclusive
<1>4. Good(cv, it2, rs, n)
  BY <1>2, <1>3 DEF Good, Types
<1> QED BY <1>2, <1>4 DEF it2

\* The stored flags of a conversation are independent of its lock.
LEMMA FlagsGood ==
  ASSUME NEW cv, NEW it, NEW rs, NEW n, Good(cv, it, rs, n),
         NEW cv2 \in [Conversations -> ConvState],
         \A d \in Conversations : cv2[d].held = cv[d].held /\ cv2[d].stream = cv[d].stream
  PROVE  Good(cv2, it, rs, n)
BY DEF Good, Types, LockIsTheRuns

\* Runs may change state as long as they keep their identity.
LEMMA RunsGood ==
  ASSUME NEW cv, NEW it, NEW rs, NEW n, Good(cv, it, rs, n), NEW rs2 \in SUBSET Run,
         \A r \in rs2 : \E s \in rs : r.id = s.id /\ r.conv = s.conv /\ r.item = s.item,
         \A s \in rs : \E r \in rs2 : r.conv = s.conv,
         \A r, s \in rs2 : r.conv = s.conv => r = s
  PROVE  Good(cv, it, rs2, n)
<1>1. LockIsTheRuns(cv, rs2)
  <2>1. ASSUME NEW d \in Conversations
        PROVE  cv[d].held <=> \E r \in rs2 : r.conv = d
    BY DEF Good, LockIsTheRuns
  <2>2. ASSUME NEW d \in Conversations
        PROVE  /\ \A r \in rs2 : r.conv = d => cv[d].stream = r.id
               /\ ~cv[d].held => cv[d].stream = NoRun
    BY DEF Good, LockIsTheRuns
  <2> QED BY <2>1, <2>2 DEF LockIsTheRuns
<1>2. ProcessingIsExclusive(it, rs2)
  BY DEF Good, ProcessingIsExclusive
<1> QED BY <1>1, <1>2 DEF Good, Types

\* A status that asks for no dispatch keeps the attempts accounted for.
LEMMA UpdateAttempts ==
  ASSUME NEW it \in [Items -> QueueItem], NEW rt, AttemptsAsked(it, rt),
         NEW i \in Items, NEW s \in Statuses \ {"unused", "queued"}
  PROVE  AttemptsAsked(updateQueueItem(it, i, s), rt)
<1>1. CASE it[i].status \in Stored
  BY <1>1, SetStatusType DEF updateQueueItem, AttemptsAsked
<1>2. CASE it[i].status \notin Stored
  BY <1>2 DEF updateQueueItem
<1> QED BY <1>1, <1>2

\* The end of a run frees its conversation.
LEMMA ReleaseGood ==
  ASSUME IInv, NEW r \in runs
  PROVE  Good(Release(r.conv), item, runs \ {r}, nextRun)
<1> DEFINE cv2 == Release(r.conv)
<1> USE DEF IInv, Good, Types
<1>1. r.conv \in Conversations
  BY DEF Run
<1>2. /\ cv2 \in [Conversations -> ConvState]
      /\ ~cv2[r.conv].held /\ cv2[r.conv].stream = NoRun
      /\ \A d \in Conversations \ {r.conv} : cv2[d] = conv[d]
  BY <1>1 DEF Release, ConvState, NoRun
<1> HIDE DEF cv2
<1>3. LockIsTheRuns(cv2, runs \ {r})
  <2>1. \A s, t \in runs \ {r} : s.conv = t.conv => s = t
    BY DEF LockIsTheRuns
  <2>2. \A s \in runs \ {r} : s.conv # r.conv
    BY DEF LockIsTheRuns
  <2>3. ASSUME NEW d \in Conversations
        PROVE  /\ cv2[d].held <=> \E s \in runs \ {r} : s.conv = d
               /\ \A s \in runs \ {r} : s.conv = d => cv2[d].stream = s.id
               /\ ~cv2[d].held => cv2[d].stream = NoRun
    <3>1. CASE d = r.conv
      BY <1>2, <2>2, <3>1
    <3>2. CASE d # r.conv
      BY <1>2, <3>2 DEF LockIsTheRuns
    <3> QED BY <3>1, <3>2
  <2> QED BY <2>1, <2>3 DEF LockIsTheRuns
<1>4. ProcessingIsExclusive(item, runs \ {r})
  BY DEF ProcessingIsExclusive
<1> QED BY <1>2, <1>3, <1>4 DEF cv2

\* processNext charges an attempt only to a queued item, and moves no item to
\* another conversation.
LEMMA ProcessNextAttempts ==
  ASSUME NEW c \in Conversations, NEW cv, NEW it, NEW rs, NEW rt \in [Items -> Nat],
         Good(cv, it, rs, nextRun), AttemptsAsked(it, rt), processNext(c, cv, it, rs)
  PROVE  AttemptsAsked(item', rt) /\ \A j \in Items : item'[j].conv = it[j].conv
<1>1. it \in [Items -> QueueItem] /\ cv \in [Conversations -> ConvState]
  BY DEF Good, Types
<1>2. CASE Dispatchable(c, cv, it) = {}
  BY <1>2 DEF processNext
<1>3. ASSUME NEW i \in Dispatchable(c, cv, it),
             \/ FailAndPause(c, cv, it, rs, i)
             \/ PreflightFails(c, cv, it, rs, i)
             \/ LeaveToTask(c, cv, it, rs, i)
             \/ StartRun(c, cv, it, rs, i)
      PROVE  AttemptsAsked(item', rt) /\ \A j \in Items : item'[j].conv = it[j].conv
  <2>1. i \in Items /\ it[i].status = "queued"
    BY <1>1, <1>3, DispatchableItem
  <2>2. /\ item'[i].status \in {"failed", "processing"}
        /\ item'[i].attempts \in {it[i].attempts, it[i].attempts + 1}
        /\ item'[i].conv = it[i].conv
        /\ \A j \in Items \ {i} : item'[j] = it[j]
    <3>1. CASE FailAndPause(c, cv, it, rs, i)
      BY <1>1, <2>1, <3>1 DEF FailAndPause, updateQueueItem, Stored, QueueItem
    <3>2. CASE PreflightFails(c, cv, it, rs, i)
      BY <1>1, <2>1, <3>2 DEF PreflightFails, FailAndPause, updateQueueItem, Stored, QueueItem
    <3>3. CASE LeaveToTask(c, cv, it, rs, i) \/ StartRun(c, cv, it, rs, i)
      BY <1>1, <2>1, <3>3 DEF LeaveToTask, StartRun, QueueItem
    <3> QED BY <1>3, <3>1, <3>2, <3>3
  <2>3. it[i].attempts \in Nat /\ rt[i] \in Nat
    BY <1>1, <2>1 DEF QueueItem
  <2> QED BY <2>1, <2>2, <2>3 DEF AttemptsAsked
<1> QED BY <1>2, <1>3 DEF processNext, NotConfigured

-----------------------------------------------------------------------------
(* The invariant is inductive.                                             *)

\* The part of TypeOK that Good does not state.
RestTypes == /\ tasks \subseteq Items
             /\ answers \in [Items -> Nat]
             /\ retries \in [Items -> 0..MaxRetries]

LEMMA IInvParts ==
  IInv <=> /\ RestTypes /\ Good(conv, item, runs, nextRun)
           /\ AttemptsAsked(item, retries) /\ TasksKnown(item, tasks)
BY DEF IInv, TypeOK, RestTypes, Good, Types

\* An operation that ends in processNext preserves the invariant when its
\* intermediate values are Good and keep the attempts accounted for.
LEMMA DispatchStep ==
  ASSUME NEW c \in Conversations, NEW cv, NEW it, NEW rs,
         Good(cv, it, rs, nextRun), AttemptsAsked(it, retries'),
         TasksKnown(it, tasks'), RestTypes',
         processNext(c, cv, it, rs)
  PROVE  IInv'
<1>1. Good(conv', item', runs', nextRun')
  BY ProcessNextGood
<1>2. retries' \in [Items -> Nat]
  BY QueueAssumption DEF RestTypes
<1>3. AttemptsAsked(item', retries') /\ TasksKnown(item', tasks')
  BY <1>2, ProcessNextAttempts DEF TasksKnown, RestTypes
<1> QED BY <1>1, <1>3 DEF IInv, TypeOK, RestTypes, Good, Types

LEMMA InitIInv == Init => IInv
<1> SUFFICES ASSUME Init PROVE IInv
  OBVIOUS
<1>1. RestTypes
  BY QueueAssumption DEF Init, RestTypes
<1>2. Types(conv, item, runs, nextRun)
  BY DEF Init, Types, ConvState, QueueItem, Statuses, NoRun
<1>3. Good(conv, item, runs, nextRun)
  BY <1>2 DEF Init, Good, LockIsTheRuns, ProcessingIsExclusive, NoRun
<1>4. AttemptsAsked(item, retries) /\ TasksKnown(item, tasks)
  BY DEF Init, AttemptsAsked, TasksKnown
<1> QED BY <1>1, <1>3, <1>4, IInvParts

\* What enqueue leaves for processNext.
LEMMA EnqueueGood ==
  ASSUME IInv, NEW c \in Conversations, NEW i \in Items, NEW owner \in {"agent", "task"},
         item[i].status = "unused"
  PROVE  LET used == {j \in Items : item[j].status # "unused"}
             new  == [conv |-> c, owner |-> owner, status |-> "queued",
                      attempts |-> 0, rank |-> Cardinality(used) + 1]
         IN  Good([conv EXCEPT ![c].exists = TRUE, ![c].paused = FALSE],
                  [item EXCEPT ![i] = new], runs, nextRun)
<1> DEFINE used == {j \in Items : item[j].status # "unused"}
           new  == [conv |-> c, owner |-> owner, status |-> "queued",
                    attempts |-> 0, rank |-> Cardinality(used) + 1]
           it   == [item EXCEPT ![i] = new]
           cv   == [conv EXCEPT ![c].exists = TRUE, ![c].paused = FALSE]
<1>1. Cardinality(used) \in Nat
  BY QueueAssumption, FS_Subset, FS_CardinalityType
<1>2. new \in QueueItem /\ new.status = "queued" /\ new.conv = c
  BY <1>1 DEF QueueItem, Statuses, Stored
<1> HIDE DEF new
<1>3. ProcessingIsExclusive(it, runs)
  BY <1>2 DEF IInv, Good, Types, ProcessingIsExclusive
<1>4. Good(conv, it, runs, nextRun)
  BY <1>2, <1>3 DEF IInv, Good, Types
<1>5. cv \in [Conversations -> ConvState]
      /\ \A d \in Conversations : cv[d].held = conv[d].held /\ cv[d].stream = conv[d].stream
  BY DEF IInv, TypeOK, ConvState
<1> HIDE DEF cv, it
<1>6. Good(cv, it, runs, nextRun)
  BY <1>4, <1>5, FlagsGood
<1> QED BY <1>6 DEF it, cv, new

LEMMA EnqueueStep ==
  ASSUME IInv, NEW c \in Conversations, NEW i \in Items, NEW owner \in {"agent", "task"},
         enqueue(c, i, owner)
  PROVE  IInv'
<1> DEFINE used == {j \in Items : item[j].status # "unused"}
           new  == [conv |-> c, owner |-> owner, status |-> "queued",
                    attempts |-> 0, rank |-> Cardinality(used) + 1]
           it   == [item EXCEPT ![i] = new]
           cv   == [conv EXCEPT ![c].exists = TRUE, ![c].paused = FALSE]
<1>1. processNext(c, cv, it, runs) /\ item[i].status = "unused"
  BY DEF enqueue
<1>2. Good(cv, it, runs, nextRun)
  BY <1>1, EnqueueGood
<1>3. \A j \in Items \ {i} : it[j] = item[j]
  BY DEF IInv, TypeOK
<1>4. it[i].attempts = 0 /\ it[i].conv = c
  BY DEF IInv, TypeOK
<1>5. RestTypes' /\ retries' = retries
  BY DEF enqueue, IInv, RestTypes, TypeOK
<1> HIDE DEF it, cv
<1>6. AttemptsAsked(it, retries')
  BY <1>3, <1>4, <1>5, QueueAssumption DEF IInv, AttemptsAsked, RestTypes
<1>7. TasksKnown(it, tasks')
  BY <1>3, <1>4 DEF enqueue, IInv, TasksKnown, TypeOK
<1> QED BY <1>1, <1>2, <1>5, <1>6, <1>7, DispatchStep

\* The flag a user operation writes.
LEMMA SetPausedGood ==
  ASSUME NEW cv, NEW it, NEW rs, NEW n, Good(cv, it, rs, n),
         NEW c \in Conversations, NEW flag \in BOOLEAN
  PROVE  Good(setQueuePaused(cv, c, flag), it, rs, n)
<1>1. cv \in [Conversations -> ConvState]
  BY DEF Good, Types
<1>2. /\ setQueuePaused(cv, c, flag) \in [Conversations -> ConvState]
      /\ \A d \in Conversations : /\ setQueuePaused(cv, c, flag)[d].held = cv[d].held
                                  /\ setQueuePaused(cv, c, flag)[d].stream = cv[d].stream
  BY <1>1 DEF setQueuePaused, ConvState
<1> QED BY <1>2, FlagsGood

LEMMA ResumeStep ==
  ASSUME IInv, NEW c \in Conversations, resume(c)
  PROVE  IInv'
<1>1. RestTypes' /\ AttemptsAsked(item, retries') /\ TasksKnown(item, tasks')
  BY DEF resume, IInv, TypeOK, RestTypes
<1>2. Good(setQueuePaused(conv, c, FALSE), item, runs, nextRun)
  BY SetPausedGood DEF IInv
<1> QED BY <1>1, <1>2, DispatchStep DEF resume

LEMMA RetryStep ==
  ASSUME IInv, NEW c \in Conversations, NEW i \in Items, retry(c, i)
  PROVE  IInv'
<1> DEFINE it == updateQueueItem(item, i, "queued")
<1>1. RestTypes' /\ retries' = [retries EXCEPT ![i] = @ + 1]
  BY QueueAssumption DEF retry, IInv, TypeOK, RestTypes
<1>2. /\ Good(conv, it, runs, nextRun)
      /\ \A j \in Items : it[j].attempts = item[j].attempts /\ it[j].conv = item[j].conv
  BY UpdateGood DEF IInv, Statuses, Stored
<1>3. item \in [Items -> QueueItem] /\ item[i].status \in Stored
  BY DEF IInv, TypeOK, retry, Members
<1>4. \A j \in Items \ {i} : it[j] = item[j]
  BY <1>3 DEF updateQueueItem
<1>5. processNext(c, setQueuePaused(conv, c, FALSE), it, runs)
  BY DEF retry
<1> HIDE DEF it
<1>6. AttemptsAsked(it, retries')
  <2>1. \A j \in Items : retries[j] \in Nat /\ item[j].attempts \in Nat
    BY <1>3, QueueAssumption DEF IInv, TypeOK, QueueItem
  <2> QED BY <1>1, <1>2, <1>4, <2>1 DEF IInv, AttemptsAsked, TypeOK
<1>7. TasksKnown(it, tasks')
  BY <1>2 DEF IInv, TypeOK, TasksKnown, retry
<1> QED BY <1>1, <1>2, <1>5, <1>6, <1>7, SetPausedGood, DispatchStep

LEMMA SkipStep ==
  ASSUME IInv, NEW c \in Conversations, NEW i \in Items, skip(c, i)
  PROVE  IInv'
<1> DEFINE it == updateQueueItem(item, i, "cancelled")
<1>1. RestTypes' /\ retries' = retries
  BY DEF skip, IInv, TypeOK, RestTypes
<1>2. /\ Good(conv, it, runs, nextRun)
      /\ \A j \in Items : it[j].attempts = item[j].attempts /\ it[j].conv = item[j].conv
  BY UpdateGood DEF IInv, Statuses, Stored, Terminal
<1>3. processNext(c, setQueuePaused(conv, c, FALSE), it, runs)
  BY DEF skip
<1>4. AttemptsAsked(it, retries')
  BY <1>1, <1>2, UpdateAttempts DEF IInv, TypeOK, Statuses, Stored, Terminal
<1>5. TasksKnown(it, tasks')
  BY <1>2 DEF IInv, TypeOK, TasksKnown, skip
<1> QED BY <1>1, <1>2, <1>3, <1>4, <1>5, SetPausedGood, DispatchStep

\* A step that leaves conv, runs and nextRun alone and only drops items.
LEMMA RemoveStep ==
  ASSUME IInv, NEW gone, Remove(gone)
  PROVE  IInv'
<1>1. RestTypes'
  BY DEF Remove, IInv, TypeOK, RestTypes
<1>2. /\ Good(conv', item', runs', nextRun')
      /\ \A j \in Items : /\ item'[j].attempts = item[j].attempts
                          /\ item'[j].conv = item[j].conv
                          /\ item'[j].status \in {item[j].status, "gone"}
  BY RemoveGood DEF IInv, Remove
<1>3. AttemptsAsked(item', retries') /\ TasksKnown(item', tasks')
  BY <1>2 DEF Remove, IInv, TypeOK, AttemptsAsked, TasksKnown
<1> QED BY <1>1, <1>2, <1>3 DEF IInv, TypeOK, RestTypes, Good, Types

\* What aborting the registered run of a conversation changes.
LEMMA AbortedGood ==
  ASSUME IInv, NEW c \in Conversations
  PROVE  Good(conv, item, Aborted(c), nextRun)
<1> DEFINE f(r) == IF r.id = conv[c].stream THEN [r EXCEPT !.aborted = TRUE] ELSE r
<1>1. \A r \in runs : f(r) \in Run /\ f(r).id = r.id /\ f(r).conv = r.conv /\ f(r).item = r.item
  BY DEF IInv, TypeOK, Run
<1>2. Aborted(c) = {f(r) : r \in runs}
  BY DEF Aborted
<1> HIDE DEF f
<1>3. \A r, s \in Aborted(c) : r.conv = s.conv => r = s
  BY <1>1, <1>2 DEF IInv, Good, LockIsTheRuns
<1>4. /\ Aborted(c) \in SUBSET Run
      /\ \A r \in Aborted(c) : \E s \in runs : r.id = s.id /\ r.conv = s.conv /\ r.item = s.item
      /\ \A s \in runs : \E r \in Aborted(c) : r.conv = s.conv
  BY <1>1, <1>2
<1>5. Good(conv, item, runs, nextRun)
  BY DEF IInv
<1> QED BY <1>3, <1>4, <1>5, RunsGood

\* A run that changes its state in place.
LEMMA RunStateGood ==
  ASSUME IInv, NEW r \in runs, NEW st \in {"turn", "waiting"}
  PROVE  Good(conv, item, (runs \ {r}) \union {[r EXCEPT !.state = st]}, nextRun)
<1> DEFINE r2 == [r EXCEPT !.state = st]
           rs == (runs \ {r}) \union {r2}
<1>1. r2 \in Run /\ r2.id = r.id /\ r2.conv = r.conv /\ r2.item = r.item
  BY DEF IInv, TypeOK, Run
<1>2. Good(conv, item, runs, nextRun)
  BY DEF IInv
<1> HIDE DEF r2
<1>3. /\ rs \in SUBSET Run
      /\ \A q \in rs : \E s \in runs : q.id = s.id /\ q.conv = s.conv /\ q.item = s.item
      /\ \A s \in runs : \E q \in rs : q.conv = s.conv
  BY <1>1 DEF IInv, TypeOK
<1>4. \A q, s \in rs : q.conv = s.conv => q = s
  BY <1>1, <1>2 DEF Good, LockIsTheRuns
<1> HIDE DEF rs
<1> QED BY <1>2, <1>3, <1>4, RunsGood DEF rs, r2

\* User operations that dispatch nothing.
LEMMA QuietUserStep ==
  ASSUME IInv, NEW c \in Conversations,
         \/ pause(c) \/ reorder(c) \/ cancelStream(c) \/ deleteConversation(c)
         \/ \E id \in 0..(nextRun - 1) : returnControl(c, id)
  PROVE  IInv'
<1>1. CASE pause(c)
  <2>1. Good(conv', item', runs', nextRun')
    BY <1>1, SetPausedGood DEF pause, IInv
  <2> QED BY <1>1, <2>1 DEF pause, IInv, TypeOK, Good, Types
<1>2. CASE reorder(c)
  <2>1. PICK i, j \in Members(c, item) :
          item' = [item EXCEPT ![i].rank = item[j].rank, ![j].rank = item[i].rank]
    BY <1>2 DEF reorder
  <2>2. i \in Items /\ j \in Items /\ item \in [Items -> QueueItem]
    BY <2>1 DEF Members, IInv, TypeOK
  <2>3. item' \in [Items -> QueueItem]
    BY <2>1, <2>2 DEF QueueItem
  <2>4. \A k \in Items : /\ item'[k].conv = item[k].conv
                         /\ item'[k].status = item[k].status
                         /\ item'[k].attempts = item[k].attempts
    BY <2>1, <2>2 DEF QueueItem
  <2>5. UNCHANGED <<conv, runs, nextRun, tasks, answers, retries>>
    BY <1>2 DEF reorder
  <2>6. ProcessingIsExclusive(item', runs')
    BY <2>4, <2>5 DEF IInv, Good, ProcessingIsExclusive
  <2>7. AttemptsAsked(item', retries') /\ TasksKnown(item', tasks')
    BY <2>4, <2>5 DEF IInv, TypeOK, AttemptsAsked, TasksKnown
  <2> QED BY <2>3, <2>5, <2>6, <2>7 DEF IInv, TypeOK, Good, Types
<1>3. CASE cancelStream(c)
  <2>1. Good(conv', item', runs', nextRun')
    BY <1>3, AbortedGood DEF cancelStream
  <2> QED BY <1>3, <2>1 DEF cancelStream, IInv, TypeOK, Good, Types
<1>4. CASE deleteConversation(c)
  <2> DEFINE mine == {i \in Items : item[i].conv = c}
  <2>1. /\ conv' \in [Conversations -> ConvState]
        /\ \A d \in Conversations : conv'[d].held = conv[d].held /\ conv'[d].stream = conv[d].stream
    BY <1>4 DEF deleteConversation, IInv, TypeOK, ConvState
  <2>2. Good(conv', item, runs', nextRun')
    BY <1>4, <2>1, AbortedGood, FlagsGood DEF deleteConversation
  <2>3. /\ Good(conv', item', runs', nextRun')
        /\ \A j \in Items : /\ item'[j].attempts = item[j].attempts
                            /\ item'[j].conv = item[j].conv
                            /\ item'[j].status \in {item[j].status, "gone"}
    BY <1>4, <2>2, RemoveGood DEF deleteConversation
  <2>4. AttemptsAsked(item', retries') /\ TasksKnown(item', tasks')
    BY <1>4, <2>3 DEF deleteConversation, IInv, TypeOK, AttemptsAsked, TasksKnown
  <2>5. RestTypes'
    BY <1>4 DEF deleteConversation, IInv, TypeOK, RestTypes
  <2> QED BY <2>3, <2>4, <2>5 DEF IInv, TypeOK, RestTypes, Good, Types
<1>5. CASE \E id \in 0..(nextRun - 1) : returnControl(c, id)
  <2>1. PICK r \in runs : /\ runs' = (runs \ {r}) \union {[r EXCEPT !.state = "turn"]}
                          /\ UNCHANGED <<conv, item, nextRun, tasks, answers, retries>>
    BY <1>5 DEF returnControl, Resolvable
  <2>2. Good(conv', item', runs', nextRun')
    BY <2>1, RunStateGood
  <2> QED BY <2>1, <2>2 DEF IInv, TypeOK, Good, Types
<1> QED BY <1>1, <1>2, <1>3, <1>4, <1>5

LEMMA WaitStep ==
  ASSUME IInv, NEW r \in runs, onWaitingForHuman(r)
  PROVE  IInv'
<1> DEFINE it == updateQueueItem(item, r.item, "paused")
<1>1. r.item \in Items /\ r.conv \in Conversations
  BY DEF IInv, TypeOK, Run
<1>2. Good(conv, item, runs', nextRun)
  BY RunStateGood DEF onWaitingForHuman
<1>3. /\ Good(conv, it, runs', nextRun)
      /\ \A j \in Items : it[j].conv = item[j].conv
  BY <1>1, <1>2, UpdateGood DEF Statuses, Stored
<1>4. Good(conv', item', runs', nextRun')
  BY <1>1, <1>3, SetPausedGood DEF onWaitingForHuman
<1>5. AttemptsAsked(item', retries')
  BY <1>1, UpdateAttempts DEF onWaitingForHuman, IInv, TypeOK, Statuses, Stored
<1>6. RestTypes' /\ TasksKnown(item', tasks')
  BY <1>3 DEF onWaitingForHuman, IInv, TypeOK, RestTypes, TasksKnown
<1> QED BY <1>4, <1>5, <1>6 DEF IInv, TypeOK, RestTypes, Good, Types

LEMMA RunCompletesStep ==
  ASSUME IInv, NEW r \in runs, RunCompletes(r)
  PROVE  IInv'
<1> DEFINE c    == r.conv
           done == updateQueueItem(item, r.item, "completed")
<1>1. r.item \in Items /\ c \in Conversations
  BY DEF IInv, TypeOK, Run
<1>2. PICK old \in SUBSET (Prunable(c, done) \ {r.item}) :
        processNext(c, Release(c), removeQueueItems(done, old), runs \ {r})
  BY DEF RunCompletes
<1> DEFINE it == removeQueueItems(done, old)
<1>3. /\ Good(Release(c), done, runs \ {r}, nextRun)
      /\ \A j \in Items : done[j].conv = item[j].conv
  <2>1. Good(Release(c), item, runs \ {r}, nextRun)
    BY ReleaseGood
  <2>2. "completed" \in Statuses \ {"processing"}
    BY DEF Statuses, Stored, Terminal
  <2> QED BY <1>1, <2>1, <2>2, UpdateGood
<1>4. AttemptsAsked(done, retries)
  BY <1>1, UpdateAttempts DEF IInv, TypeOK, Statuses, Stored, Terminal
<1> HIDE DEF done
<1>5. /\ Good(Release(c), it, runs \ {r}, nextRun)
      /\ \A j \in Items : /\ it[j].attempts = done[j].attempts
                          /\ it[j].conv = done[j].conv
                          /\ it[j].status \in {done[j].status, "gone"}
  BY <1>3, RemoveGood
<1>6. RestTypes' /\ retries' = retries /\ tasks' = tasks
  BY <1>1 DEF RunCompletes, IInv, TypeOK, RestTypes
<1> HIDE DEF it
<1>7. AttemptsAsked(it, retries')
  BY <1>4, <1>5, <1>6 DEF AttemptsAsked
<1>8. TasksKnown(it, tasks')
  BY <1>3, <1>5, <1>6 DEF IInv, TypeOK, TasksKnown
<1> QED BY <1>1, <1>2, <1>5, <1>6, <1>7, <1>8, DispatchStep DEF it

LEMMA EndAndPauseStep ==
  ASSUME IInv, NEW r \in runs, NEW s \in {"failed", "cancelled"}, EndAndPause(r, s)
  PROVE  IInv'
<1> DEFINE it == updateQueueItem(item, r.item, s)
<1>1. r.item \in Items /\ r.conv \in Conversations
  BY DEF IInv, TypeOK, Run
<1>2. /\ Good(Release(r.conv), it, runs \ {r}, nextRun)
      /\ \A j \in Items : it[j].conv = item[j].conv
  <2>1. Good(Release(r.conv), item, runs \ {r}, nextRun)
    BY ReleaseGood
  <2>2. s \in Statuses \ {"processing"}
    BY DEF Statuses, Stored, Terminal
  <2> QED BY <1>1, <2>1, <2>2, UpdateGood
<1>3. Good(conv', item', runs', nextRun')
  BY <1>1, <1>2, SetPausedGood DEF EndAndPause
<1>4. AttemptsAsked(item', retries')
  BY <1>1, UpdateAttempts DEF EndAndPause, IInv, TypeOK, Statuses, Stored, Terminal
<1>5. RestTypes' /\ TasksKnown(item', tasks')
  BY <1>2 DEF EndAndPause, IInv, TypeOK, RestTypes, TasksKnown
<1> QED BY <1>3, <1>4, <1>5 DEF IInv, TypeOK, RestTypes, Good, Types

LEMMA TaskStep ==
  ASSUME IInv, NEW i \in Items, completeQueueItemAsTask(i)
  PROVE  IInv'
<1> DEFINE c    == item[i].conv
           done == updateQueueItem(item, i, "completed")
<1>1. c \in Conversations
  BY DEF IInv, TasksKnown, completeQueueItemAsTask
<1>2. PICK old \in SUBSET (Prunable(c, done) \ {i}) :
        processNext(c, conv, removeQueueItems(done, old), runs)
  BY DEF completeQueueItemAsTask
<1> DEFINE it == removeQueueItems(done, old)
<1>3. /\ Good(conv, done, runs, nextRun)
      /\ \A j \in Items : done[j].conv = item[j].conv
  BY UpdateGood DEF IInv, Statuses, Stored, Terminal
<1>4. AttemptsAsked(done, retries)
  BY UpdateAttempts DEF IInv, TypeOK, Statuses, Stored, Terminal
<1> HIDE DEF done
<1>5. /\ Good(conv, it, runs, nextRun)
      /\ \A j \in Items : /\ it[j].attempts = done[j].attempts
                          /\ it[j].conv = done[j].conv
                          /\ it[j].status \in {done[j].status, "gone"}
  BY <1>3, RemoveGood
<1>6. RestTypes' /\ retries' = retries /\ tasks' \subseteq tasks
  BY DEF completeQueueItemAsTask, IInv, TypeOK, RestTypes
<1> HIDE DEF it, c
<1>7. AttemptsAsked(it, retries')
  BY <1>4, <1>5, <1>6 DEF AttemptsAsked
<1>8. TasksKnown(it, tasks')
  BY <1>3, <1>5, <1>6 DEF IInv, TypeOK, TasksKnown
<1> QED BY <1>1, <1>2, <1>5, <1>6, <1>7, <1>8, DispatchStep DEF it

LEMMA RestartStep ==
  ASSUME IInv, Restart
  PROVE  IInv'
<1> USE DEF IInv, TypeOK
<1>1. /\ runs' = {} /\ tasks' = {} /\ nextRun' = nextRun /\ retries' = retries
      /\ RestTypes'
  BY DEF Restart, RestTypes
<1>2. /\ conv' \in [Conversations -> ConvState]
      /\ \A c \in Conversations : ~conv'[c].held /\ conv'[c].stream = NoRun
  BY DEF Restart, ConvState, NoRun
<1>3. /\ item' \in [Items -> QueueItem]
      /\ \A i \in Items : /\ item'[i].status # "processing"
                          /\ item'[i].attempts = item[i].attempts
                          /\ item'[i].status \in {"unused", "queued"} =>
                               item'[i].status = item[i].status
  <2>1. item' = [i \in Items |-> IF item[i].status = "processing"
                   THEN [item[i] EXCEPT !.status = "paused"] ELSE item[i]]
    BY DEF Restart
  <2> QED BY <2>1 DEF QueueItem, Statuses, Stored
<1>4. LockIsTheRuns(conv', runs') /\ ProcessingIsExclusive(item', runs')
  BY <1>1, <1>2, <1>3 DEF LockIsTheRuns, ProcessingIsExclusive
<1>5. AttemptsAsked(item', retries') /\ TasksKnown(item', tasks')
  BY <1>1, <1>3 DEF AttemptsAsked, TasksKnown
<1> QED BY <1>1, <1>2, <1>3, <1>4, <1>5 DEF RestTypes, Good, Types

\* The inductive step.
LEMMA NextIInv == IInv /\ [Next]_vars => IInv'
<1> SUFFICES ASSUME IInv, [Next]_vars PROVE IInv'
  OBVIOUS
<1>1. CASE UNCHANGED vars
  BY <1>1 DEF vars, IInv, TypeOK, Good, Types
<1>2. ASSUME NEW c \in Conversations, UserStep(c) PROVE IInv'
  <2>1. ASSUME NEW i \in Items, removeItem(c, i) PROVE IInv'
    BY <2>1, RemoveStep DEF removeItem
  <2>2. CASE clearQueue(c)
    BY <2>2, RemoveStep DEF clearQueue
  <2> QED BY <1>2, <2>1, <2>2, EnqueueStep, ResumeStep, RetryStep, SkipStep,
             QuietUserStep DEF UserStep
<1>3. ASSUME NEW r \in runs, onWaitingForHuman(r) \/ RunEnds(r) PROVE IInv'
  BY <1>3, WaitStep, RunCompletesStep, EndAndPauseStep
     DEF RunEnds, RunFails, RunCancelled
<1> QED BY <1>1, <1>2, <1>3, TaskStep, RestartStep DEF Next

-----------------------------------------------------------------------------
(* Theorems                                                                *)

\* The invariant holds in every reachable state.
THEOREM Invariant == Spec => []IInv
BY InitIInv, NextIInv, PTL DEF Spec

\* Every variable keeps its type.
THEOREM TypeCorrect == Spec => []TypeOK
<1>1. IInv => TypeOK
  BY DEF IInv
<1> QED BY <1>1, Invariant, PTL

\* Agent runs and task-owned items of a conversation exclude each other, for
\* any number of conversations, requests and retries.
THEOREM OneExecution == Spec => []OneExecutionPerConversation
<1>1. IInv => OneExecutionPerConversation
  <2> SUFFICES ASSUME IInv PROVE OneExecutionPerConversation
    OBVIOUS
  <2>1. ASSUME NEW c \in Conversations, NEW i \in InExecution(c), NEW j \in InExecution(c)
        PROVE  i = j
    BY DEF InExecution, Members, IInv, Good, LockIsTheRuns, ProcessingIsExclusive
  <2>2. \A r, s \in runs : r.conv = s.conv => r = s
    BY DEF IInv, Good, LockIsTheRuns
  <2> QED BY <2>1, <2>2 DEF OneExecutionPerConversation
<1> QED BY <1>1, Invariant, PTL

\* Stop always finds the live run, and only a live run holds the lock.
THEOREM RegistryCorrect == Spec => []RegistryMatchesRuns
<1>1. IInv => RegistryMatchesRuns
  BY DEF IInv, Good, LockIsTheRuns, RegistryMatchesRuns
<1> QED BY <1>1, Invariant, PTL

\* No request is executed again unless the user retries it.
THEOREM NoRerun == Spec => []NoUnaskedRerun
<1>1. IInv => NoUnaskedRerun
  BY DEF IInv, AttemptsAsked, NoUnaskedRerun
<1> QED BY <1>1, Invariant, PTL

\* For any number of conversations, requests and retries: a conversation executes one
\* request, by a run or by the task that owns it, and Stop and Return Control find it.
THEOREM Exclusive == Spec => []ExecutionIsExclusive
BY OneExecution, RegistryCorrect, PTL DEF ExecutionIsExclusive

-----------------------------------------------------------------------------
(* Answers.  An attempt pays for one answer, and so does the task an item  *)
(* was created with: what may still be answered is what a live run or a    *)
(* task owes.                                                              *)

OfTask(it, i)  == IF it[i].owner = "task" THEN 1 ELSE 0
RunOwes(rs, i) == IF \E r \in rs : r.item = i THEN 1 ELSE 0
TaskOwes(tk, i) == IF i \in tk THEN 1 ELSE 0

\* A run works for an item of its own conversation.
RunsKnowItems(it, rs) == \A r \in rs : it[r.item].conv = r.conv

UnusedIsNew(it) ==
  \A i \in Items : it[i].status = "unused" => it[i].attempts = 0 /\ it[i].owner = "agent"

AnswersPaid(it, rs, tk, an) ==
  \A i \in Items : an[i] + RunOwes(rs, i) + TaskOwes(tk, i) <= it[i].attempts + OfTask(it, i)

Accounts(it, rs, tk, an) == /\ RunsKnowItems(it, rs)
                            /\ UnusedIsNew(it)
                            /\ AnswersPaid(it, rs, tk, an)

AnswersAccounted == Accounts(item, runs, tasks, answers)

\* The attempt that opens a run pays for the answer the run owes.
LEMMA ProcessNextAccounts ==
  ASSUME NEW c \in Conversations, NEW cv, NEW it, NEW rs, NEW tk, NEW an \in [Items -> Nat],
         Good(cv, it, rs, nextRun), Accounts(it, rs, tk, an), processNext(c, cv, it, rs)
  PROVE  Accounts(item', runs', tk, an)
<1>1. it \in [Items -> QueueItem] /\ cv \in [Conversations -> ConvState] /\ rs \subseteq Run
  BY DEF Good, Types
<1>2. CASE Dispatchable(c, cv, it) = {}
  BY <1>2 DEF processNext
<1>3. ASSUME NEW i \in Dispatchable(c, cv, it),
             \/ FailAndPause(c, cv, it, rs, i)
             \/ PreflightFails(c, cv, it, rs, i)
             \/ LeaveToTask(c, cv, it, rs, i)
             \/ StartRun(c, cv, it, rs, i)
      PROVE  Accounts(item', runs', tk, an)
  <2>1. i \in Items /\ it[i].conv = c /\ it[i].status = "queued"
    BY <1>1, <1>3, DispatchableItem
  <2>2. /\ item'[i].status \in {"failed", "processing"}
        /\ item'[i].conv = it[i].conv /\ item'[i].owner = it[i].owner
        /\ \A j \in Items \ {i} : item'[j] = it[j]
        /\ \/ item'[i].attempts = it[i].attempts /\ runs' = rs
           \/ item'[i].attempts = it[i].attempts + 1 /\ runs' = rs
           \/ /\ item'[i].attempts = it[i].attempts + 1
              /\ runs' = rs \union {[id |-> nextRun, conv |-> c, item |-> i,
                                     state |-> "turn", aborted |-> FALSE]}
    <3>1. CASE FailAndPause(c, cv, it, rs, i)
      BY <1>1, <2>1, <3>1 DEF FailAndPause, updateQueueItem, Stored, QueueItem
    <3>2. CASE PreflightFails(c, cv, it, rs, i)
      BY <1>1, <2>1, <3>2 DEF PreflightFails, FailAndPause, updateQueueItem, Stored, QueueItem
    <3>3. CASE LeaveToTask(c, cv, it, rs, i)
      BY <1>1, <2>1, <3>3 DEF LeaveToTask, QueueItem
    <3>4. CASE StartRun(c, cv, it, rs, i)
      BY <1>1, <2>1, <3>4 DEF StartRun, QueueItem
    <3> QED BY <1>3, <3>1, <3>2, <3>3, <3>4
  <2>3. RunsKnowItems(item', runs')
    BY <1>1, <2>1, <2>2 DEF Accounts, RunsKnowItems, Run
  <2>4. UnusedIsNew(item')
    BY <2>2 DEF Accounts, UnusedIsNew
  <2>5. ASSUME NEW j \in Items
        PROVE  an[j] + RunOwes(runs', j) + TaskOwes(tk, j) <= item'[j].attempts + OfTask(item', j)
    <3>1. an[j] + RunOwes(rs, j) + TaskOwes(tk, j) <= it[j].attempts + OfTask(it, j)
      BY DEF Accounts, AnswersPaid
    <3>2. /\ an[j] \in Nat /\ it[j].attempts \in Nat
          /\ OfTask(it, j) \in Nat /\ TaskOwes(tk, j) \in Nat
          /\ RunOwes(rs, j) \in {0, 1} /\ RunOwes(runs', j) \in {0, 1}
      BY <1>1 DEF QueueItem, OfTask, TaskOwes, RunOwes
    <3>3. CASE j = i
      <4>1. OfTask(item', j) = OfTask(it, j)
        BY <2>2, <3>3 DEF OfTask
      <4>2. runs' = rs => RunOwes(runs', j) = RunOwes(rs, j)
        BY DEF RunOwes
      <4> QED BY <2>2, <3>1, <3>2, <3>3, <4>1, <4>2
    <3>4. CASE j # i
      <4>1. OfTask(item', j) = OfTask(it, j) /\ item'[j].attempts = it[j].attempts
        BY <2>2, <3>4 DEF OfTask
      <4>2. RunOwes(runs', j) = RunOwes(rs, j)
        BY <2>2, <3>4 DEF RunOwes
      <4> QED BY <3>1, <4>1, <4>2
    <3> QED BY <3>3, <3>4
  <2> QED BY <2>3, <2>4, <2>5 DEF Accounts, AnswersPaid
<1> QED BY <1>2, <1>3 DEF processNext, NotConfigured

LEMMA LeastNatural ==
  ASSUME NEW S \in SUBSET Nat, S # {}
  PROVE  \E n \in S : \A m \in S : n <= m
<1>1. PICK n \in S : \A m \in S : <<m, n>> \notin OpToRel(<, Nat)
  BY NatLessThanWellFounded, WFMin
<1>2. \A m \in S : ~ (m < n)
  BY <1>1 DEF OpToRel
<1> QED BY <1>2

\* What an operation may rewrite of an item without touching its account.
LEMMA SameItemsAccounts ==
  ASSUME NEW it, NEW it2, NEW rs \in SUBSET Run, NEW tk, NEW an, Accounts(it, rs, tk, an),
         \A j \in Items : /\ it2[j].conv = it[j].conv
                          /\ it2[j].owner = it[j].owner
                          /\ it2[j].attempts = it[j].attempts
                          /\ it2[j].status = "unused" => it[j].status = "unused"
  PROVE  Accounts(it2, rs, tk, an)
<1>1. RunsKnowItems(it2, rs)
  BY DEF Accounts, RunsKnowItems, Run
<1>2. \A j \in Items : OfTask(it2, j) = OfTask(it, j)
  BY DEF OfTask
<1> QED BY <1>1, <1>2 DEF Accounts, UnusedIsNew, AnswersPaid

\* The status a queue operation writes.
LEMMA StatusAccounts ==
  ASSUME NEW it \in [Items -> QueueItem], NEW rs \in SUBSET Run, NEW tk, NEW an,
         Accounts(it, rs, tk, an), NEW i \in Items, NEW s \in Stored
  PROVE  Accounts(updateQueueItem(it, i, s), rs, tk, an)
<1>1. \A j \in Items : /\ updateQueueItem(it, i, s)[j].conv = it[j].conv
                       /\ updateQueueItem(it, i, s)[j].owner = it[j].owner
                       /\ updateQueueItem(it, i, s)[j].attempts = it[j].attempts
                       /\ updateQueueItem(it, i, s)[j].status = "unused" => it[j].status = "unused"
  BY DEF updateQueueItem, QueueItem, Stored, Terminal
<1> QED BY <1>1, SameItemsAccounts

\* An item that is removed keeps its account, for the run or task that is busy with it.
LEMMA RemoveAccounts ==
  ASSUME NEW it \in [Items -> QueueItem], NEW rs \in SUBSET Run, NEW tk, NEW an,
         Accounts(it, rs, tk, an), NEW gone
  PROVE  Accounts(removeQueueItems(it, gone), rs, tk, an)
<1>1. \A j \in Items : /\ removeQueueItems(it, gone)[j].conv = it[j].conv
                       /\ removeQueueItems(it, gone)[j].owner = it[j].owner
                       /\ removeQueueItems(it, gone)[j].attempts = it[j].attempts
                       /\ removeQueueItems(it, gone)[j].status = "unused" => it[j].status = "unused"
  BY DEF removeQueueItems, QueueItem
<1> QED BY <1>1, SameItemsAccounts

\* Runs that end owe nothing any more; what else happens to a run is its own.
LEMMA RunsAccounts ==
  ASSUME NEW it, NEW rs, NEW rs2, NEW tk, NEW an \in [Items -> Nat],
         it \in [Items -> QueueItem], Accounts(it, rs, tk, an),
         \A r \in rs2 : \E s \in rs : r.conv = s.conv /\ r.item = s.item
  PROVE  Accounts(it, rs2, tk, an)
<1>1. RunsKnowItems(it, rs2)
  BY DEF Accounts, RunsKnowItems
<1>2. ASSUME NEW j \in Items
      PROVE  an[j] + RunOwes(rs2, j) + TaskOwes(tk, j) <= it[j].attempts + OfTask(it, j)
  <2>1. RunOwes(rs2, j) \in {0, 1} /\ RunOwes(rs, j) \in {0, 1}
        /\ RunOwes(rs2, j) <= RunOwes(rs, j)
    BY DEF RunOwes
  <2>2. an[j] \in Nat /\ it[j].attempts \in Nat /\ OfTask(it, j) \in Nat /\ TaskOwes(tk, j) \in Nat
    BY DEF OfTask, TaskOwes, QueueItem
  <2> QED BY <2>1, <2>2 DEF Accounts, AnswersPaid
<1> QED BY <1>1, <1>2 DEF Accounts, AnswersPaid

LEMMA EnqueueAccounts ==
  ASSUME IInv, Accounts(item, runs, tasks, answers),
         NEW c \in Conversations, NEW i \in Items, NEW owner \in {"agent", "task"},
         enqueue(c, i, owner)
  PROVE  Accounts(item', runs', tasks', answers')
<1> DEFINE used == {j \in Items : item[j].status # "unused"}
           new  == [conv |-> c, owner |-> owner, status |-> "queued",
                    attempts |-> 0, rank |-> Cardinality(used) + 1]
           it   == [item EXCEPT ![i] = new]
           cv   == [conv EXCEPT ![c].exists = TRUE, ![c].paused = FALSE]
<1>1. /\ processNext(c, cv, it, runs) /\ item[i].status = "unused"
      /\ tasks' = IF owner = "task" THEN tasks \union {i} ELSE tasks
      /\ answers' = answers
  BY DEF enqueue
<1>2. Good(cv, it, runs, nextRun)
  BY <1>1, EnqueueGood
<1>3. /\ \A j \in Items \ {i} : it[j] = item[j]
      /\ it[i].attempts = 0 /\ it[i].owner = owner /\ it[i].status = "queued"
  BY DEF IInv, TypeOK
<1>4. /\ answers \in [Items -> Nat] /\ item \in [Items -> QueueItem] /\ runs \subseteq Run
  BY DEF IInv, TypeOK
<1> HIDE DEF it, cv
<1>5. answers[i] = 0 /\ (\A r \in runs : r.item # i) /\ i \notin tasks
  <2>1. answers[i] + RunOwes(runs, i) + TaskOwes(tasks, i) <= 0
    BY <1>1, <1>4 DEF Accounts, AnswersPaid, UnusedIsNew, OfTask
  <2>2. RunOwes(runs, i) \in {0, 1} /\ TaskOwes(tasks, i) \in {0, 1} /\ answers[i] \in Nat
    BY <1>4 DEF RunOwes, TaskOwes
  <2>3. answers[i] = 0 /\ RunOwes(runs, i) = 0 /\ TaskOwes(tasks, i) = 0
    BY <2>1, <2>2
  <2> QED BY <2>3 DEF RunOwes, TaskOwes
<1>6. RunsKnowItems(it, runs)
  BY <1>3, <1>4, <1>5 DEF Accounts, RunsKnowItems, Run
<1>7. UnusedIsNew(it)
  BY <1>3 DEF Accounts, UnusedIsNew
<1>8. ASSUME NEW j \in Items
      PROVE  answers[j] + RunOwes(runs, j) + TaskOwes(tasks', j) <= it[j].attempts + OfTask(it, j)
  <2>1. CASE j = i
    <3>1. RunOwes(runs, j) = 0
      BY <1>5, <2>1 DEF RunOwes
    <3>2. TaskOwes(tasks', j) = OfTask(it, j) /\ OfTask(it, j) \in Nat
      BY <1>1, <1>3, <1>5, <2>1 DEF TaskOwes, OfTask
    <3> QED BY <1>3, <1>5, <2>1, <3>1, <3>2
  <2>2. CASE j # i
    <3>1. OfTask(it, j) = OfTask(item, j) /\ TaskOwes(tasks', j) = TaskOwes(tasks, j)
      BY <1>1, <1>3, <2>2 DEF OfTask, TaskOwes
    <3> QED BY <1>3, <2>2, <3>1 DEF Accounts, AnswersPaid
  <2> QED BY <2>1, <2>2
<1>9. Accounts(it, runs, tasks', answers')
  BY <1>1, <1>6, <1>7, <1>8 DEF Accounts, AnswersPaid
<1> QED BY <1>1, <1>2, <1>4, <1>9, ProcessNextAccounts

LEMMA RunCompletesAccounts ==
  ASSUME IInv, Accounts(item, runs, tasks, answers), NEW r \in runs, RunCompletes(r)
  PROVE  Accounts(item', runs', tasks', answers')
<1> DEFINE c    == r.conv
           done == updateQueueItem(item, r.item, "completed")
<1>1. r.item \in Items /\ c \in Conversations /\ item \in [Items -> QueueItem]
      /\ runs \subseteq Run /\ answers \in [Items -> Nat]
  BY DEF IInv, TypeOK, Run
<1>2. PICK old \in SUBSET (Prunable(c, done) \ {r.item}) :
        processNext(c, Release(c), removeQueueItems(done, old), runs \ {r})
  BY DEF RunCompletes
<1>3. answers' = [answers EXCEPT ![r.item] = @ + 1] /\ tasks' = tasks
      /\ answers' \in [Items -> Nat]
  BY <1>1 DEF RunCompletes
<1>4. \A s \in runs \ {r} : s.item # r.item
  BY DEF Accounts, RunsKnowItems, IInv, Good, LockIsTheRuns
<1>5. Accounts(item, runs \ {r}, tasks, answers')
  <2>1. ASSUME NEW j \in Items
        PROVE  answers'[j] + RunOwes(runs \ {r}, j) + TaskOwes(tasks, j)
                 <= item[j].attempts + OfTask(item, j)
    <3>1. answers[j] + RunOwes(runs, j) + TaskOwes(tasks, j) <= item[j].attempts + OfTask(item, j)
      BY DEF Accounts, AnswersPaid
    <3>2. CASE j = r.item
      <4>1. RunOwes(runs, j) = 1 /\ RunOwes(runs \ {r}, j) = 0
        BY <1>4, <3>2 DEF RunOwes
      <4>2. answers'[j] = answers[j] + 1 /\ answers[j] \in Nat
        BY <1>1, <1>3, <3>2
      <4> QED BY <3>1, <4>1, <4>2
    <3>3. CASE j # r.item
      <4>1. RunOwes(runs \ {r}, j) = RunOwes(runs, j)
        BY <3>3 DEF RunOwes
      <4> QED BY <1>1, <1>3, <3>1, <3>3, <4>1
    <3> QED BY <3>2, <3>3
  <2> QED BY <2>1 DEF Accounts, AnswersPaid, RunsKnowItems
<1>6. /\ Good(Release(c), done, runs \ {r}, nextRun)
      /\ Accounts(done, runs \ {r}, tasks, answers')
  <2>1. "completed" \in Statuses \ {"processing"} /\ "completed" \in Stored
    BY DEF Statuses, Stored, Terminal
  <2>2. Good(Release(c), item, runs \ {r}, nextRun)
    BY ReleaseGood
  <2> QED BY <1>1, <1>5, <2>1, <2>2, UpdateGood, StatusAccounts
<1> HIDE DEF done, c
<1>7. /\ Good(Release(c), removeQueueItems(done, old), runs \ {r}, nextRun)
      /\ Accounts(removeQueueItems(done, old), runs \ {r}, tasks, answers')
  <2>1. done \in [Items -> QueueItem]
    BY <1>6 DEF Good, Types
  <2> QED BY <1>1, <1>6, <2>1, RemoveGood, RemoveAccounts
<1> QED BY <1>1, <1>2, <1>3, <1>7, ProcessNextAccounts

LEMMA TaskAccounts ==
  ASSUME IInv, Accounts(item, runs, tasks, answers), NEW i \in Items, completeQueueItemAsTask(i)
  PROVE  Accounts(item', runs', tasks', answers')
<1> DEFINE c    == item[i].conv
           done == updateQueueItem(item, i, "completed")
<1>1. c \in Conversations /\ item \in [Items -> QueueItem]
      /\ runs \subseteq Run /\ answers \in [Items -> Nat]
  BY DEF IInv, TypeOK, TasksKnown, completeQueueItemAsTask
<1>2. PICK old \in SUBSET (Prunable(c, done) \ {i}) :
        processNext(c, conv, removeQueueItems(done, old), runs)
  BY DEF completeQueueItemAsTask
<1>3. /\ i \in tasks /\ tasks' = tasks \ {i}
      /\ answers' = [answers EXCEPT ![i] = @ + 1]
      /\ answers' \in [Items -> Nat]
  BY <1>1 DEF completeQueueItemAsTask
<1>4. Accounts(item, runs, tasks', answers')
  <2>1. ASSUME NEW j \in Items
        PROVE  answers'[j] + RunOwes(runs, j) + TaskOwes(tasks', j)
                 <= item[j].attempts + OfTask(item, j)
    <3>1. answers[j] + RunOwes(runs, j) + TaskOwes(tasks, j) <= item[j].attempts + OfTask(item, j)
      BY DEF Accounts, AnswersPaid
    <3>2. CASE j = i
      <4>1. TaskOwes(tasks, j) = 1 /\ TaskOwes(tasks', j) = 0 /\ RunOwes(runs, j) \in {0, 1}
        BY <1>3, <3>2 DEF TaskOwes, RunOwes
      <4>2. answers'[j] = answers[j] + 1 /\ answers[j] \in Nat
        BY <1>1, <1>3, <3>2
      <4> QED BY <3>1, <4>1, <4>2
    <3>3. CASE j # i
      <4>1. TaskOwes(tasks', j) = TaskOwes(tasks, j)
        BY <1>3, <3>3 DEF TaskOwes
      <4> QED BY <1>1, <1>3, <3>1, <3>3, <4>1
    <3> QED BY <3>2, <3>3
  <2> QED BY <2>1 DEF Accounts, AnswersPaid
<1>5. /\ Good(conv, done, runs, nextRun)
      /\ Accounts(done, runs, tasks', answers')
  <2>1. "completed" \in Statuses \ {"processing"} /\ "completed" \in Stored
    BY DEF Statuses, Stored, Terminal
  <2>2. Good(conv, item, runs, nextRun)
    BY DEF IInv
  <2> QED BY <1>1, <1>4, <2>1, <2>2, UpdateGood, StatusAccounts
<1> HIDE DEF done, c
<1>6. /\ Good(conv, removeQueueItems(done, old), runs, nextRun)
      /\ Accounts(removeQueueItems(done, old), runs, tasks', answers')
  <2>1. done \in [Items -> QueueItem]
    BY <1>5 DEF Good, Types
  <2> QED BY <1>1, <1>5, <2>1, RemoveGood, RemoveAccounts
<1> QED BY <1>1, <1>2, <1>3, <1>6, ProcessNextAccounts

\* The operations of the user that leave runs, tasks and answers alone.
LEMMA UserAccounts ==
  ASSUME IInv, Accounts(item, runs, tasks, answers), NEW c \in Conversations,
         \/ resume(c) \/ \E i \in Items : retry(c, i) \/ skip(c, i)
         \/ pause(c) \/ reorder(c) \/ \E gone : Remove(gone)
  PROVE  Accounts(item', runs', tasks', answers')
<1>1. item \in [Items -> QueueItem] /\ runs \subseteq Run /\ answers \in [Items -> Nat]
  BY DEF IInv, TypeOK
<1>2. CASE resume(c)
  <2>1. Good(setQueuePaused(conv, c, FALSE), item, runs, nextRun)
    BY SetPausedGood DEF IInv
  <2> QED BY <1>1, <1>2, <2>1, ProcessNextAccounts DEF resume
<1>3. ASSUME NEW i \in Items, NEW s \in {"queued", "cancelled"},
             processNext(c, setQueuePaused(conv, c, FALSE), updateQueueItem(item, i, s), runs)
      PROVE  Accounts(item', runs', tasks, answers)
  <2>1. s \in Stored /\ s \in Statuses \ {"processing"}
    BY DEF Stored, Statuses, Terminal
  <2>2. Good(setQueuePaused(conv, c, FALSE), updateQueueItem(item, i, s), runs, nextRun)
    BY <2>1, SetPausedGood, UpdateGood DEF IInv
  <2>3. Accounts(updateQueueItem(item, i, s), runs, tasks, answers)
    BY <1>1, <2>1, StatusAccounts
  <2> QED BY <1>1, <1>3, <2>2, <2>3, ProcessNextAccounts
<1>4. CASE \E i \in Items : retry(c, i) \/ skip(c, i)
  BY <1>3, <1>4 DEF retry, skip
<1>5. CASE pause(c)
  BY <1>5 DEF pause
<1>6. CASE reorder(c)
  <2>1. PICK i, j \in Members(c, item) :
          item' = [item EXCEPT ![i].rank = item[j].rank, ![j].rank = item[i].rank]
    BY <1>6 DEF reorder
  <2>2. i \in Items /\ j \in Items
    BY DEF Members
  <2>3. \A k \in Items : /\ item'[k].conv = item[k].conv
                         /\ item'[k].owner = item[k].owner
                         /\ item'[k].attempts = item[k].attempts
                         /\ item'[k].status = item[k].status
    BY <1>1, <2>1, <2>2 DEF QueueItem
  <2>4. Accounts(item', runs, tasks, answers)
    BY <1>1, <2>3, SameItemsAccounts
  <2> QED BY <1>6, <2>4 DEF reorder
<1>7. CASE \E gone : Remove(gone)
  BY <1>1, <1>7, RemoveAccounts DEF Remove
<1> QED BY <1>2, <1>4, <1>5, <1>6, <1>7

\* Accounts are kept by every step.
LEMMA NextAccounts ==
  IInv /\ Accounts(item, runs, tasks, answers) /\ [Next]_vars
    => Accounts(item', runs', tasks', answers')
<1> SUFFICES ASSUME IInv, Accounts(item, runs, tasks, answers), [Next]_vars
             PROVE  Accounts(item', runs', tasks', answers')
  OBVIOUS
<1>1. item \in [Items -> QueueItem] /\ runs \in SUBSET Run /\ answers \in [Items -> Nat]
  BY DEF IInv, TypeOK
<1>2. CASE UNCHANGED vars
  BY <1>2 DEF vars
<1>3. ASSUME NEW c \in Conversations, UserStep(c)
      PROVE  Accounts(item', runs', tasks', answers')
  <2>1. \A r \in Aborted(c) : \E s \in runs : r.conv = s.conv /\ r.item = s.item
    BY <1>1 DEF Aborted, Run
  <2>2. CASE cancelStream(c)
    BY <1>1, <2>1, <2>2, RunsAccounts DEF cancelStream
  <2>3. CASE deleteConversation(c)
    <3> DEFINE mine == {i \in Items : item[i].conv = c}
    <3>1. /\ item' = removeQueueItems(item, mine) /\ runs' = Aborted(c) /\ tasks' = tasks
          /\ answers' = [i \in Items |-> IF i \in mine THEN 0 ELSE answers[i]]
      BY <2>3 DEF deleteConversation
    <3>2. runs' \in SUBSET Run
      BY AbortedGood, <3>1 DEF Good, Types
    <3>3. Accounts(item, runs', tasks, answers)
      BY <1>1, <2>1, <3>1, RunsAccounts
    <3>4. Accounts(item', runs', tasks, answers)
      BY <1>1, <3>1, <3>2, <3>3, RemoveAccounts
    <3>5. \A i \in Items : answers'[i] \in Nat /\ answers'[i] <= answers[i]
      BY <1>1, <3>1
    <3>6. ASSUME NEW i \in Items
          PROVE  answers'[i] + RunOwes(runs', i) + TaskOwes(tasks, i)
                   <= item'[i].attempts + OfTask(item', i)
      <4>1. RunOwes(runs', i) \in Nat /\ TaskOwes(tasks, i) \in Nat /\ OfTask(item', i) \in Nat
        BY DEF RunOwes, TaskOwes, OfTask
      <4>2. item'[i].attempts \in Nat
        BY <1>1, <3>1 DEF removeQueueItems, QueueItem
      <4> QED BY <1>1, <3>4, <3>5, <4>1, <4>2 DEF Accounts, AnswersPaid
    <3> QED BY <3>1, <3>4, <3>6 DEF Accounts, AnswersPaid
  <2>4. CASE \E id \in 0..(nextRun - 1) : returnControl(c, id)
    <3>1. PICK r \in runs : /\ runs' = (runs \ {r}) \union {[r EXCEPT !.state = "turn"]}
                            /\ UNCHANGED <<conv, item, nextRun, tasks, answers, retries>>
      BY <2>4 DEF returnControl, Resolvable
    <3>2. \A q \in runs' : \E s \in runs : q.conv = s.conv /\ q.item = s.item
      BY <1>1, <3>1 DEF Run
    <3>3. Accounts(item, runs', tasks, answers)
      BY <1>1, <3>2, RunsAccounts
    <3> QED BY <3>1, <3>3
  <2>5. ASSUME NEW i \in Items, removeItem(c, i) PROVE \E gone : Remove(gone)
    BY <2>5 DEF removeItem
  <2>6. clearQueue(c) => \E gone : Remove(gone)
    BY DEF clearQueue
  <2> QED BY <1>3, <2>2, <2>3, <2>4, <2>5, <2>6, EnqueueAccounts, UserAccounts DEF UserStep
<1>4. ASSUME NEW r \in runs, onWaitingForHuman(r)
      PROVE  Accounts(item', runs', tasks', answers')
  <2>1. runs' = (runs \ {r}) \union {[r EXCEPT !.state = "waiting"]}
        /\ item' = updateQueueItem(item, r.item, "paused")
        /\ tasks' = tasks /\ answers' = answers
    BY <1>4 DEF onWaitingForHuman
  <2>2. \A q \in runs' : \E s \in runs : q.conv = s.conv /\ q.item = s.item
    BY <1>1, <2>1 DEF Run
  <2>3. Accounts(item, runs', tasks, answers)
    BY <1>1, <2>2, RunsAccounts
  <2>4. runs' \in SUBSET Run /\ r.item \in Items /\ "paused" \in Stored
    BY <1>1, <2>1 DEF Run, Stored
  <2> QED BY <1>1, <2>1, <2>3, <2>4, StatusAccounts
<1>5. ASSUME NEW r \in runs, NEW s \in {"failed", "cancelled"}, EndAndPause(r, s)
      PROVE  Accounts(item', runs \ {r}, tasks, answers)
  <2>1. Accounts(item, runs \ {r}, tasks, answers)
    BY <1>1, RunsAccounts
  <2>2. s \in Stored /\ r.item \in Items
    BY <1>1 DEF Stored, Terminal, Run
  <2> QED BY <1>1, <1>5, <2>1, <2>2, StatusAccounts DEF EndAndPause
<1>6. ASSUME NEW r \in runs, RunEnds(r)
      PROVE  Accounts(item', runs', tasks', answers')
  <2>1. CASE RunCompletes(r)
    BY <2>1, RunCompletesAccounts
  <2>2. ASSUME NEW s \in {"failed", "cancelled"}, EndAndPause(r, s)
        PROVE  Accounts(item', runs', tasks', answers')
    BY <1>5, <2>2 DEF EndAndPause
  <2> QED BY <1>6, <2>1, <2>2 DEF RunEnds, RunFails, RunCancelled
<1>7. CASE Restart
  <2>1. runs' = {} /\ tasks' = {} /\ answers' = answers
        /\ item' = [i \in Items |-> IF item[i].status = "processing"
                                      THEN [item[i] EXCEPT !.status = "paused"] ELSE item[i]]
    BY <1>7 DEF Restart
  <2>2. Accounts(item, {}, tasks, answers)
    BY <1>1, RunsAccounts
  <2>3. \A j \in Items : /\ item'[j].conv = item[j].conv
                         /\ item'[j].owner = item[j].owner
                         /\ item'[j].attempts = item[j].attempts
                         /\ item'[j].status = "unused" => item[j].status = "unused"
    BY <1>1, <2>1 DEF QueueItem
  <2>4. Accounts(item', {}, tasks, answers)
    BY <2>2, <2>3, SameItemsAccounts
  <2>5. ASSUME NEW j \in Items
        PROVE  answers[j] + RunOwes({}, j) + TaskOwes({}, j) <= item'[j].attempts + OfTask(item', j)
    <3>1. TaskOwes({}, j) = 0 /\ TaskOwes(tasks, j) \in Nat /\ RunOwes({}, j) = 0
          /\ OfTask(item', j) \in Nat /\ answers[j] \in Nat
      BY <1>1 DEF TaskOwes, RunOwes, OfTask
    <3>2. item'[j].attempts \in Nat
      BY <1>1, <2>3 DEF QueueItem
    <3> QED BY <2>4, <3>1, <3>2 DEF Accounts, AnswersPaid
  <2> QED BY <2>1, <2>4, <2>5 DEF Accounts, AnswersPaid
<1> QED BY <1>2, <1>3, <1>4, <1>6, <1>7, TaskAccounts DEF Next

\* What may still be answered is paid for in every reachable state.
THEOREM AnswersKept == Spec => []AnswersAccounted
<1>1. Init => AnswersAccounted
  BY DEF Init, AnswersAccounted, Accounts, RunsKnowItems, UnusedIsNew, AnswersPaid,
         RunOwes, TaskOwes, OfTask
<1>2. IInv /\ AnswersAccounted /\ [Next]_vars => AnswersAccounted'
  BY NextAccounts DEF AnswersAccounted
<1> QED BY <1>1, <1>2, Invariant, PTL DEF Spec

\* For any number of conversations, requests and retries no request is answered twice:
\* an answer takes an attempt of its own or, once, the task the request was left to.
THEOREM OneAnswer == Spec => []OneAnswerPerAttempt
<1>1. IInv /\ AnswersAccounted => OneAnswerPerAttempt
  <2> SUFFICES ASSUME IInv, AnswersAccounted, NEW i \in Items
               PROVE  answers[i] <= item[i].attempts + IF item[i].owner = "task" THEN 1 ELSE 0
    BY DEF OneAnswerPerAttempt
  <2>1. answers[i] \in Nat /\ item[i].attempts \in Nat
    BY DEF IInv, TypeOK, QueueItem
  <2>2. RunOwes(runs, i) \in Nat /\ TaskOwes(tasks, i) \in Nat /\ OfTask(item, i) \in Nat
    BY DEF RunOwes, TaskOwes, OfTask
  <2>3. answers[i] + RunOwes(runs, i) + TaskOwes(tasks, i) <= item[i].attempts + OfTask(item, i)
    BY DEF AnswersAccounted, Accounts, AnswersPaid
  <2>4. answers[i] <= item[i].attempts + OfTask(item, i)
    BY <2>1, <2>2, <2>3
  <2> QED BY <2>4 DEF OfTask
<1> QED BY <1>1, AnswersKept, Invariant, PTL

-----------------------------------------------------------------------------
(* Pauses.  Only processNext charges attempts, and it looks at the flag.   *)

\* An attempt is charged to an item of the conversation that is dispatched,
\* and only while that conversation is not paused.
LEMMA ProcessNextCharges ==
  ASSUME NEW c \in Conversations, NEW cv, NEW it, NEW rs,
         Good(cv, it, rs, nextRun), processNext(c, cv, it, rs),
         NEW i \in Items, item'[i].attempts > it[i].attempts
  PROVE  it[i].conv = c /\ item'[i].conv = c /\ ~cv[c].paused
<1>1. it \in [Items -> QueueItem] /\ cv \in [Conversations -> ConvState]
  BY DEF Good, Types
<1>2. it[i].attempts \in Nat /\ item' # it
  BY <1>1 DEF QueueItem
<1>3. PICK d \in Dispatchable(c, cv, it) : \/ FailAndPause(c, cv, it, rs, d)
                                           \/ PreflightFails(c, cv, it, rs, d)
                                           \/ LeaveToTask(c, cv, it, rs, d)
                                           \/ StartRun(c, cv, it, rs, d)
  BY <1>2 DEF processNext, NotConfigured
<1>4. d \in Items /\ it[d].conv = c /\ it[d].status = "queued" /\ ~cv[c].paused
  BY <1>1, DispatchableItem
<1>5. item'[d].conv = c /\ \A j \in Items \ {d} : item'[j] = it[j]
  <2>1. CASE FailAndPause(c, cv, it, rs, d)
    BY <1>1, <1>4, <2>1 DEF FailAndPause, updateQueueItem, Stored, QueueItem
  <2>2. CASE PreflightFails(c, cv, it, rs, d)
    BY <1>1, <1>4, <2>2 DEF PreflightFails, FailAndPause, updateQueueItem, Stored, QueueItem
  <2>3. CASE LeaveToTask(c, cv, it, rs, d) \/ StartRun(c, cv, it, rs, d)
    BY <1>1, <1>4, <2>3 DEF LeaveToTask, StartRun, QueueItem
  <2> QED BY <1>3, <2>1, <2>2, <2>3
<1>6. i = d
  BY <1>2, <1>5
<1> QED BY <1>4, <1>5, <1>6

\* The attempts of the items are those the calling operation left.
LEMMA UpdateKeepsAttempts ==
  ASSUME NEW it \in [Items -> QueueItem], NEW i \in Items, NEW s \in Stored,
         NEW gone, NEW j \in Items
  PROVE  /\ removeQueueItems(updateQueueItem(it, i, s), gone)[j].attempts = it[j].attempts
         /\ updateQueueItem(it, i, s)[j].attempts = it[j].attempts
         /\ removeQueueItems(it, gone)[j].attempts = it[j].attempts
         /\ it[j].attempts \in Nat
BY DEF updateQueueItem, removeQueueItems, QueueItem, Stored, Terminal, Statuses

\* What the user did when an attempt is charged in a paused conversation.
UserStarts(c) == \/ \E owner \in {"agent", "task"}, j \in Items : enqueue(c, j, owner)
                 \/ resume(c)
                 \/ \E j \in Items : retry(c, j) \/ skip(c, j)

LEMMA ChargedByUser ==
  ASSUME IInv, [Next]_vars, NEW i \in Items,
         item'[i].attempts > item[i].attempts, conv[item'[i].conv].paused
  PROVE  UserStarts(item'[i].conv)
<1>1. item \in [Items -> QueueItem] /\ item[i].attempts \in Nat
  BY DEF IInv, TypeOK, QueueItem
<1>2. \A j \in Items, s \in Stored : \A gone :
        /\ removeQueueItems(updateQueueItem(item, j, s), gone)[i].attempts = item[i].attempts
        /\ updateQueueItem(item, j, s)[i].attempts = item[i].attempts
  BY <1>1, UpdateKeepsAttempts
<1>3. item' # item /\ ~(\E gone : Remove(gone))
  <2>1. \A gone : removeQueueItems(item, gone)[i].attempts = item[i].attempts
    BY <1>1 DEF removeQueueItems, QueueItem
  <2> QED BY <1>1, <2>1 DEF Remove
<1>4. ASSUME NEW c \in Conversations, UserStep(c)
      PROVE  UserStarts(item'[i].conv)
  <2>1. ASSUME NEW j \in Items, NEW owner \in {"agent", "task"}, enqueue(c, j, owner)
        PROVE  item'[i].conv = c
    <3> DEFINE used == {k \in Items : item[k].status # "unused"}
               new  == [conv |-> c, owner |-> owner, status |-> "queued",
                        attempts |-> 0, rank |-> Cardinality(used) + 1]
               it   == [item EXCEPT ![j] = new]
               cv   == [conv EXCEPT ![c].exists = TRUE, ![c].paused = FALSE]
    <3>1. processNext(c, cv, it, runs) /\ item[j].status = "unused"
      BY <2>1 DEF enqueue
    <3>2. Good(cv, it, runs, nextRun)
      BY <3>1, EnqueueGood
    <3>3. it[i].attempts \in {0, item[i].attempts}
      BY <1>1
    <3>4. item'[i].attempts > it[i].attempts
      <4>1. item'[i].attempts \in Nat
        BY <3>1, <3>2, ProcessNextGood DEF Good, Types, QueueItem
      <4> QED BY <1>1, <3>3, <4>1
    <3> HIDE DEF it, cv
    <3> QED BY <3>1, <3>2, <3>4, ProcessNextCharges
  <2>2. CASE resume(c)
    <3>1. Good(setQueuePaused(conv, c, FALSE), item, runs, nextRun)
      BY SetPausedGood DEF IInv
    <3>2. item'[i].conv = c
      BY <2>2, <3>1, ProcessNextCharges DEF resume
    <3> QED BY <2>2, <3>2 DEF UserStarts
  <2>3. ASSUME NEW j \in Items, retry(c, j) \/ skip(c, j)
        PROVE  item'[i].conv = c
    <3>1. PICK s \in {"queued", "cancelled"} :
            processNext(c, setQueuePaused(conv, c, FALSE), updateQueueItem(item, j, s), runs)
      BY <2>3 DEF retry, skip
    <3> DEFINE cv == setQueuePaused(conv, c, FALSE)
               it == updateQueueItem(item, j, s)
    <3>2. s \in Stored /\ s \in Statuses \ {"processing"}
      BY DEF Stored, Statuses, Terminal
    <3>3. Good(cv, it, runs, nextRun)
      BY <3>2, SetPausedGood, UpdateGood DEF IInv
    <3>4. item'[i].attempts > it[i].attempts
      BY <1>2, <3>2
    <3>5. processNext(c, cv, it, runs)
      BY <3>1
    <3> HIDE DEF cv, it
    <3> QED BY <3>5, <3>1, <3>3, <3>4, ProcessNextCharges
  <2>4. ~ reorder(c)
    <3> SUFFICES ASSUME reorder(c) PROVE FALSE
      OBVIOUS
    <3>1. PICK j, k \in Members(c, item) :
            item' = [item EXCEPT ![j].rank = item[k].rank, ![k].rank = item[j].rank]
      BY DEF reorder
    <3>2. j \in Items /\ k \in Items
      BY DEF Members
    <3>3. item'[i].attempts = item[i].attempts
      BY <1>1, <3>1, <3>2 DEF QueueItem
    <3> QED BY <1>1, <3>3
  <2>5. ~ deleteConversation(c)
    BY <1>1 DEF deleteConversation, removeQueueItems, QueueItem
  <2> QED BY <1>3, <1>4, <2>1, <2>2, <2>3, <2>4, <2>5
          DEF UserStep, UserStarts, pause, removeItem, clearQueue, cancelStream, returnControl
<1>5. ASSUME NEW r \in runs
      PROVE  ~ onWaitingForHuman(r) /\ ~ RunFails(r) /\ ~ RunCancelled(r)
  <2>1. \A s \in Stored : item' # updateQueueItem(item, r.item, s)
    BY <1>1, <1>2 DEF IInv, TypeOK, Run
  <2> QED BY <2>1 DEF onWaitingForHuman, RunFails, RunCancelled, EndAndPause, Stored, Terminal
<1>6. ASSUME NEW r \in runs, RunCompletes(r)
      PROVE  FALSE
  <2> DEFINE c    == r.conv
             done == updateQueueItem(item, r.item, "completed")
  <2>1. r.item \in Items /\ c \in Conversations
    BY DEF IInv, TypeOK, Run
  <2>2. PICK old \in SUBSET (Prunable(c, done) \ {r.item}) :
          processNext(c, Release(c), removeQueueItems(done, old), runs \ {r})
    BY <1>6 DEF RunCompletes
  <2>3. "completed" \in Statuses \ {"processing"} /\ "completed" \in Stored
    BY DEF Statuses, Stored, Terminal
  <2>4. Good(Release(c), removeQueueItems(done, old), runs \ {r}, nextRun)
    BY <2>1, <2>3, ReleaseGood, UpdateGood, RemoveGood
  <2>5. item'[i].attempts > removeQueueItems(done, old)[i].attempts
    BY <1>2, <2>1, <2>3
  <2>6. item'[i].conv = c /\ ~ Release(c)[c].paused
    BY <2>1, <2>2, <2>4, <2>5, ProcessNextCharges
  <2>7. Release(c)[c].paused = conv[c].paused
    BY <2>1 DEF Release, IInv, TypeOK, ConvState
  <2> QED BY <2>6, <2>7
<1>7. ASSUME NEW k \in Items, completeQueueItemAsTask(k)
      PROVE  FALSE
  <2> DEFINE c    == item[k].conv
             done == updateQueueItem(item, k, "completed")
  <2>1. c \in Conversations
    BY <1>7 DEF IInv, TasksKnown, completeQueueItemAsTask
  <2>2. PICK old \in SUBSET (Prunable(c, done) \ {k}) :
          processNext(c, conv, removeQueueItems(done, old), runs)
    BY <1>7 DEF completeQueueItemAsTask
  <2>3. "completed" \in Statuses \ {"processing"} /\ "completed" \in Stored
    BY DEF Statuses, Stored, Terminal
  <2>4. Good(conv, removeQueueItems(done, old), runs, nextRun)
    BY <2>3, UpdateGood, RemoveGood DEF IInv
  <2>5. item'[i].attempts > removeQueueItems(done, old)[i].attempts
    BY <1>2, <2>3
  <2>6. item'[i].conv = c /\ ~ conv[c].paused
    BY <2>1, <2>2, <2>4, <2>5, ProcessNextCharges
  <2> QED BY <2>6
<1>8. ~ Restart
  <2> SUFFICES ASSUME Restart PROVE FALSE
    OBVIOUS
  <2>1. item' = [j \in Items |-> IF item[j].status = "processing"
                                   THEN [item[j] EXCEPT !.status = "paused"] ELSE item[j]]
    BY DEF Restart
  <2> QED BY <1>1, <2>1 DEF QueueItem
<1> QED BY <1>3, <1>4, <1>5, <1>6, <1>7, <1>8 DEF Next, RunEnds, vars

\* While the queue of a conversation is paused only its user starts a request in it, for
\* any number of conversations and requests.
THEOREM PauseIsKept == Spec => PauseHolds
<1>1. IInv /\ [Next]_vars =>
        \A i \in Items : item'[i].attempts > item[i].attempts =>
          LET c == item'[i].conv
          IN  conv[c].paused => \/ \E owner \in {"agent", "task"}, j \in Items : enqueue(c, j, owner)
                                \/ resume(c)
                                \/ \E j \in Items : retry(c, j) \/ skip(c, j)
  BY ChargedByUser DEF UserStarts
<1> QED BY <1>1, Invariant, PTL DEF Spec, PauseHolds

-----------------------------------------------------------------------------
(* Wake-ups.  A queue that could go on is told by a queued item of it.     *)

\* Stalled, over values.
Waits(c, cv, it) == /\ ~cv[c].paused /\ ~cv[c].held
                    /\ ~hasProcessingItem(c, it)
                    /\ \E i \in Members(c, it) : it[i].status = "queued"

LEMMA StalledWaits ==
  ASSUME NEW cv, NEW it \in [Items -> QueueItem], NEW c \in Conversations
  PROVE  Waits(c, cv, it) <=> /\ ~cv[c].paused /\ ~cv[c].held
                              /\ ~hasProcessingItem(c, it)
                              /\ nextQueuedItem(c, cv, it) # {}
<1> DEFINE queued == {i \in Members(c, it) : it[i].status = "queued"}
           ranks  == {it[i].rank : i \in queued}
<1>1. ASSUME queued # {}, ~cv[c].paused
      PROVE  nextQueuedItem(c, cv, it) # {}
  <2>1. ranks \in SUBSET Nat /\ ranks # {}
    BY <1>1 DEF Members, QueueItem
  <2>2. PICK n \in ranks : \A m \in ranks : n <= m
    BY <2>1, LeastNatural
  <2>3. PICK i \in queued : it[i].rank = n
    BY <2>2
  <2>4. i \in nextQueuedItem(c, cv, it)
    BY <1>1, <2>2, <2>3 DEF nextQueuedItem
  <2> QED BY <2>4
<1>2. nextQueuedItem(c, cv, it) \subseteq queued
  BY DEF nextQueuedItem
<1> QED BY <1>1, <1>2 DEF Waits

\* processNext leaves no queue waiting that it was called for, and the others as they were.
LEMMA ProcessNextWakes ==
  ASSUME NEW c \in Conversations, NEW cv, NEW it, NEW rs,
         Good(cv, it, rs, nextRun), processNext(c, cv, it, rs)
  PROVE  /\ ~ Waits(c, conv', item')
         /\ \A d \in Conversations \ {c} : Waits(d, conv', item') => Waits(d, cv, it)
<1>1. it \in [Items -> QueueItem] /\ cv \in [Conversations -> ConvState]
  BY DEF Good, Types
<1>2. CASE Dispatchable(c, cv, it) = {}
  <2>1. conv' = cv /\ item' = it
    BY <1>2 DEF processNext
  <2>2. ~ Waits(c, cv, it)
    BY <1>1, <1>2, StalledWaits DEF Dispatchable, Waits
  <2> QED BY <2>1, <2>2
<1>3. ASSUME NEW i \in Dispatchable(c, cv, it),
             \/ FailAndPause(c, cv, it, rs, i)
             \/ PreflightFails(c, cv, it, rs, i)
             \/ LeaveToTask(c, cv, it, rs, i)
             \/ StartRun(c, cv, it, rs, i)
      PROVE  /\ ~ Waits(c, conv', item')
             /\ \A d \in Conversations \ {c} : Waits(d, conv', item') => Waits(d, cv, it)
  <2>1. i \in Items /\ it[i].conv = c /\ it[i].status = "queued"
    BY <1>1, <1>3, DispatchableItem
  <2>2. /\ item'[i].conv = c
        /\ \A j \in Items \ {i} : item'[j] = it[j]
        /\ \A d \in Conversations \ {c} : conv'[d] = cv[d]
        /\ \/ conv'[c].paused
           \/ item'[i].status = "processing"
    <3>1. CASE FailAndPause(c, cv, it, rs, i)
      BY <1>1, <2>1, <3>1 DEF FailAndPause, updateQueueItem, setQueuePaused, Stored,
                              QueueItem, ConvState
    <3>2. CASE PreflightFails(c, cv, it, rs, i)
      BY <1>1, <2>1, <3>2 DEF PreflightFails, FailAndPause, updateQueueItem, setQueuePaused,
                              Stored, QueueItem, ConvState
    <3>3. CASE LeaveToTask(c, cv, it, rs, i)
      BY <1>1, <2>1, <3>3 DEF LeaveToTask, QueueItem
    <3>4. CASE StartRun(c, cv, it, rs, i)
      BY <1>1, <2>1, <3>4 DEF StartRun, QueueItem
    <3> QED BY <1>3, <3>1, <3>2, <3>3, <3>4
  <2>3. ~ Waits(c, conv', item')
    BY <2>1, <2>2 DEF Waits, hasProcessingItem, Members, Stored
  <2>4. ASSUME NEW d \in Conversations \ {c}
        PROVE  Waits(d, conv', item') => Waits(d, cv, it)
    <3>1. Members(d, item') = Members(d, it) /\ \A j \in Members(d, it) : item'[j] = it[j]
      BY <2>1, <2>2 DEF Members
    <3> QED BY <2>2, <3>1 DEF Waits, hasProcessingItem
  <2> QED BY <2>3, <2>4
<1> QED BY <1>2, <1>3 DEF processNext, NotConfigured

\* An operation on a conversation leaves the queues of the others as they were.
Touches(c, cv, it) ==
  /\ \A d \in Conversations \ {c} : cv[d] = conv[d]
  /\ \A j \in Items : it[j] # item[j] => /\ it[j].conv = c
                                         /\ item[j].conv = c \/ item[j].status \notin Stored

LEMMA TouchesOneQueue ==
  ASSUME NEW c, NEW cv, NEW it, Touches(c, cv, it), NEW d \in Conversations \ {c}
  PROVE  Waits(d, cv, it) <=> Waits(d, conv, item)
<1>1. Members(d, it) = Members(d, item) /\ \A j \in Members(d, item) : it[j] = item[j]
  BY DEF Touches, Members
<1> QED BY <1>1 DEF Waits, hasProcessingItem, Touches

\* A queue waits after a step only if it did before: the step dispatched, paused the
\* queue, or took from it.
LEMMA DispatchWakes ==
  ASSUME NEW c \in Conversations, NEW cv, NEW it, NEW rs,
         Good(cv, it, rs, nextRun), processNext(c, cv, it, rs), Touches(c, cv, it),
         NEW d \in Conversations, Waits(d, conv', item')
  PROVE  Waits(d, conv, item)
BY ProcessNextWakes, TouchesOneQueue

LEMMA PauseWakes ==
  ASSUME NEW c \in Conversations, Touches(c, conv', item'), conv'[c].paused,
         NEW d \in Conversations, Waits(d, conv', item')
  PROVE  Waits(d, conv, item)
<1>1. d # c
  BY DEF Waits
<1>2. Waits(d, conv', item') <=> Waits(d, conv, item)
  BY <1>1, TouchesOneQueue
<1> QED BY <1>2

LEMMA RemovalWakes ==
  ASSUME item \in [Items -> QueueItem], conv' = conv,
         \A j \in Items : /\ item'[j].conv = item[j].conv
                          /\ item'[j].status \in {item[j].status, "gone"}
                          /\ item[j].status = "processing" => item'[j].status = "processing",
         NEW d \in Conversations, Waits(d, conv', item')
  PROVE  Waits(d, conv, item)
BY DEF Waits, hasProcessingItem, Members, Stored, Terminal

\* Writing the status of an item touches the queue of its conversation only, and so does
\* pruning that queue.
LEMMA UpdateTouches ==
  ASSUME item \in [Items -> QueueItem], NEW i \in Items, NEW s \in Stored,
         NEW cv, \A d \in Conversations \ {item[i].conv} : cv[d] = conv[d]
  PROVE  Touches(item[i].conv, cv, updateQueueItem(item, i, s))
BY DEF Touches, updateQueueItem, QueueItem

LEMMA PruneTouches ==
  ASSUME item \in [Items -> QueueItem], NEW i \in Items, NEW s \in Stored,
         NEW cv, \A d \in Conversations \ {item[i].conv} : cv[d] = conv[d],
         NEW gone, \A j \in gone : j \in Items /\ item[j].conv = item[i].conv
  PROVE  Touches(item[i].conv, cv, removeQueueItems(updateQueueItem(item, i, s), gone))
BY DEF Touches, updateQueueItem, removeQueueItems, QueueItem

LEMMA UserWakes ==
  ASSUME IInv, NEW c \in Conversations, UserStep(c),
         NEW d \in Conversations, Waits(d, conv', item')
  PROVE  Waits(d, conv, item)
<1>1. item \in [Items -> QueueItem] /\ conv \in [Conversations -> ConvState]
  BY DEF IInv, TypeOK
<1>2. ASSUME NEW i \in Items, NEW owner \in {"agent", "task"}, enqueue(c, i, owner)
      PROVE  Waits(d, conv, item)
  <2> DEFINE used == {k \in Items : item[k].status # "unused"}
             new  == [conv |-> c, owner |-> owner, status |-> "queued",
                      attempts |-> 0, rank |-> Cardinality(used) + 1]
             it   == [item EXCEPT ![i] = new]
             cv   == [conv EXCEPT ![c].exists = TRUE, ![c].paused = FALSE]
  <2>1. processNext(c, cv, it, runs) /\ item[i].status = "unused"
    BY <1>2 DEF enqueue
  <2>2. Good(cv, it, runs, nextRun)
    BY <2>1, EnqueueGood
  <2>3. Touches(c, cv, it)
    BY <1>1, <2>1 DEF Touches, Stored, Terminal
  <2> HIDE DEF cv, it
  <2> QED BY <2>1, <2>2, <2>3, DispatchWakes
<1>3. \A flag \in BOOLEAN, e \in Conversations \ {c} : setQueuePaused(conv, c, flag)[e] = conv[e]
  BY <1>1 DEF setQueuePaused
<1>4. CASE resume(c)
  <2>1. Good(setQueuePaused(conv, c, FALSE), item, runs, nextRun)
    BY SetPausedGood DEF IInv
  <2>2. Touches(c, setQueuePaused(conv, c, FALSE), item)
    BY <1>3 DEF Touches
  <2> QED BY <1>4, <2>1, <2>2, DispatchWakes DEF resume
<1>5. ASSUME NEW i \in Items, retry(c, i) \/ skip(c, i)
      PROVE  Waits(d, conv, item)
  <2>1. PICK s \in {"queued", "cancelled"} :
          processNext(c, setQueuePaused(conv, c, FALSE), updateQueueItem(item, i, s), runs)
    BY <1>5 DEF retry, skip
  <2> DEFINE cv == setQueuePaused(conv, c, FALSE)
             it == updateQueueItem(item, i, s)
  <2>2. s \in Stored /\ s \in Statuses \ {"processing"} /\ item[i].conv = c
    BY <1>5 DEF Stored, Statuses, Terminal, retry, skip, Members
  <2>3. Good(cv, it, runs, nextRun)
    BY <2>2, SetPausedGood, UpdateGood DEF IInv
  <2>4. Touches(c, cv, it)
    BY <1>1, <1>3, <2>2, UpdateTouches
  <2>5. processNext(c, cv, it, runs)
    BY <2>1
  <2> HIDE DEF cv, it
  <2> QED BY <2>3, <2>4, <2>5, DispatchWakes
<1>6. CASE pause(c)
  <2>1. conv'[c].paused /\ Touches(c, conv', item')
    BY <1>1, <1>3, <1>6 DEF pause, setQueuePaused, ConvState, Touches
  <2> QED BY <2>1, PauseWakes
<1>7. ASSUME NEW gone, Remove(gone), \A i \in gone : item[i].status # "processing"
      PROVE  Waits(d, conv, item)
  <2>1. \A j \in Items : /\ item'[j].conv = item[j].conv
                         /\ item'[j].status \in {item[j].status, "gone"}
                         /\ item[j].status = "processing" => item'[j].status = "processing"
    BY <1>1, <1>7 DEF Remove, removeQueueItems, QueueItem
  <2> QED BY <1>1, <1>7, <2>1, RemovalWakes DEF Remove
<1>8. CASE reorder(c)
  <2>1. PICK i, j \in Members(c, item) :
          item' = [item EXCEPT ![i].rank = item[j].rank, ![j].rank = item[i].rank]
    BY <1>8 DEF reorder
  <2>2. i \in Items /\ j \in Items
    BY DEF Members
  <2>3. \A k \in Items : item'[k].conv = item[k].conv /\ item'[k].status = item[k].status
    BY <1>1, <2>1, <2>2 DEF QueueItem
  <2> QED BY <1>1, <1>8, <2>3, RemovalWakes DEF reorder
<1>9. CASE deleteConversation(c)
  <2> DEFINE mine == {i \in Items : item[i].conv = c}
  <2>1. /\ item' = removeQueueItems(item, mine)
        /\ \A e \in Conversations \ {c} : conv'[e] = conv[e]
    BY <1>1, <1>9 DEF deleteConversation
  <2>2. \A i \in Items : /\ i \in mine => item'[i].status = "gone"
                         /\ i \notin mine => item'[i] = item[i]
                         /\ item'[i].conv = item[i].conv
    BY <1>1, <2>1 DEF removeQueueItems, QueueItem
  <2>3. d # c
    BY <2>2 DEF Waits, Members
  <2>4. Touches(c, conv', item')
    BY <2>1, <2>2 DEF Touches
  <2> QED BY <2>3, <2>4, TouchesOneQueue
<1>10. CASE cancelStream(c) \/ \E id \in 0..(nextRun - 1) : returnControl(c, id)
  BY <1>10 DEF cancelStream, returnControl
<1>11. ASSUME NEW i \in Items, removeItem(c, i)
       PROVE  Waits(d, conv, item)
  BY <1>7, <1>11 DEF removeItem
<1>12. CASE clearQueue(c)
  BY <1>7, <1>12 DEF clearQueue
<1> QED BY <1>2, <1>4, <1>5, <1>6, <1>8, <1>9, <1>10, <1>11, <1>12 DEF UserStep

LEMMA NextWakes ==
  ASSUME IInv, RunsKnowItems(item, runs), [Next]_vars,
         NEW d \in Conversations, Waits(d, conv', item'), ~ Restart
  PROVE  Waits(d, conv, item)
<1>1. item \in [Items -> QueueItem] /\ conv \in [Conversations -> ConvState]
  BY DEF IInv, TypeOK
<1>2. ASSUME NEW r \in runs
      PROVE  r.item \in Items /\ r.conv \in Conversations /\ item[r.item].conv = r.conv
  BY DEF IInv, TypeOK, Run, RunsKnowItems
<1>3. ASSUME NEW r \in runs, onWaitingForHuman(r)
      PROVE  Waits(d, conv, item)
  <2>1. /\ item' = updateQueueItem(item, r.item, "paused")
        /\ conv' = setQueuePaused(conv, r.conv, TRUE)
    BY <1>3 DEF onWaitingForHuman
  <2>2. conv'[r.conv].paused /\ \A e \in Conversations \ {r.conv} : conv'[e] = conv[e]
    BY <1>1, <1>2, <2>1 DEF setQueuePaused, ConvState
  <2>3. "paused" \in Stored
    BY DEF Stored
  <2>4. Touches(r.conv, conv', item')
    BY <1>1, <1>2, <2>1, <2>2, <2>3, UpdateTouches
  <2> QED BY <1>2, <2>2, <2>4, PauseWakes
<1>4. ASSUME NEW r \in runs, NEW s \in {"failed", "cancelled"}, EndAndPause(r, s)
      PROVE  Waits(d, conv, item)
  <2>1. /\ item' = updateQueueItem(item, r.item, s)
        /\ conv' = setQueuePaused(Release(r.conv), r.conv, TRUE)
    BY <1>4 DEF EndAndPause
  <2>2. conv'[r.conv].paused /\ \A e \in Conversations \ {r.conv} : conv'[e] = conv[e]
    BY <1>1, <1>2, <2>1 DEF setQueuePaused, Release, ConvState, NoRun
  <2>3. s \in Stored
    BY DEF Stored, Terminal
  <2>4. Touches(r.conv, conv', item')
    BY <1>1, <1>2, <2>1, <2>2, <2>3, UpdateTouches
  <2> QED BY <1>2, <2>2, <2>4, PauseWakes
<1>5. ASSUME NEW i \in Items, NEW cv, NEW rs,
             item[i].conv \in Conversations, Good(cv, item, rs, nextRun),
             \A e \in Conversations \ {item[i].conv} : cv[e] = conv[e],
             \E old \in SUBSET Prunable(item[i].conv, updateQueueItem(item, i, "completed")) :
               processNext(item[i].conv, cv,
                           removeQueueItems(updateQueueItem(item, i, "completed"), old), rs)
      PROVE  Waits(d, conv, item)
  <2> DEFINE c    == item[i].conv
             done == updateQueueItem(item, i, "completed")
  <2>1. PICK old \in SUBSET Prunable(c, done) : processNext(c, cv, removeQueueItems(done, old), rs)
    BY <1>5
  <2>2. "completed" \in Statuses \ {"processing"} /\ "completed" \in Stored
    BY DEF Statuses, Stored, Terminal
  <2>3. Good(cv, removeQueueItems(done, old), rs, nextRun)
    BY <1>5, <2>2, UpdateGood, RemoveGood
  <2>4. \A j \in old : j \in Items /\ item[j].conv = c
    BY <1>1, <1>5, <2>2, UpdateGood DEF Prunable, Members
  <2>5. Touches(c, cv, removeQueueItems(done, old))
    BY <1>1, <1>5, <2>2, <2>4, PruneTouches
  <2> HIDE DEF done, c
  <2> QED BY <1>5, <2>1, <2>3, <2>5, DispatchWakes DEF c
<1>6. ASSUME NEW r \in runs, RunCompletes(r)
      PROVE  Waits(d, conv, item)
  <2>1. Good(Release(r.conv), item, runs \ {r}, nextRun)
    BY ReleaseGood
  <2>2. \A e \in Conversations \ {r.conv} : Release(r.conv)[e] = conv[e]
    BY <1>1, <1>2 DEF Release
  <2>3. \E old \in SUBSET Prunable(r.conv, updateQueueItem(item, r.item, "completed")) :
          processNext(r.conv, Release(r.conv),
                      removeQueueItems(updateQueueItem(item, r.item, "completed"), old), runs \ {r})
    BY <1>6 DEF RunCompletes
  <2> QED BY <1>2, <1>5, <2>1, <2>2, <2>3
<1>7. ASSUME NEW i \in Items, completeQueueItemAsTask(i)
      PROVE  Waits(d, conv, item)
  <2>1. \E old \in SUBSET Prunable(item[i].conv, updateQueueItem(item, i, "completed")) :
          processNext(item[i].conv, conv,
                      removeQueueItems(updateQueueItem(item, i, "completed"), old), runs)
    BY <1>7 DEF completeQueueItemAsTask
  <2>2. item[i].conv \in Conversations /\ Good(conv, item, runs, nextRun)
    BY <1>7 DEF IInv, TasksKnown, completeQueueItemAsTask
  <2> QED BY <1>5, <2>1, <2>2
<1>8. CASE UNCHANGED vars
  BY <1>8 DEF vars
<1> QED BY <1>3, <1>4, <1>6, <1>7, <1>8, UserWakes
        DEF Next, RunEnds, RunFails, RunCancelled

\* No operation leaves a queue that could go on without dispatching from it: every way
\* to free a queue calls processNext, whatever the conversations, requests and retries.
THEOREM QueueGoesOn == Spec => NoLostWakeup
<1>1. IInv /\ IInv' /\ AnswersAccounted /\ [Next]_vars =>
        \A c \in Conversations : ~Stalled(c) /\ Stalled(c)' => Restart
  <2> SUFFICES ASSUME IInv, IInv', AnswersAccounted, [Next]_vars,
                      NEW c \in Conversations, ~Stalled(c), Stalled(c)'
               PROVE  Restart
    OBVIOUS
  <2>1. Waits(c, conv', item')
    BY StalledWaits DEF Stalled, IInv, TypeOK
  <2>2. ~ Waits(c, conv, item)
    BY StalledWaits DEF Stalled, IInv, TypeOK
  <2>3. RunsKnowItems(item, runs)
    BY DEF AnswersAccounted, Accounts
  <2> QED BY <2>1, <2>2, <2>3, NextWakes
<1> QED BY <1>1, Invariant, AnswersKept, PTL DEF Spec, NoLostWakeup

-----------------------------------------------------------------------------
(* The snapshots of the project context that messages and queued items     *)
(* refer to (ContextSnapshots).  Files are deleted on behalf of a message  *)
(* that others may share ids or references with.  The invariant says how   *)
(* far sharing goes: references are captured for one message id, an item   *)
(* refers to what its message refers to until it is edited, and an id      *)
(* lives in one conversation until it is branched.                         *)
(*                                                                         *)
(* Sequences as sets of their elements.                                    *)

\* The rank of a position in a set of positions counts the set, once each.
LEMMA RankOf ==
  ASSUME NEW l \in Nat, NEW K, \A k \in K : k \in Nat /\ 1 <= k /\ k <= l
  PROVE  /\ IsFiniteSet(K) /\ Cardinality(K) \in Nat
         /\ \A k \in K : Cardinality(Context!UpTo(K, k)) \in 1..Cardinality(K)
         /\ \A k, m \in K : Cardinality(Context!UpTo(K, k)) = Cardinality(Context!UpTo(K, m)) => k = m
         /\ \A n \in 1..Cardinality(K) : \E k \in K : Cardinality(Context!UpTo(K, k)) = n
<1> DEFINE size(n) == Cardinality(Context!UpTo(K, n))
<1>1. \A k \in K : k - 1 \in 0..l /\ k \in 0..l /\ k \in 1..l
  OBVIOUS
<1>2. IsFiniteSet(K) /\ Cardinality(K) \in Nat
  <2>1. IsFiniteSet(1..l)
    BY FS_Interval
  <2> QED BY <1>1, <2>1, FS_Subset, FS_CardinalityType
<1>3. \A n : Context!UpTo(K, n) \subseteq K
  BY DEF Context!UpTo
<1>4. \A n : IsFiniteSet(Context!UpTo(K, n)) /\ size(n) \in Nat /\ size(n) <= Cardinality(K)
  BY <1>2, <1>3, FS_Subset, FS_CardinalityType
<1>5. \A m \in 0..l, n \in 0..l : m <= n => Context!UpTo(K, m) \subseteq Context!UpTo(K, n)
  BY <1>1 DEF Context!UpTo
<1>6. \A m \in 0..l, n \in 0..l : m <= n => size(m) <= size(n)
  BY <1>4, <1>5, FS_Subset
<1>7. \A k \in K : size(k) = size(k - 1) + 1
  <2>1. \A k \in K : Context!UpTo(K, k) = Context!UpTo(K, k - 1) \union {k} /\ k \notin Context!UpTo(K, k - 1)
    BY <1>1 DEF Context!UpTo
  <2> QED BY <1>4, <2>1, FS_AddElement
<1>8. \A k, m \in K : k < m => size(k) < size(m)
  <2> SUFFICES ASSUME NEW k \in K, NEW m \in K, k < m
               PROVE  size(k) < size(m)
    OBVIOUS
  <2>1. k <= m - 1 /\ k \in 0..l /\ m - 1 \in 0..l
    BY <1>1
  <2>2. size(k) <= size(m - 1)
    BY <1>6, <2>1
  <2>3. size(m) = size(m - 1) + 1 /\ size(m - 1) \in Nat /\ size(k) \in Nat
    BY <1>4, <1>7
  <2> HIDE DEF size
  <2> QED BY <2>2, <2>3
<1>9. size(0) = 0 /\ size(l) = Cardinality(K)
  <2>1. Context!UpTo(K, 0) = {} /\ Context!UpTo(K, l) = K
    BY <1>1 DEF Context!UpTo
  <2> QED BY <2>1, FS_EmptySet
<1>10. \A n \in 1..l : n \notin K => size(n) = size(n - 1)
  <2>1. \A n \in 1..l : n \notin K => Context!UpTo(K, n) = Context!UpTo(K, n - 1)
    BY <1>1 DEF Context!UpTo
  <2> QED BY <2>1
<1> HIDE DEF size
<1>11. ASSUME NEW n \in 1..Cardinality(K)
       PROVE  \E k \in K : size(k) = n
  <2> DEFINE T == {k \in 0..l : n <= size(k)}
  <2>1. l \in T /\ T \in SUBSET Nat
    BY <1>2, <1>9
  <2>2. PICK k \in T : \A m \in T : k <= m
    BY <2>1, LeastNatural
  <2>3. k \in Nat /\ k <= l /\ n <= size(k)
    BY <2>2
  <2>4. k # 0
    BY <1>9, <2>3
  <2>5. k - 1 \in 0..l /\ k \in 1..l /\ ~ (n <= size(k - 1))
    BY <2>2, <2>3, <2>4
  <2>6. size(k - 1) \in Nat /\ size(k) \in Nat /\ n \in Nat
    BY <1>4 DEF size
  <2>7. k \in K
    BY <1>10, <2>3, <2>5
  <2>8. size(k) = n
    BY <1>7, <2>3, <2>5, <2>6, <2>7
  <2> QED BY <2>7, <2>8
<1>12. \A k \in K : size(k) \in 1..Cardinality(K)
  <2>1. \A k \in K : size(k) \in Nat /\ size(k - 1) \in Nat /\ size(k) <= Cardinality(K)
    BY <1>4 DEF size
  <2> QED BY <1>2, <1>7, <2>1
<1>13. \A k, m \in K : size(k) = size(m) => k = m
  <2>1. \A k, m \in K : k < m \/ m < k \/ k = m
    OBVIOUS
  <2>2. \A k \in K : size(k) \in Nat
    BY <1>4 DEF size
  <2> QED BY <1>8, <2>1, <2>2
<1> QED BY <1>2, <1>11, <1>12, <1>13 DEF size

\* What At picks.
LEMMA AtIn ==
  ASSUME NEW S, NEW s \in Seq(S), NEW K \in SUBSET DOMAIN s
  PROVE  Context!At(s, K) \in Seq(S) /\ Context!In(Context!At(s, K)) = {s[k] : k \in K}
<1> DEFINE rank(k) == Cardinality(Context!UpTo(K, k))
           pos(n)  == CHOOSE k \in K : rank(k) = n
<1>1. Len(s) \in Nat /\ DOMAIN s = 1..Len(s) /\ \A k \in DOMAIN s : s[k] \in S
  OBVIOUS
<1>2. /\ Cardinality(K) \in Nat
      /\ \A k \in K : rank(k) \in 1..Cardinality(K)
      /\ \A k, m \in K : rank(k) = rank(m) => k = m
      /\ \A n \in 1..Cardinality(K) : \E k \in K : rank(k) = n
  <2>1. \A k \in K : k \in Nat /\ 1 <= k /\ k <= Len(s)
    BY <1>1
  <2> QED BY <1>1, <2>1, RankOf
<1> HIDE DEF rank
<1>3. \A n \in 1..Cardinality(K) : pos(n) \in K /\ rank(pos(n)) = n
  BY <1>2
<1>4. \A k \in K : pos(rank(k)) = k
  BY <1>2, <1>3
<1>5. Context!At(s, K) = [n \in 1..Cardinality(K) |-> s[pos(n)]]
  BY DEF Context!At, rank, Context!Cardinality, Cardinality
<1> HIDE DEF pos
<1>6. Context!At(s, K) \in Seq(S)
  <2>1. \A n \in 1..Cardinality(K) : s[pos(n)] \in S
    BY <1>1, <1>3
  <2> QED BY <1>2, <1>5, <2>1
<1>7. Context!In(Context!At(s, K)) = {s[k] : k \in K}
  <2>1. Context!In(Context!At(s, K)) = {s[pos(n)] : n \in 1..Cardinality(K)}
    BY <1>5 DEF Context!In
  <2> QED BY <1>2, <1>3, <1>4, <2>1
<1> QED BY <1>6, <1>7

\* What the operations on sequences do to the elements.
LEMMA InAppend ==
  ASSUME NEW S, NEW s \in Seq(S), NEW x \in S
  PROVE  Append(s, x) \in Seq(S) /\ Context!In(Append(s, x)) = Context!In(s) \union {x}
<1> DEFINE t == Append(s, x)
<1>1. /\ t \in Seq(S) /\ DOMAIN s = 1..Len(s) /\ DOMAIN t = 1..(Len(s) + 1) /\ Len(s) \in Nat
      /\ \A k \in 1..Len(s) : t[k] = s[k]
      /\ t[Len(s) + 1] = x
  OBVIOUS
<1> HIDE DEF t
<1>2. \A k \in DOMAIN t : k \in DOMAIN s \/ k = Len(s) + 1
  BY <1>1
<1>3. \A k \in DOMAIN s : k \in DOMAIN t
  BY <1>1
<1>4. Len(s) + 1 \in DOMAIN t
  BY <1>1
<1>5. Context!In(t) = Context!In(s) \union {x}
  BY <1>1, <1>2, <1>3, <1>4 DEF Context!In
<1> QED BY <1>1, <1>5 DEF t

LEMMA InConcat ==
  ASSUME NEW S, NEW s \in Seq(S), NEW t \in Seq(S)
  PROVE  s \o t \in Seq(S) /\ Context!In(s \o t) = Context!In(s) \union Context!In(t)
<1> DEFINE u == s \o t
<1>1. /\ u \in Seq(S) /\ Len(s) \in Nat /\ Len(t) \in Nat
      /\ DOMAIN s = 1..Len(s) /\ DOMAIN t = 1..Len(t) /\ DOMAIN u = 1..(Len(s) + Len(t))
      /\ \A k \in 1..Len(s) : u[k] = s[k]
      /\ \A k \in 1..(Len(s) + Len(t)) : k > Len(s) => u[k] = t[k - Len(s)]
  OBVIOUS
<1> HIDE DEF u
<1>2. \A k \in DOMAIN t : k + Len(s) \in DOMAIN u /\ u[k + Len(s)] = t[k]
  BY <1>1
<1>3. \A k \in DOMAIN s : k \in DOMAIN u /\ u[k] = s[k]
  BY <1>1
<1>4. \A k \in DOMAIN u : k \in DOMAIN s \/ (k - Len(s) \in DOMAIN t /\ u[k] = t[k - Len(s)])
  BY <1>1
<1>5. Context!In(u) = Context!In(s) \union Context!In(t)
  BY <1>2, <1>3, <1>4 DEF Context!In
<1> QED BY <1>1, <1>5 DEF u

LEMMA InPrefix ==
  ASSUME NEW S, NEW s \in Seq(S), NEW k \in DOMAIN s
  PROVE  SubSeq(s, 1, k) \in Seq(S) /\ Context!In(SubSeq(s, 1, k)) \subseteq Context!In(s)
BY DEF Context!In

LEMMA InEmpty ==
  ASSUME NEW S
  PROVE  <<>> \in Seq(S) /\ Context!In(<<>>) = {}
BY DEF Context!In

LEMMA FilterIn ==
  ASSUME NEW s \in Seq(Context!Message), NEW ids
  PROVE  /\ Context!Without(s, ids) \in Seq(Context!Message)
         /\ Context!In(Context!Without(s, ids)) = {m \in Context!In(s) : m.id \notin ids}
         /\ Context!At(s, Context!Positions(s, ids)) \in Seq(Context!Message)
         /\ Context!In(Context!At(s, Context!Positions(s, ids))) = {m \in Context!In(s) : m.id \in ids}
<1>1. /\ Context!Positions(s, ids) \in SUBSET DOMAIN s
      /\ DOMAIN s \ Context!Positions(s, ids) \in SUBSET DOMAIN s
  BY DEF Context!Positions
<1>2. /\ {s[k] : k \in Context!Positions(s, ids)} = {m \in Context!In(s) : m.id \in ids}
      /\ {s[k] : k \in DOMAIN s \ Context!Positions(s, ids)} = {m \in Context!In(s) : m.id \notin ids}
  BY DEF Context!Positions, Context!In
<1> QED BY <1>1, <1>2, AtIn DEF Context!Without

-----------------------------------------------------------------------------
(* The invariant.                                                          *)

\* Only ids that were given out are in use.
IdsSent == Context!Ids(Context!StoredMessages) \union Context!Ids(items) \subseteq sent

\* What messages and items refer to was captured for them, not by read_file.
RefsCaptured == Context!RefsOf(Context!StoredMessages) \union Context!RefsOf(items) \subseteq captured \ read

\* A file is captured for one message id.
RefsDisjoint == \A m, n \in Context!StoredMessages : m.id # n.id => m.refs \intersect n.refs = {}

\* An item refers to what its message and every copy of it refer to, until it is edited.
ItemsAreMessages ==
  \A i \in items, m \in Context!StoredMessages : m.id = i.id /\ i.id \notin edited => i.refs = m.refs

\* The files of an edited message are gone, though it still refers to them.
EditedAreGone == \A m \in Context!StoredMessages : m.id \in edited => m.refs \intersect files = {}

\* Until it is branched, an id lives in one conversation, where its item is.
ItemsAreHome ==
  \A i \in items, c \in Conversations : \A m \in Context!In(messages[c]) :
    m.id = i.id /\ i.id \notin branched => i.conv = c

OneHome ==
  \A c, d \in Conversations : \A m \in Context!In(messages[c]), n \in Context!In(messages[d]) :
    m.id = n.id /\ c # d => m.id \in branched

\* What a live run has read is on disk.
ReadsLive == \A c \in Conversations : reads[c] \subseteq files

Sharing == /\ IdsSent /\ RefsCaptured /\ RefsDisjoint
           /\ ItemsAreMessages /\ EditedAreGone /\ ItemsAreHome /\ OneHome

ContextIInv == Context!TypeOK /\ Sharing /\ ReadsLive /\ Context!ReferencesResolve /\ Context!NothingLeaks

-----------------------------------------------------------------------------
(* Membership, spelled out.                                                *)

LEMMA Membership ==
  /\ messages \in [Conversations -> Seq(Context!Message)] =>
       \A m : (m \in Context!StoredMessages) <=> (\E c \in Conversations : m \in Context!In(messages[c]))
  /\ messages' \in [Conversations -> Seq(Context!Message)] =>
       \A m : (m \in Context!StoredMessages') <=> (\E c \in Conversations : m \in Context!In(messages'[c]))
  /\ \A set, f : (f \in Context!RefsOf(set)) <=> (\E x \in set : f \in x.refs)
  /\ \A set, n : (n \in Context!Ids(set)) <=> (\E x \in set : x.id = n)
BY DEF Context!StoredMessages, Context!RefsOf, Context!Ids

LEMMA StoredType ==
  ASSUME Context!TypeOK
  PROVE  /\ \A c \in Conversations : \A m \in Context!In(messages[c]) : m \in Context!Message
         /\ \A m \in Context!StoredMessages : m \in Context!Message
BY DEF Context!TypeOK, Context!StoredMessages, Context!In

\* Clean-up leaves what is not given up, what another message id refers to and what a
\* ledger refers to.
LEMMA CleanUp ==
  ASSUME NEW refs, NEW ids, files' = Context!deleteOrphanedSnapshots(refs, ids), NEW f
  PROVE  (f \in files') <=> (/\ f \in files
                            /\ \/ f \notin refs
                               \/ f \in ledger
                               \/ \E m \in Context!StoredMessages : m.id \notin ids /\ f \in m.refs)
BY DEF Context!deleteOrphanedSnapshots, Context!RefsOf

LEMMA ContextInitIInv == Context!Init => ContextIInv
<1> SUFFICES ASSUME Context!Init PROVE ContextIInv
  OBVIOUS
<1>1. \A c \in Conversations : messages[c] = <<>> /\ Context!In(messages[c]) = {}
  BY InEmpty DEF Context!Init
<1>2. Context!StoredMessages = {} /\ items = {}
  BY <1>1 DEF Context!Init, Context!StoredMessages
<1>3. Context!TypeOK
  BY DEF Context!Init, Context!TypeOK
<1> QED BY <1>1, <1>2, <1>3
        DEF Context!Init, ContextIInv, Sharing, IdsSent, RefsCaptured, RefsDisjoint, ItemsAreMessages,
            EditedAreGone, ItemsAreHome, OneHome, ReadsLive, Context!ReferencesResolve, Context!LedgerResolves,
            Context!OwnContextResolves, Context!NothingLeaks, Context!Ids, Context!RefsOf

LEMMA SendStep ==
  ASSUME ContextIInv, NEW c \in Conversations, NEW m \in Messages, NEW refs \in SUBSET Snapshots,
         Context!send(c, m, refs)
  PROVE  ContextIInv'
<1> DEFINE msg == [id |-> m, refs |-> refs]
           itm == [conv |-> c, id |-> m, refs |-> refs, status |-> "open"]
<1>1. /\ m \notin sent /\ refs \intersect captured = {}
      /\ messages' = [messages EXCEPT ![c] = Append(@, msg)]
      /\ items' = items \union {itm}
      /\ files' = files \union refs /\ captured' = captured \union refs /\ sent' = sent \union {m}
      /\ UNCHANGED <<ledger, reads, read, edited, branched>>
  BY DEF Context!send
<1>2. msg \in Context!Message /\ itm \in Context!QueueItem
      /\ msg.id = m /\ msg.refs = refs /\ itm.id = m /\ itm.refs = refs /\ itm.conv = c
  BY DEF Context!Message, Context!QueueItem
<1>3. messages \in [Conversations -> Seq(Context!Message)]
  BY DEF ContextIInv, Context!TypeOK
<1> HIDE DEF msg, itm
<1>4. /\ messages' \in [Conversations -> Seq(Context!Message)]
      /\ Context!In(messages'[c]) = Context!In(messages[c]) \union {msg}
      /\ \A d \in Conversations \ {c} : Context!In(messages'[d]) = Context!In(messages[d])
  <2>1. Append(messages[c], msg) \in Seq(Context!Message)
        /\ Context!In(Append(messages[c], msg)) = Context!In(messages[c]) \union {msg}
    BY <1>2, <1>3, InAppend
  <2> QED BY <1>1, <1>3, <2>1
<1>5. Context!StoredMessages' = Context!StoredMessages \union {msg}
  BY <1>3, <1>4, Membership
<1>6. Context!TypeOK'
  BY <1>1, <1>2, <1>4 DEF ContextIInv, Context!TypeOK
<1>7. /\ \A x \in Context!StoredMessages : x.id \in sent /\ x.id # m /\ x.refs \subseteq captured \ read
      /\ \A x \in items : x.id \in sent /\ x.id # m /\ x.refs \subseteq captured \ read
      /\ edited \subseteq sent /\ branched \subseteq sent
      /\ files \subseteq captured /\ ledger \subseteq files
      /\ read \subseteq captured
  BY <1>1, Membership DEF ContextIInv, Sharing, IdsSent, RefsCaptured, Context!TypeOK, Context!ReferencesResolve, Context!LedgerResolves
<1>8. IdsSent' /\ RefsCaptured'
  BY <1>1, <1>2, <1>5, <1>7 DEF IdsSent, RefsCaptured, Context!Ids, Context!RefsOf
<1>9. RefsDisjoint'
  BY <1>1, <1>2, <1>5, <1>7 DEF ContextIInv, Sharing, RefsDisjoint
<1>10. ItemsAreMessages' /\ EditedAreGone'
  BY <1>1, <1>2, <1>5, <1>7 DEF ContextIInv, Sharing, ItemsAreMessages, EditedAreGone
<1>11. ItemsAreHome' /\ OneHome'
  <2>1. \A d \in Conversations : \A x \in Context!In(messages[d]) : x.id # m
    BY <1>3, <1>7, Membership
  <2>2. ItemsAreHome'
    BY <1>1, <1>2, <1>4, <1>7, <2>1 DEF ContextIInv, Sharing, ItemsAreHome
  <2>3. OneHome'
    BY <1>1, <1>2, <1>4, <2>1 DEF ContextIInv, Sharing, OneHome
  <2> QED BY <2>2, <2>3
<1>12. ReadsLive' /\ Context!ReferencesResolve'
  BY <1>1, <1>2, <1>5
     DEF ContextIInv, ReadsLive, Context!ReferencesResolve, Context!LedgerResolves, Context!OwnContextResolves
<1>13. Context!NothingLeaks'
  BY <1>1, <1>2, <1>5 DEF ContextIInv, Context!NothingLeaks, Context!RefsOf
<1> QED BY <1>6, <1>8, <1>9, <1>10, <1>11, <1>12, <1>13 DEF ContextIInv, Sharing

LEMMA EditStep ==
  ASSUME ContextIInv, NEW i \in items, Context!editItem(i)
  PROVE  ContextIInv'
<1> DEFINE seq    == messages[i.conv]
           mine   == Context!At(seq, Context!Positions(seq, {i.id}))
           others == Context!Without(seq, {i.id})
           itm    == [i EXCEPT !.refs = {}]
<1>1. /\ files' = Context!deleteOrphanedSnapshots(i.refs, {i.id})
      /\ items' = (items \ {i}) \union {itm}
      /\ messages' = [messages EXCEPT ![i.conv] = others \o mine]
      /\ edited' = edited \union {i.id}
      /\ UNCHANGED <<ledger, reads, sent, read, captured, branched>>
  BY DEF Context!editItem
<1>2. i \in Context!QueueItem /\ itm \in Context!QueueItem /\ itm.id = i.id /\ itm.conv = i.conv /\ itm.refs = {}
  BY DEF ContextIInv, Context!TypeOK, Context!QueueItem
<1>3. messages \in [Conversations -> Seq(Context!Message)] /\ i.conv \in Conversations
  BY <1>2 DEF ContextIInv, Context!TypeOK, Context!QueueItem
<1>4. /\ messages' \in [Conversations -> Seq(Context!Message)]
      /\ \A d \in Conversations : Context!In(messages'[d]) = Context!In(messages[d])
  <2>1. /\ others \in Seq(Context!Message) /\ Context!In(others) = {m \in Context!In(seq) : m.id \notin {i.id}}
        /\ mine \in Seq(Context!Message) /\ Context!In(mine) = {m \in Context!In(seq) : m.id \in {i.id}}
    BY <1>3, FilterIn
  <2> HIDE DEF others, mine
  <2>2. others \o mine \in Seq(Context!Message) /\ Context!In(others \o mine) = Context!In(others) \union Context!In(mine)
    BY <2>1, InConcat
  <2>3. Context!In(others) \union Context!In(mine) = Context!In(seq)
    BY <2>1
  <2> QED BY <1>1, <1>3, <2>2, <2>3
<1> HIDE DEF itm, mine, others
<1>5. Context!StoredMessages' = Context!StoredMessages
  BY <1>3, <1>4, Membership
<1>6. \A f : (f \in files') <=> (/\ f \in files
                                /\ \/ f \notin i.refs
                                   \/ f \in ledger
                                   \/ \E m \in Context!StoredMessages : m.id # i.id /\ f \in m.refs)
  <2>1. \A n : (n \in {i.id}) <=> (n = i.id)
    OBVIOUS
  <2> QED BY <1>1, <2>1, CleanUp
<1>7. /\ \A x \in Context!StoredMessages : x.id \in sent /\ x.refs \subseteq captured \ read
      /\ \A x \in items : x.id \in sent /\ x.refs \subseteq captured \ read
      /\ ledger \subseteq files /\ ledger \subseteq read
  BY Membership DEF ContextIInv, Sharing, IdsSent, RefsCaptured, Context!TypeOK, Context!ReferencesResolve, Context!LedgerResolves
<1>8. Context!TypeOK'
  BY <1>1, <1>2, <1>4, <1>6, <1>7 DEF ContextIInv, Context!TypeOK
<1>9. IdsSent' /\ RefsCaptured'
  BY <1>1, <1>2, <1>5, <1>7 DEF IdsSent, RefsCaptured, Context!Ids, Context!RefsOf
<1>10. RefsDisjoint'
  BY <1>5 DEF ContextIInv, Sharing, RefsDisjoint
<1>11. ItemsAreMessages'
  BY <1>1, <1>2, <1>5 DEF ContextIInv, Sharing, ItemsAreMessages
<1>12. EditedAreGone'
  <2> SUFFICES ASSUME NEW m \in Context!StoredMessages, m.id \in edited', NEW f \in m.refs, f \in files'
               PROVE  FALSE
    BY <1>5 DEF EditedAreGone
  <2>1. m.id \notin edited
    BY <1>6 DEF ContextIInv, Sharing, EditedAreGone
  <2>2. m.id = i.id /\ i.refs = m.refs
    BY <1>1, <2>1 DEF ContextIInv, Sharing, ItemsAreMessages
  <2>3. f \notin ledger
    BY <1>7
  <2> QED BY <1>6, <2>2, <2>3 DEF ContextIInv, Sharing, RefsDisjoint
<1>13. ItemsAreHome' /\ OneHome'
  BY <1>1, <1>2, <1>4 DEF ContextIInv, Sharing, ItemsAreHome, OneHome
<1>14. ReadsLive' /\ Context!LedgerResolves'
  BY <1>1, <1>6, <1>7 DEF ContextIInv, Context!TypeOK, ReadsLive, Context!LedgerResolves
<1>15. Context!OwnContextResolves'
  BY <1>1, <1>5, <1>6 DEF ContextIInv, Context!ReferencesResolve, Context!OwnContextResolves
<1>16. Context!NothingLeaks'
  BY <1>1, <1>5, <1>6 DEF ContextIInv, Context!NothingLeaks
<1> QED BY <1>8, <1>9, <1>10, <1>11, <1>12, <1>13, <1>14, <1>15, <1>16
        DEF ContextIInv, Sharing, Context!ReferencesResolve

\* Taking messages and items away, with files that read_file did not capture, keeps
\* what is said of the rest.
LEMMA Shrink ==
  ASSUME ContextIInv, NEW refs, NEW ids,
         \A x \in refs : x \notin read,
         files' = Context!deleteOrphanedSnapshots(refs, ids),
         messages' \in [Conversations -> Seq(Context!Message)],
         \A d \in Conversations : Context!In(messages'[d]) \subseteq Context!In(messages[d]),
         items' \subseteq items,
         reads' \in [Conversations -> SUBSET read],
         \A d \in Conversations : reads'[d] \subseteq reads[d],
         UNCHANGED <<ledger, sent, read, captured, edited, branched>>
  PROVE  /\ Context!TypeOK' /\ Sharing' /\ ReadsLive' /\ Context!LedgerResolves'
         /\ Context!StoredMessages' \subseteq Context!StoredMessages
<1>1. Context!StoredMessages' \subseteq Context!StoredMessages
  BY Membership DEF ContextIInv, Context!TypeOK
<1>2. \A f : (f \in files') <=> (/\ f \in files
                                /\ \/ f \notin refs
                                   \/ f \in ledger
                                   \/ \E m \in Context!StoredMessages : m.id \notin ids /\ f \in m.refs)
  BY CleanUp
<1>3. Context!TypeOK'
  BY <1>2 DEF ContextIInv, Context!TypeOK
<1>4. IdsSent' /\ RefsCaptured'
  BY <1>1 DEF ContextIInv, Sharing, IdsSent, RefsCaptured, Context!Ids, Context!RefsOf
<1>5. RefsDisjoint' /\ ItemsAreMessages'
  BY <1>1 DEF ContextIInv, Sharing, RefsDisjoint, ItemsAreMessages
<1>6. EditedAreGone'
  BY <1>1, <1>2 DEF ContextIInv, Sharing, EditedAreGone
<1>7. ItemsAreHome' /\ OneHome'
  BY DEF ContextIInv, Sharing, ItemsAreHome, OneHome
<1>8. ReadsLive'
  <2> SUFFICES ASSUME NEW d \in Conversations, NEW f \in reads'[d]
               PROVE  f \in files'
    BY DEF ReadsLive
  <2>1. f \in reads[d] /\ f \in read
    OBVIOUS
  <2> QED BY <1>2, <2>1 DEF ContextIInv, ReadsLive
<1>9. Context!LedgerResolves'
  BY <1>2 DEF ContextIInv, Context!ReferencesResolve, Context!LedgerResolves
<1> QED BY <1>1, <1>3, <1>4, <1>5, <1>6, <1>7, <1>8, <1>9 DEF Sharing

LEMMA ContextRemoveStep ==
  ASSUME ContextIInv, NEW c \in Conversations, NEW gone \in SUBSET items, \A i \in gone : i.conv = c,
         Context!Remove(c, gone)
  PROVE  ContextIInv'
<1>1. /\ files' = Context!deleteOrphanedSnapshots(Context!RefsOf(gone), Context!Ids(gone))
      /\ items' = items \ gone
      /\ messages' = [messages EXCEPT ![c] = Context!Without(messages[c], Context!Ids(gone))]
      /\ UNCHANGED <<ledger, reads, sent, read, captured, edited, branched>>
  BY DEF Context!Remove
<1>2. messages \in [Conversations -> Seq(Context!Message)] /\ reads \in [Conversations -> SUBSET read]
  BY DEF ContextIInv, Context!TypeOK
<1>3. /\ messages' \in [Conversations -> Seq(Context!Message)]
      /\ Context!In(messages'[c]) = {m \in Context!In(messages[c]) : m.id \notin Context!Ids(gone)}
      /\ \A d \in Conversations \ {c} : Context!In(messages'[d]) = Context!In(messages[d])
  <2>1. /\ Context!Without(messages[c], Context!Ids(gone)) \in Seq(Context!Message)
        /\ Context!In(Context!Without(messages[c], Context!Ids(gone))) = {m \in Context!In(messages[c]) : m.id \notin Context!Ids(gone)}
    BY <1>2, FilterIn
  <2> QED BY <1>1, <1>2, <2>1
<1>4. \A d \in Conversations : Context!In(messages'[d]) \subseteq Context!In(messages[d])
  BY <1>3
<1>5. \A x \in Context!RefsOf(gone) : x \notin read
  BY DEF ContextIInv, Sharing, RefsCaptured, Context!RefsOf
<1>6. /\ Context!TypeOK' /\ Sharing' /\ ReadsLive' /\ Context!LedgerResolves'
      /\ Context!StoredMessages' \subseteq Context!StoredMessages
  <2>1. items' \subseteq items /\ reads' \in [Conversations -> SUBSET read]
        /\ \A d \in Conversations : reads'[d] \subseteq reads[d]
    BY <1>1, <1>2
  <2> QED BY <1>1, <1>3, <1>4, <1>5, <2>1, Shrink
<1>7. \A f : (f \in files') <=> (/\ f \in files
                                /\ \/ f \notin Context!RefsOf(gone)
                                   \/ f \in ledger
                                   \/ \E m \in Context!StoredMessages : m.id \notin Context!Ids(gone) /\ f \in m.refs)
  BY <1>1, CleanUp
<1>8. \A m \in Context!StoredMessages : m.id \notin Context!Ids(gone) => m \in Context!StoredMessages'
  BY <1>2, <1>3, Membership
<1>9. \A m \in Context!StoredMessages' : m.id \notin branched => m.id \notin Context!Ids(gone)
  <2> SUFFICES ASSUME NEW m \in Context!StoredMessages', m.id \notin branched, NEW i \in gone, i.id = m.id
               PROVE  FALSE
    BY Membership
  <2>1. PICK d \in Conversations : m \in Context!In(messages'[d])
    BY <1>3, Membership
  <2>2. m \in Context!In(messages[d]) /\ d # c
    BY <1>3, <2>1, Membership
  <2>3. i.conv = d
    BY <2>2 DEF ContextIInv, Sharing, ItemsAreHome
  <2> QED BY <2>2, <2>3
<1>10. Context!OwnContextResolves'
  <2> SUFFICES ASSUME NEW m \in Context!StoredMessages', m.id \notin edited \union branched, NEW f \in m.refs
               PROVE  f \in files'
    BY <1>1 DEF Context!OwnContextResolves
  <2>1. m \in Context!StoredMessages /\ m.id \notin Context!Ids(gone)
    BY <1>6, <1>9
  <2>2. f \in files
    BY <2>1 DEF ContextIInv, Context!ReferencesResolve, Context!OwnContextResolves
  <2> QED BY <1>7, <2>1, <2>2
<1>11. Context!NothingLeaks'
  <2> SUFFICES ASSUME NEW f \in files', f \notin read
               PROVE  \E m \in Context!StoredMessages' : f \in m.refs
    BY <1>1, Membership DEF Context!NothingLeaks, Context!RefsOf
  <2>1. f \in files /\ f \notin ledger
    BY <1>7 DEF ContextIInv, Context!TypeOK
  <2>2. PICK m \in Context!StoredMessages : f \in m.refs
    BY <2>1, Membership DEF ContextIInv, Context!NothingLeaks
  <2>3. CASE m.id \notin Context!Ids(gone)
    BY <1>8, <2>2, <2>3
  <2>4. CASE m.id \in Context!Ids(gone)
    <3>1. PICK i \in gone : i.id = m.id
      BY <2>4, Membership
    <3>2. m.id \notin edited
      BY <2>1, <2>2 DEF ContextIInv, Sharing, EditedAreGone
    <3>3. i.refs = m.refs
      BY <3>1, <3>2 DEF ContextIInv, Sharing, ItemsAreMessages
    <3>4. f \in Context!RefsOf(gone)
      BY <2>2, <3>3, Membership
    <3> QED BY <1>7, <1>8, <2>1, <3>4
  <2> QED BY <2>3, <2>4
<1> QED BY <1>6, <1>10, <1>11 DEF ContextIInv, Context!ReferencesResolve

LEMMA DeleteStep ==
  ASSUME ContextIInv, NEW c \in Conversations, Context!deleteConversation(c)
  PROVE  ContextIInv'
<1> DEFINE mine == Context!In(messages[c])
<1>1. /\ files' = Context!deleteOrphanedSnapshots(Context!RefsOf(mine), Context!Ids(mine))
      /\ messages' = [messages EXCEPT ![c] = <<>>]
      /\ items' = {i \in items : i.conv # c}
      /\ reads' = [reads EXCEPT ![c] = {}]
      /\ UNCHANGED <<ledger, sent, read, captured, edited, branched>>
  BY DEF Context!deleteConversation
<1>2. messages \in [Conversations -> Seq(Context!Message)] /\ reads \in [Conversations -> SUBSET read]
  BY DEF ContextIInv, Context!TypeOK
<1>3. /\ messages' \in [Conversations -> Seq(Context!Message)]
      /\ Context!In(messages'[c]) = {}
      /\ \A d \in Conversations \ {c} : Context!In(messages'[d]) = Context!In(messages[d])
  <2>1. <<>> \in Seq(Context!Message) /\ Context!In(<<>>) = {}
    BY InEmpty
  <2> QED BY <1>1, <1>2, <2>1
<1>4. \A d \in Conversations : Context!In(messages'[d]) \subseteq Context!In(messages[d])
  BY <1>3
<1>5. \A x \in Context!RefsOf(mine) : x \notin read
  BY <1>2, Membership DEF ContextIInv, Sharing, RefsCaptured
<1> HIDE DEF mine
<1>6. /\ Context!TypeOK' /\ Sharing' /\ ReadsLive' /\ Context!LedgerResolves'
      /\ Context!StoredMessages' \subseteq Context!StoredMessages
  <2>1. items' \subseteq items /\ reads' \in [Conversations -> SUBSET read]
        /\ \A d \in Conversations : reads'[d] \subseteq reads[d]
    BY <1>1, <1>2
  <2> QED BY <1>1, <1>3, <1>4, <1>5, <2>1, Shrink
<1>7. \A f : (f \in files') <=> (/\ f \in files
                                /\ \/ f \notin Context!RefsOf(mine)
                                   \/ f \in ledger
                                   \/ \E m \in Context!StoredMessages : m.id \notin Context!Ids(mine) /\ f \in m.refs)
  BY <1>1, CleanUp
<1>8. \A m \in Context!StoredMessages : m \notin mine => m \in Context!StoredMessages'
  <2>1. \A m : (m \in Context!StoredMessages) <=> (\E d \in Conversations : m \in Context!In(messages[d]))
    BY <1>2, Membership
  <2>2. \A m : (m \in Context!StoredMessages') <=> (\E d \in Conversations : m \in Context!In(messages'[d]))
    BY <1>3, Membership
  <2> QED BY <1>3, <2>1, <2>2 DEF mine
<1>9. \A m \in Context!StoredMessages' : m.id \notin branched => m.id \notin Context!Ids(mine)
  BY <1>3, Membership DEF ContextIInv, Sharing, OneHome, mine
<1>10. Context!OwnContextResolves'
  <2> SUFFICES ASSUME NEW m \in Context!StoredMessages', m.id \notin edited \union branched, NEW f \in m.refs
               PROVE  f \in files'
    BY <1>1 DEF Context!OwnContextResolves
  <2>1. m \in Context!StoredMessages /\ m.id \notin Context!Ids(mine)
    BY <1>6, <1>9
  <2>2. f \in files
    BY <2>1 DEF ContextIInv, Context!ReferencesResolve, Context!OwnContextResolves
  <2> QED BY <1>7, <2>1, <2>2
<1>11. Context!NothingLeaks'
  <2> SUFFICES ASSUME NEW f \in files', f \notin read
               PROVE  \E m \in Context!StoredMessages' : f \in m.refs
    BY <1>1, Membership DEF Context!NothingLeaks, Context!RefsOf
  <2>1. f \in files /\ f \notin ledger
    BY <1>7 DEF ContextIInv, Context!TypeOK
  <2>2. PICK m \in Context!StoredMessages : f \in m.refs
    BY <2>1, Membership DEF ContextIInv, Context!NothingLeaks
  <2>3. CASE m \notin mine
    BY <1>8, <2>2, <2>3
  <2>4. CASE m \in mine
    BY <1>7, <1>8, <2>1, <2>2, <2>4, Membership
  <2> QED BY <2>3, <2>4
<1> QED BY <1>6, <1>10, <1>11 DEF ContextIInv, Context!ReferencesResolve

LEMMA BranchStep ==
  ASSUME ContextIInv, NEW c \in Conversations, NEW d \in Conversations, NEW k,
         Context!branchConversation(c, k, d)
  PROVE  ContextIInv'
<1> DEFINE copy == SubSeq(messages[c], 1, k)
<1>1. /\ k \in DOMAIN messages[c] /\ messages[d] = <<>>
      /\ {i \in items : i.conv = d} = {}
      /\ messages' = [messages EXCEPT ![d] = copy]
      /\ branched' = branched \union Context!Ids(Context!In(copy))
      /\ UNCHANGED <<items, files, ledger, reads, sent, read, captured, edited>>
  BY DEF Context!branchConversation
<1>2. messages \in [Conversations -> Seq(Context!Message)]
  BY DEF ContextIInv, Context!TypeOK
<1>3. copy \in Seq(Context!Message) /\ Context!In(copy) \subseteq Context!In(messages[c])
  BY <1>1, <1>2, InPrefix
<1> HIDE DEF copy
<1>4. /\ messages' \in [Conversations -> Seq(Context!Message)]
      /\ Context!In(messages'[d]) = Context!In(copy)
      /\ \A e \in Conversations \ {d} : Context!In(messages'[e]) = Context!In(messages[e])
  BY <1>1, <1>2, <1>3
<1>5. Context!StoredMessages' = Context!StoredMessages
  <2>1. Context!In(messages[d]) = {}
    BY <1>1, InEmpty
  <2>2. \A e \in Conversations : \A m \in Context!In(messages'[e]) : m \in Context!StoredMessages
    BY <1>2, <1>3, <1>4, Membership
  <2>3. \A e \in Conversations : \A m \in Context!In(messages[e]) : m \in Context!StoredMessages'
    BY <1>4, <2>1, Membership
  <2>4. \A m : (m \in Context!StoredMessages') <=> (m \in Context!StoredMessages)
    BY <1>2, <1>4, <2>2, <2>3, Membership
  <2> QED BY <2>4
<1>6. \A m \in Context!In(copy) : m.id \in branched' /\ m.id \in sent
  BY <1>1, <1>2, <1>3, Membership DEF ContextIInv, Sharing, IdsSent
<1>7. Context!TypeOK'
  BY <1>1, <1>4, <1>6, Membership DEF ContextIInv, Context!TypeOK
<1>8. IdsSent' /\ RefsCaptured' /\ RefsDisjoint' /\ ItemsAreMessages' /\ EditedAreGone'
  BY <1>1, <1>5 DEF ContextIInv, Sharing, IdsSent, RefsCaptured, RefsDisjoint, ItemsAreMessages,
                    EditedAreGone, Context!RefsOf
<1>9. branched \subseteq branched'
  BY <1>1
<1>10. ItemsAreHome'
  <2> SUFFICES ASSUME NEW i \in items, NEW e \in Conversations, NEW m \in Context!In(messages'[e]),
                      m.id = i.id, i.id \notin branched'
               PROVE  i.conv = e
    BY <1>1 DEF ItemsAreHome
  <2>1. m \notin Context!In(copy)
    BY <1>6
  <2> QED BY <1>4, <1>9, <2>1 DEF ContextIInv, Sharing, ItemsAreHome
<1>11. OneHome'
  <2> SUFFICES ASSUME NEW e \in Conversations, NEW g \in Conversations,
                      NEW m \in Context!In(messages'[e]), NEW n \in Context!In(messages'[g]),
                      m.id = n.id, e # g, m.id \notin branched'
               PROVE  FALSE
    BY DEF OneHome
  <2>1. m \notin Context!In(copy) /\ n \notin Context!In(copy)
    BY <1>6
  <2> QED BY <1>4, <1>9, <2>1 DEF ContextIInv, Sharing, OneHome
<1>12. ReadsLive' /\ Context!ReferencesResolve' /\ Context!NothingLeaks'
  BY <1>1, <1>5, <1>9 DEF ContextIInv, ReadsLive, Context!ReferencesResolve, Context!LedgerResolves,
                          Context!OwnContextResolves, Context!NothingLeaks, Context!RefsOf
<1> QED BY <1>7, <1>8, <1>10, <1>11, <1>12 DEF ContextIInv, Sharing

\* Starting and ending a run changes the status of items and moves what was read.
LEMMA ItemsKept ==
  ASSUME ContextIInv,
         items' \subseteq Context!QueueItem,
         \A i \in items' : \E j \in items : i.id = j.id /\ i.refs = j.refs /\ i.conv = j.conv,
         UNCHANGED <<messages, sent, read, captured, edited, branched>>,
         files' \subseteq files
  PROVE  Context!StoredMessages' = Context!StoredMessages /\ Sharing'
<1>1. Context!StoredMessages' = Context!StoredMessages
  BY DEF Context!StoredMessages
<1>2. IdsSent' /\ RefsCaptured'
  BY <1>1 DEF ContextIInv, Sharing, IdsSent, RefsCaptured, Context!Ids, Context!RefsOf
<1>3. RefsDisjoint' /\ OneHome'
  BY <1>1 DEF ContextIInv, Sharing, RefsDisjoint, OneHome
<1>4. EditedAreGone'
  BY <1>1 DEF ContextIInv, Sharing, EditedAreGone
<1>5. ItemsAreMessages'
  BY <1>1 DEF ContextIInv, Sharing, ItemsAreMessages
<1>6. ItemsAreHome'
  BY DEF ContextIInv, Sharing, ItemsAreHome
<1> QED BY <1>1, <1>2, <1>3, <1>4, <1>5, <1>6 DEF Sharing

\* What is left of the invariant in a step that keeps every file.
LEMMA FilesKept ==
  ASSUME ContextIInv, Context!StoredMessages' = Context!StoredMessages, files' = files,
         \A c \in Conversations : reads'[c] \subseteq reads[c],
         \A s \in ledger' : s \in ledger \/ \E c \in Conversations : s \in reads[c],
         UNCHANGED <<read, edited, branched>>
  PROVE  ReadsLive' /\ Context!ReferencesResolve' /\ Context!NothingLeaks'
<1>1. ReadsLive'
  BY DEF ContextIInv, ReadsLive
<1>2. Context!LedgerResolves'
  BY DEF ContextIInv, ReadsLive, Context!ReferencesResolve, Context!LedgerResolves
<1>3. Context!OwnContextResolves'
  BY DEF ContextIInv, Context!ReferencesResolve, Context!OwnContextResolves
<1>4. Context!NothingLeaks'
  BY DEF ContextIInv, Context!NothingLeaks
<1> QED BY <1>1, <1>2, <1>3, <1>4 DEF Context!ReferencesResolve

LEMMA StartStep ==
  ASSUME ContextIInv, NEW i \in items, Context!startRun(i)
  PROVE  ContextIInv'
<1> DEFINE itm == [i EXCEPT !.status = "busy"]
<1>1. /\ items' = (items \ {i}) \union {itm}
      /\ UNCHANGED <<messages, files, ledger, reads, sent, read, captured, edited, branched>>
  BY DEF Context!startRun
<1>2. itm \in Context!QueueItem /\ itm.id = i.id /\ itm.refs = i.refs /\ itm.conv = i.conv
  BY DEF ContextIInv, Context!TypeOK, Context!QueueItem
<1> HIDE DEF itm
<1>3. Context!TypeOK'
  BY <1>1, <1>2 DEF ContextIInv, Context!TypeOK
<1>4. Context!StoredMessages' = Context!StoredMessages /\ Sharing'
  BY <1>1, <1>2, <1>3, ItemsKept DEF Context!TypeOK
<1>5. ReadsLive' /\ Context!ReferencesResolve' /\ Context!NothingLeaks'
  BY <1>1, <1>4, FilesKept
<1> QED BY <1>3, <1>4, <1>5 DEF ContextIInv

LEMMA ReadFileStep ==
  ASSUME ContextIInv, NEW i \in items, NEW s \in Snapshots, Context!readFile(i, s)
  PROVE  ContextIInv'
<1>1. /\ s \notin captured
      /\ files' = files \union {s}
      /\ captured' = captured \union {s} /\ read' = read \union {s}
      /\ reads' = [reads EXCEPT ![i.conv] = reads[i.conv] \union {s}]
      /\ UNCHANGED <<messages, items, ledger, sent, edited, branched>>
  BY DEF Context!readFile
<1>2. Context!StoredMessages' = Context!StoredMessages
  BY <1>1 DEF Context!StoredMessages
<1>3. i.conv \in Conversations /\ reads \in [Conversations -> SUBSET read]
  BY DEF ContextIInv, Context!TypeOK, Context!QueueItem
<1>4. Context!TypeOK'
  BY <1>1, <1>3 DEF ContextIInv, Context!TypeOK
<1>5. IdsSent' /\ RefsDisjoint' /\ ItemsAreMessages' /\ ItemsAreHome' /\ OneHome'
  BY <1>1, <1>2 DEF ContextIInv, Sharing, IdsSent, RefsDisjoint, ItemsAreMessages, ItemsAreHome, OneHome
<1>6. \A m \in Context!StoredMessages : s \notin m.refs
  BY <1>1, Membership DEF ContextIInv, Sharing, RefsCaptured
<1>7. RefsCaptured'
  BY <1>1, <1>2 DEF ContextIInv, Sharing, RefsCaptured, Context!RefsOf
<1>8. EditedAreGone'
  BY <1>1, <1>2, <1>6 DEF ContextIInv, Sharing, EditedAreGone
<1>9. ReadsLive' /\ Context!ReferencesResolve' /\ Context!NothingLeaks'
  <2>1. ReadsLive'
    BY <1>1, <1>3 DEF ContextIInv, ReadsLive
  <2>2. Context!ReferencesResolve'
    BY <1>1, <1>2 DEF ContextIInv, Context!ReferencesResolve, Context!LedgerResolves, Context!OwnContextResolves
  <2>3. Context!NothingLeaks'
    BY <1>1, <1>2 DEF ContextIInv, Context!NothingLeaks
  <2> QED BY <2>1, <2>2, <2>3
<1> QED BY <1>4, <1>5, <1>7, <1>8, <1>9 DEF ContextIInv, Sharing

LEMMA CompleteStep ==
  ASSUME ContextIInv, NEW i \in items, Context!runCompletes(i)
  PROVE  ContextIInv'
<1>1. /\ ledger' = ledger \union reads[i.conv]
      /\ reads' = [reads EXCEPT ![i.conv] = {}]
      /\ UNCHANGED <<messages, files, sent, read, captured, edited, branched>>
  BY DEF Context!runCompletes
<1>2. PICK old \in SUBSET {j \in items : j.conv = i.conv /\ j.status = "over"} :
        items' = (items \ (old \union {i})) \union {Context!Over(i)}
  BY DEF Context!runCompletes
<1>3. i.conv \in Conversations /\ reads \in [Conversations -> SUBSET read]
  BY DEF ContextIInv, Context!TypeOK, Context!QueueItem
<1>4. /\ Context!Over(i) \in Context!QueueItem
      /\ Context!Over(i).id = i.id /\ Context!Over(i).refs = i.refs /\ Context!Over(i).conv = i.conv
  BY DEF ContextIInv, Context!TypeOK, Context!QueueItem, Context!Over
<1>5. Context!TypeOK'
  BY <1>1, <1>2, <1>3, <1>4 DEF ContextIInv, Context!TypeOK
<1>6. \A x \in items' : \E j \in items : x.id = j.id /\ x.refs = j.refs /\ x.conv = j.conv
  BY <1>2, <1>4
<1>7. Context!StoredMessages' = Context!StoredMessages /\ Sharing'
  BY <1>1, <1>5, <1>6, ItemsKept DEF Context!TypeOK
<1>8. ReadsLive' /\ Context!ReferencesResolve' /\ Context!NothingLeaks'
  <2>1. \A c \in Conversations : reads'[c] \subseteq reads[c]
    BY <1>1, <1>3
  <2> QED BY <1>1, <1>3, <1>7, <2>1, FilesKept
<1> QED BY <1>5, <1>7, <1>8 DEF ContextIInv

LEMMA FailStep ==
  ASSUME ContextIInv, NEW i \in items, Context!runFails(i)
  PROVE  ContextIInv'
<1>1. /\ reads' = [reads EXCEPT ![i.conv] = {}]
      /\ items' = (items \ {i}) \union {Context!Over(i)}
      /\ UNCHANGED <<messages, files, ledger, sent, read, captured, edited, branched>>
  BY DEF Context!runFails
<1>2. i.conv \in Conversations /\ reads \in [Conversations -> SUBSET read]
  BY DEF ContextIInv, Context!TypeOK, Context!QueueItem
<1>3. /\ Context!Over(i) \in Context!QueueItem
      /\ Context!Over(i).id = i.id /\ Context!Over(i).refs = i.refs /\ Context!Over(i).conv = i.conv
  BY DEF ContextIInv, Context!TypeOK, Context!QueueItem, Context!Over
<1>4. Context!TypeOK'
  BY <1>1, <1>2, <1>3 DEF ContextIInv, Context!TypeOK
<1>5. \A x \in items' : \E j \in items : x.id = j.id /\ x.refs = j.refs /\ x.conv = j.conv
  BY <1>1, <1>3
<1>6. Context!StoredMessages' = Context!StoredMessages /\ Sharing'
  BY <1>1, <1>4, <1>5, ItemsKept DEF Context!TypeOK
<1>7. ReadsLive' /\ Context!ReferencesResolve' /\ Context!NothingLeaks'
  <2>1. \A c \in Conversations : reads'[c] \subseteq reads[c]
    BY <1>1, <1>2
  <2> QED BY <1>1, <1>2, <1>6, <2>1, FilesKept
<1> QED BY <1>4, <1>6, <1>7 DEF ContextIInv

LEMMA ContextRestartStep ==
  ASSUME ContextIInv, Context!Restart
  PROVE  ContextIInv'
<1> DEFINE resumed(i) == IF i.status = "busy" THEN [i EXCEPT !.status = "open"] ELSE i
<1>1. /\ files' = files \intersect (Context!RefsOf(Context!StoredMessages) \union Context!RefsOf(items) \union ledger)
      /\ items' = {resumed(i) : i \in items}
      /\ reads' = [c \in Conversations |-> {}]
      /\ UNCHANGED <<messages, ledger, sent, read, captured, edited, branched>>
  BY DEF Context!Restart, Context!sweepOrphanedSnapshots
<1>2. \A i \in items : /\ resumed(i) \in Context!QueueItem /\ resumed(i).id = i.id
                       /\ resumed(i).refs = i.refs /\ resumed(i).conv = i.conv
  BY DEF ContextIInv, Context!TypeOK, Context!QueueItem
<1> HIDE DEF resumed
<1>3. Context!TypeOK'
  BY <1>1, <1>2 DEF ContextIInv, Context!TypeOK
<1>4. Context!StoredMessages' = Context!StoredMessages /\ Sharing'
  <2>1. \A x \in items' : \E j \in items : x.id = j.id /\ x.refs = j.refs /\ x.conv = j.conv
    BY <1>1, <1>2
  <2>2. files' \subseteq files
    BY <1>1
  <2> QED BY <1>1, <1>3, <2>1, <2>2, ItemsKept DEF Context!TypeOK
<1>5. ReadsLive'
  BY <1>1 DEF ReadsLive
<1>6. Context!LedgerResolves'
  BY <1>1 DEF ContextIInv, Context!ReferencesResolve, Context!LedgerResolves
<1>7. Context!OwnContextResolves'
  BY <1>1, <1>4 DEF ContextIInv, Context!ReferencesResolve, Context!OwnContextResolves, Context!RefsOf
<1>8. Context!NothingLeaks'
  BY <1>1, <1>4 DEF ContextIInv, Context!NothingLeaks
<1> QED BY <1>3, <1>4, <1>5, <1>6, <1>7, <1>8 DEF ContextIInv, Context!ReferencesResolve

LEMMA ContextNextIInv ==
  ASSUME ContextIInv, [Context!Next]_(Context!vars)
  PROVE  ContextIInv'
<1>1. CASE UNCHANGED Context!vars
  <2>1. UNCHANGED <<messages, items, files, ledger, reads, sent, read, captured, edited, branched>>
    BY <1>1 DEF Context!vars
  <2>2. Context!TypeOK'
    BY <2>1 DEF ContextIInv, Context!TypeOK
  <2>3. Context!StoredMessages' = Context!StoredMessages /\ Sharing'
    BY <2>1, <2>2, ItemsKept DEF Context!TypeOK
  <2>4. ReadsLive' /\ Context!ReferencesResolve' /\ Context!NothingLeaks'
    BY <2>1, <2>3, FilesKept
  <2> QED BY <2>2, <2>3, <2>4 DEF ContextIInv
<1>2. \A i \in items : i.conv \in Conversations
  BY DEF ContextIInv, Context!TypeOK, Context!QueueItem
<1>3. ASSUME NEW c \in Conversations, NEW m \in Messages, NEW refs \in SUBSET Snapshots,
             Context!send(c, m, refs)
      PROVE  ContextIInv'
  BY <1>3, SendStep
<1>4. ASSUME NEW i \in items, Context!editItem(i) PROVE ContextIInv'
  BY <1>4, EditStep
<1>5. ASSUME NEW i \in items, Context!removeItem(i) PROVE ContextIInv'
  BY <1>2, <1>5, ContextRemoveStep DEF Context!removeItem
<1>6. ASSUME NEW c \in Conversations, Context!clearQueue(c) PROVE ContextIInv'
  <2> DEFINE gone == {i \in items : i.conv = c /\ i.status # "busy"}
  <2>1. Context!Remove(c, gone) /\ gone \in SUBSET items /\ \A i \in gone : i.conv = c
    BY <1>6 DEF Context!clearQueue
  <2> HIDE DEF gone
  <2> QED BY <2>1, ContextRemoveStep
<1>7. ASSUME NEW c \in Conversations, Context!deleteConversation(c) PROVE ContextIInv'
  BY <1>7, DeleteStep
<1>8. ASSUME NEW c \in Conversations, NEW d \in Conversations, NEW k,
             Context!branchConversation(c, k, d)
      PROVE  ContextIInv'
  BY <1>8, BranchStep
<1>9. ASSUME NEW i \in items, Context!startRun(i) PROVE ContextIInv'
  BY <1>9, StartStep
<1>10. ASSUME NEW i \in items, NEW s \in Snapshots, Context!readFile(i, s) PROVE ContextIInv'
  BY <1>10, ReadFileStep
<1>11. ASSUME NEW i \in items, Context!runCompletes(i) PROVE ContextIInv'
  BY <1>11, CompleteStep
<1>12. ASSUME NEW i \in items, Context!runFails(i) PROVE ContextIInv'
  BY <1>12, FailStep
<1>13. CASE Context!Restart
  BY <1>13, ContextRestartStep
<1> QED BY <1>1, <1>3, <1>4, <1>5, <1>6, <1>7, <1>8, <1>9, <1>10, <1>11, <1>12, <1>13 DEF Context!Next

-----------------------------------------------------------------------------
(* Theorems.                                                               *)

\* Sharing of ids and references goes no further than the invariant says, whatever is
\* sent, edited, removed, branched, deleted or swept.
THEOREM ContextInvariant == Context!Spec => []ContextIInv
BY ContextInitIInv, ContextNextIInv, PTL DEF Context!Spec

\* The stored messages, items, files and ledgers have their types.
THEOREM ContextTypeCorrect == Context!Spec => []Context!TypeOK
<1>1. ContextIInv => Context!TypeOK
  BY DEF ContextIInv
<1> QED BY <1>1, ContextInvariant, PTL

\* What ContextSnapshots takes from ContextReferences is what ContextReferences says.
LEMMA SamePromises ==
  /\ Context!ReferencesResolve => ReferencesResolve
  /\ Context!NothingLeaks => NothingLeaks
BY DEF Context!ReferencesResolve, Context!LedgerResolves, Context!OwnContextResolves,
       Context!NothingLeaks, Context!StoredMessages, Context!RefsOf, Context!In,
       ReferencesResolve, LedgerResolves, OwnContextResolves, NothingLeaks, StoredMessages,
       RefsOf, In

\* What an answered request has read stays on disk for good, and a message that was
\* neither edited nor branched keeps the files of its context: clean-up on behalf of
\* one message never takes a file another message of its own still needs.
THEOREM NeededFilesStay == Context!Spec => []ReferencesResolve
<1>1. ContextIInv => ReferencesResolve
  BY SamePromises DEF ContextIInv
<1> QED BY <1>1, ContextInvariant, PTL

\* No file of a context outlives the last message that refers to it.
THEOREM NoFileLeaks == Context!Spec => []NothingLeaks
<1>1. ContextIInv => NothingLeaks
  BY SamePromises DEF ContextIInv
<1> QED BY <1>1, ContextInvariant, PTL
=============================================================================
