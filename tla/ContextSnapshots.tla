-------------------------- MODULE ContextSnapshots --------------------------
(***************************************************************************)
(* The life of the file snapshots a request takes its project context      *)
(* from: captureSnapshot of src/main/project-files/service.ts, the send,   *)
(* branch and delete handlers of src/main/ipc/handlers.ts, the clean-up    *)
(* functions and queue operations of src/main/queue/QueueManager.ts and    *)
(* branchConversation of src/main/database/db.ts.                          *)
(*                                                                         *)
(* A snapshot is a file in the data directory, named by a fresh id.        *)
(* Messages, queue items and request ledgers refer to it by that id.       *)
(*                                                                         *)
(* Abstracted: the content and hash of a snapshot, messages without        *)
(* references (answers, errors), and the order and pausing of the queue,   *)
(* which ConversationQueue models: here any open item may be started.      *)
(***************************************************************************)
EXTENDS Naturals, Sequences, FiniteSets, ContextReferences

CONSTANTS Conversations,  \* conversation ids
          Messages,       \* bound: ids for user messages
          Snapshots       \* bound: ids for captured files

vars == <<messages, items, files, ledger, reads, sent, read, captured, edited, branched>>

Message   == [id : Messages, refs : SUBSET Snapshots]
QueueItem == [conv : Conversations, id : Messages, refs : SUBSET Snapshots,
              status : {"open", "busy", "over"}]

TypeOK == /\ messages \in [Conversations -> Seq(Message)]
          /\ items \subseteq QueueItem
          /\ files \subseteq captured
          /\ ledger \subseteq read
          /\ reads \in [Conversations -> SUBSET read]
          /\ sent \subseteq Messages
          /\ read \subseteq captured
          /\ captured \subseteq Snapshots
          /\ edited \subseteq sent
          /\ branched \subseteq sent

-----------------------------------------------------------------------------
(* Sequences without some of their elements, and the files no one refers to *)

\* The elements of seq at the positions K, in order: SelectSeq, without recursion.
UpTo(K, n) == {k \in K : k <= n}

At(seq, K) ==
  [n \in 1..Cardinality(K) |-> seq[CHOOSE k \in K : Cardinality(UpTo(K, k)) = n]]

Positions(seq, ids) == {k \in DOMAIN seq : seq[k].id \in ids}

Without(seq, ids) == At(seq, DOMAIN seq \ Positions(seq, ids))

Ids(set) == {x.id : x \in set}

\* The files left once "refs" are given up.  Messages are excluded by id, and a
\* branch keeps the ids of the messages it copies.
deleteOrphanedSnapshots(refs, exclude) ==
  files \ (refs \ (RefsOf({m \in StoredMessages : m.id \notin exclude}) \union ledger))

\* Fault: the references of ledgers are forgotten.
sweepOrphanedSnapshots_NoLedger == files \intersect (RefsOf(StoredMessages) \union RefsOf(items))

sweepOrphanedSnapshots ==
  files \intersect (RefsOf(StoredMessages) \union RefsOf(items) \union ledger)

-----------------------------------------------------------------------------
(* The user *)

\* CHAT_SEND captures, then stores message and item with the same references;
\* a send that fails deletes what it captured and leaves no trace.
send(c, m, refs) ==
  /\ m \notin sent
  /\ refs \intersect captured = {}
  /\ messages' = [messages EXCEPT ![c] = Append(@, [id |-> m, refs |-> refs])]
  /\ items' = items \union {[conv |-> c, id |-> m, refs |-> refs, status |-> "open"]}
  /\ files' = files \union refs
  /\ captured' = captured \union refs
  /\ sent' = sent \union {m}
  /\ UNCHANGED <<ledger, reads, read, edited, branched>>

\* The item gives its references up, their files go; the message moves to the
\* end of the conversation with its new content and its old references.
editItem(i) ==
  LET seq    == messages[i.conv]
      mine   == At(seq, Positions(seq, {i.id}))
      others == Without(seq, {i.id})
  IN  /\ i.status # "busy"
      /\ files' = deleteOrphanedSnapshots(i.refs, {i.id})
      /\ items' = (items \ {i}) \union {[i EXCEPT !.refs = {}]}
      /\ messages' = [messages EXCEPT ![i.conv] = others \o mine]
      /\ edited' = edited \union {i.id}
      /\ UNCHANGED <<ledger, reads, sent, read, captured, branched>>

\* Fault: the files of removed items are left to the sweep at startup.
Remove_KeepFiles(c, gone) ==
  /\ items' = items \ gone
  /\ messages' = [messages EXCEPT ![c] = Without(@, Ids(gone))]
  /\ UNCHANGED <<files, ledger, reads, sent, read, captured, edited, branched>>

\* Items leave with their messages.
Remove(c, gone) ==
  /\ files' = deleteOrphanedSnapshots(RefsOf(gone), Ids(gone))
  /\ items' = items \ gone
  /\ messages' = [messages EXCEPT ![c] = Without(@, Ids(gone))]
  /\ UNCHANGED <<ledger, reads, sent, read, captured, edited, branched>>

removeItem(i) == i.status # "busy" /\ Remove(i.conv, {i})

clearQueue(c) == Remove(c, {i \in items : i.conv = c /\ i.status # "busy"})

\* CONV_DELETE: the live run is aborted, so what it has read is nobody's.
deleteConversation(c) ==
  LET mine == In(messages[c])
  IN  /\ files' = deleteOrphanedSnapshots(RefsOf(mine), Ids(mine))
      /\ messages' = [messages EXCEPT ![c] = <<>>]
      /\ items' = {i \in items : i.conv # c}
      /\ reads' = [reads EXCEPT ![c] = {}]
      /\ UNCHANGED <<ledger, sent, read, captured, edited, branched>>

\* A new conversation gets the messages up to the k-th, ids and references as
\* they are, and no queue items.
branchConversation(c, k, d) ==
  /\ k \in DOMAIN messages[c]
  /\ messages[d] = <<>> /\ {i \in items : i.conv = d} = {}
  /\ messages' = [messages EXCEPT ![d] = SubSeq(messages[c], 1, k)]
  /\ branched' = branched \union Ids(In(SubSeq(messages[c], 1, k)))
  /\ UNCHANGED <<items, files, ledger, reads, sent, read, captured, edited>>

-----------------------------------------------------------------------------
(* Runs *)

Busy(c) == {i \in items : i.conv = c /\ i.status = "busy"}

\* buildContextMessages reads the snapshots of every message of the
\* conversation and gives up on the first that is missing.
startRun(i) ==
  /\ i.status # "busy" /\ Busy(i.conv) = {}
  /\ RefsOf(In(messages[i.conv])) \subseteq files
  /\ items' = (items \ {i}) \union {[i EXCEPT !.status = "busy"]}
  /\ UNCHANGED <<messages, files, ledger, reads, sent, read, captured, edited, branched>>

\* read_file captures what it reads.
readFile(i, s) ==
  /\ i.status = "busy"
  /\ s \notin captured
  /\ files' = files \union {s}
  /\ captured' = captured \union {s} /\ read' = read \union {s}
  /\ reads' = [reads EXCEPT ![i.conv] = @ \union {s}]
  /\ UNCHANGED <<messages, items, ledger, sent, edited, branched>>

Over(i) == [i EXCEPT !.status = "over"]

\* The ledger is stored when the loop has returned, and old items are pruned.
runCompletes(i) ==
  /\ i.status = "busy"
  /\ ledger' = ledger \union reads[i.conv]
  /\ reads' = [reads EXCEPT ![i.conv] = {}]
  /\ \E old \in SUBSET {j \in items : j.conv = i.conv /\ j.status = "over"} :
       items' = (items \ (old \union {i})) \union {Over(i)}
  /\ UNCHANGED <<messages, files, sent, read, captured, edited, branched>>

\* A failed or cancelled run stores no ledger; its reads wait for the sweep.
runFails(i) ==
  /\ i.status = "busy"
  /\ reads' = [reads EXCEPT ![i.conv] = {}]
  /\ items' = (items \ {i}) \union {Over(i)}
  /\ UNCHANGED <<messages, files, ledger, sent, read, captured, edited, branched>>

\* The process ends and starts again: interrupted items are paused, then the
\* snapshot directory is swept.
Restart ==
  /\ files' = sweepOrphanedSnapshots
  /\ items' = {IF i.status = "busy" THEN [i EXCEPT !.status = "open"] ELSE i : i \in items}
  /\ reads' = [c \in Conversations |-> {}]
  /\ UNCHANGED <<messages, ledger, sent, read, captured, edited, branched>>

-----------------------------------------------------------------------------
Init == /\ messages = [c \in Conversations |-> <<>>]
        /\ items = {}
        /\ files = {} /\ ledger = {} /\ captured = {}
        /\ reads = [c \in Conversations |-> {}]
        /\ sent = {} /\ read = {} /\ edited = {} /\ branched = {}

Next ==
  \/ \E c \in Conversations, m \in Messages, refs \in SUBSET Snapshots : send(c, m, refs)
  \/ \E i \in items : editItem(i)
  \/ \E i \in items : removeItem(i)
  \/ \E c \in Conversations : clearQueue(c)
  \/ \E c \in Conversations : deleteConversation(c)
  \/ \E c, d \in Conversations, k \in 1..Cardinality(Messages) : branchConversation(c, k, d)
  \/ \E i \in items : startRun(i)
  \/ \E i \in items, s \in Snapshots : readFile(i, s)
  \/ \E i \in items : runCompletes(i)
  \/ \E i \in items : runFails(i)
  \/ Restart

Spec == Init /\ [][Next]_vars

=============================================================================
