------------------------- MODULE ContextReferences -------------------------
(***************************************************************************)
(* Who refers to the snapshot files of ContextSnapshots, and what it means *)
(* that a file is deleted neither too early nor too late.                  *)
(***************************************************************************)
VARIABLES messages,   \* per conversation: its user messages, in order
          items,      \* the stored queue items
          files,      \* the snapshot files on disk
          ledger,     \* snapshots in the agentReadRefs of stored ledgers
          reads,      \* snapshots the live run of a conversation has read
          sent,       \* history: message ids given out
          read,       \* history: snapshots captured by read_file
          captured,   \* history: snapshot ids given out
          edited,     \* history: messages whose item was edited
          branched    \* history: messages that were copied into a branch

-----------------------------------------------------------------------------
(* References *)

In(seq) == {seq[k] : k \in DOMAIN seq}

StoredMessages == UNION {In(messages[c]) : c \in DOMAIN messages}

RefsOf(set) == UNION {x.refs : x \in set}

-----------------------------------------------------------------------------
(* Properties *)

\* The base of a proposed edit is found through the ledger of its request: what
\* an answered request has read stays on disk for good, whatever is edited,
\* removed, deleted or swept, in its conversation or another.
LedgerResolves == ledger \subseteq files

\* A message that was neither edited nor copied into a branch keeps every
\* file of its context, so that no clean-up on behalf of another message, no
\* pruning and no restart makes a later request of its conversation fail.
OwnContextResolves ==
  \A m \in StoredMessages : m.id \notin edited \union branched => m.refs \subseteq files

\* Whoever may still ask for a file that is referred to finds it.
ReferencesResolve == LedgerResolves /\ OwnContextResolves

\* No file of a context outlives the last message that refers to it; between
\* two sweeps only what runs have read may pile up.
NothingLeaks == files \subseteq RefsOf(StoredMessages) \union read

=============================================================================
