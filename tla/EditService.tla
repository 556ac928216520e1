----------------------------- MODULE EditService -----------------------------
(***************************************************************************)
(* Applying an edit proposal to the files of a project and undoing it:     *)
(* the handlers of src/main/ipc/handlers.ts over                           *)
(* src/main/project-files/edit-service.ts.                                 *)
(*                                                                         *)
(* A handler runs without a break once its question is answered, and while *)
(* it asks, its dialog covers the window; so no two handlers meet, and the *)
(* lock of a file is never found taken.  The program may be killed between *)
(* any two writes to the disk, and any of them may fail.                   *)
(*                                                                         *)
(* Abstracted: hashes are the contents they are of; the resources of the   *)
(* proposal stay as they were captured; the user's own writes come between *)
(* handlers, not within one.                                               *)
(***************************************************************************)
EXTENDS EditProposal, SequencesExt

CONSTANTS Answers,       \* answers of the model that may come
          UserTexts,     \* contents the user writes
          Initial,       \* contents of the files at first, a function of Paths
          Ids,           \* bound: appliedEditIds ever used
          Faults,        \* what fails: "backup", "write", "verify"
          MaxMishaps,    \* bound: failures and kills in all
          MaxUserWrites  \* bound: writes by the user

\* A file edit of a proposal.
EditRecord == [path : Paths, target : Text, status : FileEditStatus, base : Text]

ASSUME EditAssumption == /\ \A answer \in Answers : fileEdits(answer) \in Seq(EditRecord)
                         /\ UserTexts \subseteq Text
                         /\ Faults \subseteq {"backup", "write", "verify"}
                         /\ MaxMishaps \in Nat
                         /\ MaxUserWrites \in Nat
                         /\ Initial \in [Paths -> Text]

VARIABLES disk,      \* the files of the project
          temps,     \* paths with a temporary file beside them
          journal,   \* paths whose temporary file is in the write journal
          backups,   \* text by appliedEditId
          history,   \* editHistory of the store, by appliedEditId
          proposal,  \* its status and its file edits
          handler,   \* the handler that runs, what it has still to do, and (history)
                     \* the disk as it found it
          written,   \* history: what the user wrote last
          mishaps,   \* failures and kills so far
          userWrites \* writes by the user so far

store == <<backups, history, proposal>>
project == <<disk, temps, journal>>
counters == <<mishaps, userWrites>>
vars == <<project, store, handler, written, counters>>

-----------------------------------------------------------------------------
(* Types *)

AppliedEdit(edit, path, backup, applied) ==
  [edit |-> edit, path |-> path, backup |-> backup, applied |-> applied, undone |-> FALSE]

Idle == [name |-> "idle", step |-> "begin", selected |-> <<>>, todo |-> <<>>, done |-> <<>>,
         id |-> "none", path |-> "none", content |-> <<>>, firstError |-> FALSE,
         before |-> <<>>]

Steps == {"begin", "ready to write", "journaled", "written", "renamed", "verified",
          "unlinking", "failed", "undone", "end"}

TypeOK == /\ disk \in [Paths -> Text]
          /\ temps \subseteq Paths
          /\ journal \subseteq Paths
          /\ DOMAIN backups \subseteq Ids
          /\ DOMAIN history \subseteq Ids
          /\ proposal.status \in EditProposalStatus
          /\ \A i \in DOMAIN proposal.fileEdits : proposal.fileEdits[i].status \in FileEditStatus
          /\ handler.name \in {"idle", "asking", "apply", "rollback", "undo"}
          /\ handler.step \in Steps
          /\ written \in [Paths -> Text]
          /\ mishaps \in 0..MaxMishaps
          /\ userWrites \in 0..MaxUserWrites

Init == /\ disk = Initial
        /\ temps = {}
        /\ journal = {}
        /\ backups = <<>>
        /\ history = <<>>
        /\ proposal = [status |-> "draft", fileEdits |-> <<>>]
        /\ handler = Idle
        /\ written = Initial
        /\ mishaps = 0
        /\ userWrites = 0

-----------------------------------------------------------------------------
(* Helpers *)

idle == handler.name = "idle"

FE(e) == proposal.fileEdits[e]

\* A map with one more entry.
With(map, id, value) ==
  [key \in DOMAIN map \union {id} |-> IF key = id THEN value ELSE map[key]]

isAt(names, step) == handler.name \in names /\ handler.step = step

goTo(step) == handler' = [handler EXCEPT !.step = step]

updateProposal(edits) ==
  proposal' = [status |-> computeProposalStatus(edits), fileEdits |-> edits]

\* The file edits at the indexes e are given a status.
withStatus(e, status) == [i \in DOMAIN proposal.fileEdits |->
                            IF i \in e THEN [proposal.fileEdits[i] EXCEPT !.status = status]
                                       ELSE proposal.fileEdits[i]]

fails(fault) == fault \in Faults /\ mishaps < MaxMishaps /\ mishaps' = mishaps + 1

-----------------------------------------------------------------------------
(* The proposal *)

\* The queue saves the proposal of an answer with its file edits.
saveProposal ==
  /\ proposal.status = "draft"
  /\ idle
  /\ \E answer \in Answers :
       /\ fileEdits(answer) # <<>>
       /\ updateProposal(fileEdits(answer))
  /\ UNCHANGED <<project, backups, history, handler, written, counters>>

\* Rejecting the whole leaves the status of its file edits.
rejectProposal ==
  /\ idle
  /\ proposal.status # "draft"
  /\ \/ proposal' = [proposal EXCEPT !.status = "rejected"]
     \/ \E e \in DOMAIN proposal.fileEdits : updateProposal(withStatus({e}, "rejected"))
  /\ UNCHANGED <<project, backups, history, handler, written, counters>>

-----------------------------------------------------------------------------
(* Apply *)

\* Fault: the file is not compared with the base of the edit.
preflightFileEdits_NoBase(selected) ==
  \A i \in DOMAIN selected : FE(selected[i]).status = "ready"

preflightFileEdits(selected) ==
  \A i \in DOMAIN selected : /\ FE(selected[i]).status = "ready"
                             /\ disk[FE(selected[i]).path] = FE(selected[i]).base

begin(selected) ==
  handler' = IF preflightFileEdits(selected)
               THEN [Idle EXCEPT !.name = "apply", !.selected = selected, !.todo = selected,
                                 !.before = disk]
               ELSE Idle

\* project.modify is denied, asked for, or allowed.
applySelected(selected) ==
  /\ idle
  /\ \/ handler' = [Idle EXCEPT !.name = "asking", !.selected = selected]
     \/ begin(selected)
  /\ UNCHANGED <<project, store, written, counters>>

approve == /\ handler.name = "asking"
           /\ begin(handler.selected)
           /\ UNCHANGED <<project, store, written, counters>>

deny == /\ handler.name = "asking"
        /\ handler' = Idle
        /\ UNCHANGED <<project, store, written, counters>>

createBackupSnapshot ==
  /\ isAt({"apply"}, "begin")
  /\ handler.todo # <<>>
  /\ LET fe == FE(Head(handler.todo))
     IN  \/ \E id \in Ids \ DOMAIN backups :
              /\ \A other \in Ids \ DOMAIN backups : id <= other
              /\ backups' = With(backups, id, disk[fe.path])
              /\ handler' = [handler EXCEPT !.id = id, !.path = fe.path, !.content = fe.target,
                                            !.step = "ready to write"]
              /\ UNCHANGED mishaps
         \/ /\ fails("backup")
            /\ handler' = [handler EXCEPT !.firstError = TRUE, !.todo = <<>>]
            /\ UNCHANGED backups
  /\ UNCHANGED <<project, history, proposal, written, userWrites>>

\* Fault: the backup is not kept once the file is written.
saveAppliedEdit_DropsBackup ==
  /\ isAt({"apply"}, "verified")
  /\ history' = With(history, handler.id, AppliedEdit(Head(handler.todo), handler.path,
                                                      backups[handler.id], handler.content))
  /\ backups' = [id \in DOMAIN backups \ {handler.id} |-> backups[id]]
  /\ handler' = [handler EXCEPT !.done = Append(@, handler.id), !.todo = Tail(@),
                                !.step = "begin"]
  /\ UNCHANGED <<project, proposal, written, counters>>

\* Writing failed: its backup goes with it.
discardBackup ==
  /\ isAt({"apply"}, "failed")
  /\ backups' = [id \in DOMAIN backups \ {handler.id} |-> backups[id]]
  /\ handler' = [handler EXCEPT !.firstError = TRUE, !.todo = <<>>, !.step = "begin"]
  /\ UNCHANGED <<project, history, proposal, written, counters>>

saveAppliedEdit ==
  /\ isAt({"apply"}, "verified")
  /\ history' = With(history, handler.id, AppliedEdit(Head(handler.todo), handler.path,
                                                      backups[handler.id], handler.content))
  /\ handler' = [handler EXCEPT !.done = Append(@, handler.id), !.todo = Tail(@),
                                !.step = "begin"]
  /\ UNCHANGED <<project, backups, proposal, written, counters>>

\* Fault: what was written before an error stays.
endOfLoop_NoRollback ==
  /\ isAt({"apply"}, "begin")
  /\ handler.todo = <<>>
  /\ handler' = IF handler.firstError
                  THEN [handler EXCEPT !.name = "rollback", !.step = "end"]
                  ELSE [handler EXCEPT !.step = "end"]
  /\ UNCHANGED <<project, store, written, counters>>

\* The loop is over: what was written before an error is restored, in the same order.
endOfLoop ==
  /\ isAt({"apply"}, "begin")
  /\ handler.todo = <<>>
  /\ handler' = IF handler.firstError
                  THEN [handler EXCEPT !.name = "rollback", !.todo = handler.done]
                  ELSE [handler EXCEPT !.step = "end"]
  /\ UNCHANGED <<project, store, written, counters>>

endApply ==
  /\ isAt({"apply", "rollback"}, "end")
  /\ updateProposal(
       IF handler.firstError
         THEN withStatus(ToSet(handler.selected), "failed")
         ELSE withStatus({history[id].edit : id \in ToSet(handler.done)}, "applied"))
  /\ handler' = Idle
  /\ UNCHANGED <<project, backups, history, written, counters>>

-----------------------------------------------------------------------------
(* writeFileAtomicWithProject *)

Writers == {"apply", "rollback", "undo"}

addWriteJournalEntry ==
  /\ isAt(Writers, "ready to write")
  /\ journal' = journal \union {handler.path}
  /\ goTo("journaled")
  /\ UNCHANGED <<disk, temps, store, written, counters>>

writeTemp == /\ isAt(Writers, "journaled")
             /\ temps' = temps \union {handler.path}
             /\ goTo("written")
             /\ UNCHANGED <<disk, journal, store, written, counters>>

renameTemp == /\ isAt(Writers, "written")
              /\ disk' = [disk EXCEPT ![handler.path] = handler.content]
              /\ temps' = temps \ {handler.path}
              /\ goTo("renamed")
              /\ UNCHANGED <<journal, store, written, counters>>

removeWriteJournalEntry ==
  /\ isAt(Writers, "renamed")
  /\ journal' = journal \ {handler.path}
  /\ \/ goTo("verified") /\ UNCHANGED mishaps
     \/ goTo("failed") /\ fails("verify")
  /\ UNCHANGED <<disk, temps, store, written, userWrites>>

\* An error of the write or of the rename takes the entry away before the file.
writeFails == /\ \E step \in {"journaled", "written"} : isAt(Writers, step)
              /\ fails("write")
              /\ journal' = journal \ {handler.path}
              /\ temps' \in {temps, temps \union {handler.path}}
              /\ goTo("unlinking")
              /\ UNCHANGED <<disk, store, written, userWrites>>

unlinkTemp == /\ isAt(Writers, "unlinking")
              /\ temps' = temps \ {handler.path}
              /\ goTo("failed")
              /\ UNCHANGED <<disk, journal, store, written, counters>>

-----------------------------------------------------------------------------
(* restoreFromBackup *)

\* The file is as Apply left it, and its backup is there.
mayRestore(id) == disk[history[id].path] = history[id].applied /\ id \in DOMAIN backups

restoring(id) == [handler EXCEPT !.id = id, !.path = history[id].path,
                                 !.content = history[id].backup, !.step = "ready to write"]

rollbackNext ==
  /\ isAt({"rollback"}, "begin")
  /\ handler' = CASE handler.todo = <<>>           -> [handler EXCEPT !.step = "end"]
                  [] handler.todo # <<>> /\ mayRestore(Head(handler.todo))
                                                   -> restoring(Head(handler.todo))
                  [] OTHER                         -> [handler EXCEPT !.todo = Tail(@)]
  /\ UNCHANGED <<project, store, written, counters>>

rollbackFailed ==
  /\ isAt({"rollback"}, "failed")
  /\ handler' = [handler EXCEPT !.todo = Tail(@), !.step = "begin"]
  /\ UNCHANGED <<project, store, written, counters>>

\* undoneAt is set.
updateAppliedEdit ==
  /\ isAt({"rollback", "undo"}, "verified")
  /\ history' = [history EXCEPT ![handler.id].undone = TRUE]
  /\ handler' = IF handler.name = "undo"
                  THEN [handler EXCEPT !.step = "undone"]
                  ELSE [handler EXCEPT !.todo = Tail(@), !.step = "begin"]
  /\ UNCHANGED <<project, backups, proposal, written, counters>>

-----------------------------------------------------------------------------
(* Undo *)

undoApply == /\ idle
             /\ \E id \in DOMAIN history :
                  /\ ~history[id].undone
                  /\ mayRestore(id)
                  /\ handler' = [restoring(id) EXCEPT !.name = "undo", !.before = disk]
             /\ UNCHANGED <<project, store, written, counters>>

undoFailed == /\ isAt({"undo"}, "failed")
              /\ handler' = Idle
              /\ UNCHANGED <<project, store, written, counters>>

endUndo == /\ isAt({"undo"}, "undone")
           /\ updateProposal(withStatus({history[handler.id].edit}, "stale"))
           /\ handler' = Idle
           /\ UNCHANGED <<project, backups, history, written, counters>>

-----------------------------------------------------------------------------
(* The world *)

\* Fault: the entries are dropped without their files, as for a project that is gone.
sweepWriteJournal_EntriesOnly == journal' = {} /\ UNCHANGED temps

sweepWriteJournal == journal' = {} /\ temps' = temps \ journal

\* The program is killed, and started again.
Restart == /\ mishaps < MaxMishaps
           /\ mishaps' = mishaps + 1
           /\ handler' = Idle
           /\ sweepWriteJournal
           /\ UNCHANGED <<disk, store, written, userWrites>>

userEdits ==
  /\ handler.name \in {"idle", "asking"}
  /\ userWrites < MaxUserWrites
  /\ userWrites' = userWrites + 1
  /\ \E p \in Paths : \E text \in UserTexts \ {disk[p]} :
       disk' = [disk EXCEPT ![p] = text] /\ written' = [written EXCEPT ![p] = text]
  /\ UNCHANGED <<temps, journal, store, handler, mishaps>>

=============================================================================
