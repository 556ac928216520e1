------------------------------ MODULE EditReview ------------------------------
(***************************************************************************)
(* The dialog in which the user reviews a proposal                         *)
(* (src/renderer/project/DiffReviewModal.tsx) over the handlers that apply *)
(* it (EditService).  Undoing an edit and rejecting a single one have      *)
(* handlers and no button: they may be called whenever none runs.          *)
(***************************************************************************)
EXTENDS EditService

VARIABLES open,        \* the dialog is on the screen
          selectedIds, \* file edits selected, in the order of their selection
          diffStates,  \* reviewability of each file edit that was opened
          applySuccess

dialog == <<open, selectedIds, diffStates, applySuccess>>
allVars == <<vars, dialog>>

Closed == open = FALSE /\ selectedIds = <<>> /\ diffStates = <<>> /\ applySuccess = FALSE

ReviewInit == Init /\ Closed

close == open' = FALSE /\ selectedIds' = <<>> /\ diffStates' = <<>> /\ applySuccess' = FALSE

edits == DOMAIN proposal.fileEdits

-----------------------------------------------------------------------------
(* The dialog *)

canSelectEdit(e) == FE(e).status = "ready"

isEffectivelySelectable(e) ==
  canSelectEdit(e) /\ (e \in DOMAIN diffStates => diffStates[e] = "reviewable")

selectedReady == {e \in ToSet(selectedIds) : isEffectivelySelectable(e)}

\* The ids of a sequence that are in a set, in their order: the set of the one such
\* sequence.
Keeping(ids, kept) ==
  LET stay == {k \in DOMAIN ids : ids[k] \in kept}
  IN  {[k \in 1..Cardinality(stay) |-> ids[at[k]]] :
         at \in {at \in [1..Cardinality(stay) -> stay] :
                  \A j, k \in DOMAIN at : j < k => at[j] < at[k]}}

\* Opened with everything selected that may be.
openReview == /\ ~open
              /\ edits # {}
              /\ open' = TRUE
              /\ selectedIds' \in Keeping([i \in edits |-> i], {e \in edits : canSelectEdit(e)})
              /\ UNCHANGED <<vars, diffStates, applySuccess>>

\* The file is shown.  If its base snapshot is gone, or was altered, it cannot be
\* reviewed and is deselected.
readProposalTarget ==
  /\ open
  /\ \E e \in edits \ DOMAIN diffStates :
       \/ diffStates' = diffStates @@ (e :> "reviewable") /\ UNCHANGED selectedIds
       \/ /\ diffStates' = diffStates @@ (e :> "review_error")
          /\ selectedIds' \in Keeping(selectedIds, edits \ {e})
  /\ UNCHANGED <<vars, open, applySuccess>>

handleToggleSelect ==
  /\ open
  /\ idle
  /\ \E e \in edits :
       /\ isEffectivelySelectable(e)
       /\ IF e \in ToSet(selectedIds) THEN selectedIds' \in Keeping(selectedIds, edits \ {e})
                                      ELSE selectedIds' = Append(selectedIds, e)
  /\ UNCHANGED <<vars, open, diffStates, applySuccess>>

handleApply == /\ open
               /\ ~applySuccess
               /\ selectedReady # {}
               /\ applySelected(selectedIds)
               /\ UNCHANGED dialog

handleRejectAll == /\ open
                   /\ idle
                   /\ proposal' = [proposal EXCEPT !.status = "rejected"]
                   /\ close
                   /\ UNCHANGED <<project, backups, history, handler, written, counters>>

closeReview == open /\ close /\ UNCHANGED vars

\* The answer of the handler reaches the dialog, if it is still there.
applied == /\ endApply
           /\ applySuccess' = (open /\ ~handler.firstError)
           /\ UNCHANGED <<open, selectedIds, diffStates>>

-----------------------------------------------------------------------------
(* Specification *)

propose == saveProposal /\ UNCHANGED dialog

restart == Restart /\ close

ServiceStep ==
  \/ rejectProposal \/ undoApply
  \/ approve \/ deny
  \/ createBackupSnapshot \/ discardBackup \/ saveAppliedEdit \/ endOfLoop
  \/ addWriteJournalEntry \/ writeTemp \/ renameTemp \/ removeWriteJournalEntry
  \/ writeFails \/ unlinkTemp
  \/ rollbackNext \/ rollbackFailed \/ updateAppliedEdit \/ undoFailed \/ endUndo
  \/ userEdits

Next == \/ ServiceStep /\ UNCHANGED dialog
        \/ propose \/ restart
        \/ openReview \/ readProposalTarget \/ handleToggleSelect \/ handleApply
        \/ handleRejectAll \/ closeReview \/ applied

Spec == ReviewInit /\ [][Next]_allVars

-----------------------------------------------------------------------------
(* Properties *)

SingleMishap == mishaps <= 1

\* An apply that fails leaves every file as it found it: what was written before the
\* failure is restored.  What cannot be restored, because that fails too, can be undone.
\* Of an apply that is killed this says nothing: OverwrittenIsBackedUp does.  And it is
\* about files that cannot be backed up or written: one that is written and then fails
\* its verification (atomicWriteUtf8) is not among those restored, and stays overwritten.
FailedApplyRestores ==
  isAt({"rollback"}, "end") =>
    /\ SingleMishap => disk = handler.before
    /\ \A p \in Paths : \/ disk[p] = handler.before[p]
                       \/ \E id \in DOMAIN history : history[id].path = p /\ ~history[id].undone

\* A kill between any two writes of an apply, or of its rollback, loses no text: the
\* files may stay half applied, but each that is not as the apply found it has its
\* earlier text in a backup.
OverwrittenIsBackedUp ==
  handler.name \in {"apply", "rollback"} =>
    \A p \in Paths : \/ disk[p] = handler.before[p]
                     \/ \E id \in DOMAIN backups : backups[id] = handler.before[p]

\* What the user wrote last in a file is never lost: it is in the file, in a backup, or
\* it is what the proposal would write anyway.
ContentSurvives ==
  \A p \in Paths : \/ disk[p] = written[p]
                   \/ \E id \in DOMAIN backups : backups[id] = written[p]
                   \/ \E e \in edits : FE(e).target = written[p]

\* No temporary file stays in the project after a failure or a kill.  (After a failure
\* and a kill one may: the entry of the journal goes before the file.)
NoTempIsLeft == idle /\ SingleMishap => temps = {}

\* A file is only overwritten as its review or its undo knew it: whatever the user
\* wrote meanwhile, before or while the program asked, stops the handler.
OnlyKnownContentIsOverwritten ==
  [][renameTemp =>
       \/ handler.name = "apply" /\ disk[handler.path] = FE(Head(handler.todo)).base
       \/ handler.name # "apply" /\ disk[handler.path] = history[handler.id].applied]_allVars

=============================================================================
