--------------------------- MODULE EditReviewProofs ---------------------------
(***************************************************************************)
(* Proofs about EditReview: the dialog and the handlers under it, for any  *)
(* files, answers, faults and contents the user writes.                    *)
(*                                                                         *)
(* The invariant has three layers.  What the handler has in hand when it   *)
(* writes, and where every text of the user is kept, is true of any        *)
(* proposal.  That a rollback finds each file as Apply left it, and that   *)
(* what an apply overwrote is in a backup, need a proposal with one edit   *)
(* for a file, and contents that verify after they are written: the        *)
(* theorems about it say so.                                               *)
(***************************************************************************)
EXTENDS EditReview, FiniteSetTheorems, TLAPS

-----------------------------------------------------------------------------
(* The first layer.                                                        *)

Verified == "verify" \notin Faults

Record == [edit : Nat, path : Paths, backup : Text, applied : Text, undone : BOOLEAN]

NoRepeat(s) == \A j, k \in DOMAIN s : s[j] = s[k] => j = k

Selection(s) == s \in Seq(edits) /\ NoRepeat(s)

\* The steps of a write: the file is as it was, it is written, it may be either.
Before == {"ready to write", "journaled", "written", "unlinking"}

After == {"renamed", "verified"}

Mid == Before \union After \union {"failed"}

ProposalOK == /\ proposal \in [status : EditProposalStatus, fileEdits : Seq(EditRecord)]
              /\ proposal.status = "draft" => edits = {}

ProjectOK == /\ disk \in [Paths -> Text]
             /\ temps \subseteq Paths
             /\ journal \subseteq Paths
             /\ written \in [Paths -> Text]
             /\ mishaps \in 0..MaxMishaps
             /\ userWrites \in 0..MaxUserWrites

\* What was applied has its backup, and is what the edit said.
StoreOK == /\ DOMAIN backups \subseteq Ids
           /\ \A id \in DOMAIN backups : backups[id] \in Text
           /\ DOMAIN history \subseteq DOMAIN backups
           /\ \A id \in DOMAIN history : /\ history[id] \in Record
                                         /\ history[id].edit \in edits
                                         /\ history[id].path = FE(history[id].edit).path
                                         /\ history[id].applied = FE(history[id].edit).target

\* What the handler writes, and what is in the file until it does.
Applying == /\ handler.step \in Mid \union {"begin", "end"}
            /\ Selection(handler.todo)
            /\ handler.done \in Seq(DOMAIN history)
            /\ handler.step \in Mid =>
                 /\ handler.todo # <<>>
                 /\ handler.id \in DOMAIN backups \ DOMAIN history
                 /\ handler.path = FE(handler.todo[1]).path
                 /\ handler.content = FE(handler.todo[1]).target
            /\ handler.step \in Before => disk[handler.path] = backups[handler.id]
            /\ handler.step = "failed" /\ Verified => disk[handler.path] = backups[handler.id]
            /\ handler.step \in After => disk[handler.path] = handler.content

RollingBack == /\ handler.step \in Mid \union {"begin", "end"}
               /\ handler.todo \in Seq(DOMAIN history)
               /\ handler.step \in Mid => handler.todo # <<>> /\ handler.id = handler.todo[1]
               /\ handler.step = "end" => handler.todo = <<>>

Restoring == /\ handler.step \in Mid \union {"undone"} => handler.id \in DOMAIN history
             /\ handler.step \in Mid => /\ handler.path = history[handler.id].path
                                        /\ handler.content = history[handler.id].backup
             /\ handler.step \in Before => disk[handler.path] = history[handler.id].applied
             /\ handler.step \in After => disk[handler.path] = handler.content

HandlerOK ==
  /\ DOMAIN handler = DOMAIN Idle
  /\ handler.name \in {"idle", "asking", "apply", "rollback", "undo"}
  /\ handler.name \in {"idle", "asking"} => handler.step = "begin"
  /\ handler.name = "asking" => Selection(handler.selected)
  /\ handler.name = "apply" => Applying
  /\ handler.name = "rollback" => RollingBack
  /\ handler.name = "undo" => handler.step \in Mid \union {"undone"}
  /\ handler.name \in {"rollback", "undo"} => Restoring

\* A temporary file has its entry in the journal, or a failure behind it.
Swept ==
  /\ handler.step \in {"journaled", "written"} => handler.path \in journal
  /\ handler.step = "unlinking" => mishaps # 0
  /\ mishaps \in {0, 1} =>
       temps \subseteq (IF handler.step \in {"written", "unlinking"} THEN {handler.path} ELSE {})

\* The backup of a write that may still fail does not count.
Discardable == IF handler.name = "apply" /\ handler.step \in Before \union {"failed"}
                 THEN {handler.id} ELSE {}

Kept(p) == \/ disk[p] = written[p]
           \/ \E id \in DOMAIN backups \ Discardable : backups[id] = written[p]
           \/ \E e \in edits : FE(e).target = written[p]

Survives == Verified => \A p \in Paths : Kept(p)

Written == /\ ProposalOK /\ ProjectOK /\ StoreOK
           /\ Selection(selectedIds)
           /\ HandlerOK /\ Swept /\ Survives

-----------------------------------------------------------------------------
(* The second layer: one edit for a file.                                  *)

OneEach == \A d, e \in edits : FE(d).path = FE(e).path => d = e

\* Applied edits that a rollback is to find as Apply left them, but for the first one
\* when it is being restored.
Untouched(ids, first) ==
  /\ \A j, k \in DOMAIN ids : history[ids[j]].edit = history[ids[k]].edit => j = k
  /\ \A k \in DOMAIN ids :
       /\ ~history[ids[k]].undone
       /\ history[ids[k]].backup = handler.before[history[ids[k]].path]
       /\ k # first => disk[history[ids[k]].path] = history[ids[k]].applied

Changed(ids) == {history[ids[k]].path : k \in DOMAIN ids}

ApplyKnows ==
  /\ \A k \in DOMAIN handler.todo : k # 1 \/ handler.step \notin After \union {"failed"} =>
       /\ disk[FE(handler.todo[k]).path] = FE(handler.todo[k]).base
       /\ disk[FE(handler.todo[k]).path] = handler.before[FE(handler.todo[k]).path]
  /\ \A j \in DOMAIN handler.todo, k \in DOMAIN handler.done :
       history[handler.done[k]].edit # handler.todo[j]
  /\ Untouched(handler.done, 0)
  /\ handler.firstError => mishaps # 0 /\ handler.todo = <<>>
  /\ handler.step \in {"unlinking", "failed"} => mishaps # 0
  /\ handler.step \in Mid => backups[handler.id] = handler.before[handler.path]
  /\ Verified => \A p \in Paths : \/ disk[p] = handler.before[p]
                                  \/ p \in Changed(handler.done)
                                  \/ handler.step \in After /\ p = handler.path

RollbackKnows ==
  /\ mishaps # 0
  /\ handler.step \in {"unlinking", "failed"} => mishaps # 1
  /\ Untouched(handler.todo, IF handler.step \in After \union {"failed"} THEN 1 ELSE 0)
  /\ handler.step \in After => disk[handler.path] = handler.before[handler.path]
  /\ Verified => \A p \in Paths :
                   \/ disk[p] = handler.before[p]
                   \/ p \in Changed(handler.todo)
                   \/ mishaps # 1 /\ \E id \in DOMAIN history :
                                       history[id].path = p /\ ~history[id].undone

Restorable ==
  /\ OneEach
  /\ handler.name \in {"apply", "rollback"} => handler.before \in [Paths -> Text]
  /\ handler.name = "apply" => ApplyKnows
  /\ handler.name = "rollback" => RollbackKnows

-----------------------------------------------------------------------------
(* Operators.                                                              *)

\* A proposal that was saved has a status.
LEMMA StatusOfEdits ==
  ASSUME NEW some
  PROVE  computeProposalStatus(some) \in EditProposalStatus \ {"draft"}
BY DEF computeProposalStatus, EditProposalStatus

\* What is left of a sequence without repetitions has none.
LEMMA KeepingSelects ==
  ASSUME NEW S, NEW ids \in Seq(S), NoRepeat(ids), NEW kept \in SUBSET S,
         NEW left \in Keeping(ids, kept)
  PROVE  left \in Seq(S) /\ NoRepeat(left)
<1> DEFINE stay == {k \in DOMAIN ids : ids[k] \in kept}
           n    == Cardinality(stay)
<1>1. PICK at \in [1..n -> stay] :
        /\ \A j, k \in DOMAIN at : j < k => at[j] < at[k]
        /\ left = [k \in 1..n |-> ids[at[k]]]
  BY DEF Keeping
<1>2. IsFiniteSet(stay) /\ n \in Nat
  <2>1. Len(ids) \in Nat /\ DOMAIN ids = 1..Len(ids)
    OBVIOUS
  <2>2. IsFiniteSet(DOMAIN ids)
    BY <2>1, FS_Interval
  <2>3. IsFiniteSet(stay)
    BY <2>2, FS_Subset
  <2> QED BY <2>3, FS_CardinalityType
<1>3. \A k \in stay : k \in Nat /\ k \in DOMAIN ids /\ ids[k] \in S
  OBVIOUS
<1> HIDE DEF stay
<1>4. \A j, k \in 1..n : at[j] = at[k] => j = k
  <2> SUFFICES ASSUME NEW j \in 1..n, NEW k \in 1..n, j # k PROVE at[j] # at[k]
    OBVIOUS
  <2>1. at[j] \in Nat /\ at[k] \in Nat
    BY <1>1, <1>3
  <2>2. (j < k => at[j] < at[k]) /\ (k < j => at[k] < at[j])
    BY <1>1
  <2> QED BY <1>2, <2>1, <2>2
<1>5. DOMAIN left = 1..n /\ \A k \in 1..n : left[k] = ids[at[k]] /\ at[k] \in DOMAIN ids
  BY <1>1, <1>3
<1> HIDE DEF n
<1>6. left \in Seq(S)
  <2>1. left \in [1..n -> S]
    BY <1>1, <1>3
  <2> QED BY <1>2, <2>1
<1>7. NoRepeat(left)
  BY <1>4, <1>5 DEF NoRepeat
<1> QED BY <1>6, <1>7

\* What edits say stays, whatever becomes of them.
Alike == /\ edits' = edits
         /\ \A e \in edits : /\ FE(e)'.path = FE(e).path
                             /\ FE(e)'.target = FE(e).target
                             /\ FE(e)'.base = FE(e).base

LEMMA StatusGiven ==
  ASSUME ProposalOK, NEW some, NEW status \in FileEditStatus,
         NEW list, list = withStatus(some, status)
  PROVE  /\ list \in Seq(EditRecord) /\ DOMAIN list = edits
         /\ \A e \in edits : /\ list[e].path = FE(e).path
                             /\ list[e].target = FE(e).target
                             /\ list[e].base = FE(e).base
<1>1. proposal.fileEdits \in Seq(EditRecord)
  BY DEF ProposalOK
<1>2. list = [i \in DOMAIN proposal.fileEdits |->
                IF i \in some THEN [proposal.fileEdits[i] EXCEPT !.status = status]
                              ELSE proposal.fileEdits[i]]
  BY DEF withStatus
<1>3. ASSUME NEW fe \in EditRecord, NEW new, new = [fe EXCEPT !.status = status]
      PROVE  /\ new \in EditRecord /\ new.path = fe.path /\ new.target = fe.target
             /\ new.base = fe.base
  BY <1>3 DEF EditRecord
<1>4. \A i \in DOMAIN proposal.fileEdits :
        /\ list[i] \in EditRecord /\ list[i].path = proposal.fileEdits[i].path
        /\ list[i].target = proposal.fileEdits[i].target
        /\ list[i].base = proposal.fileEdits[i].base
  BY <1>1, <1>2, <1>3
<1>5. list \in Seq(EditRecord)
  <2>1. Len(proposal.fileEdits) \in Nat /\ DOMAIN proposal.fileEdits = 1..Len(proposal.fileEdits)
    BY <1>1
  <2>2. list \in [1..Len(proposal.fileEdits) -> EditRecord]
    BY <1>2, <1>4, <2>1
  <2> QED BY <2>1, <2>2
<1> QED BY <1>2, <1>4, <1>5 DEF edits, FE

\* The statuses of file edits change: not while the proposal is a draft.
LEMMA Updates ==
  ASSUME ProposalOK, NEW some, NEW status \in FileEditStatus,
         updateProposal(withStatus(some, status))
  PROVE  Alike /\ ProposalOK'
<1> DEFINE list == withStatus(some, status)
<1>1. /\ list \in Seq(EditRecord) /\ DOMAIN list = edits
      /\ \A e \in edits : /\ list[e].path = FE(e).path /\ list[e].target = FE(e).target
                          /\ list[e].base = FE(e).base
  BY StatusGiven
<1>2. proposal' = [status |-> computeProposalStatus(list), fileEdits |-> list]
  BY DEF updateProposal
<1> HIDE DEF list
<1>3. computeProposalStatus(list) \in EditProposalStatus \ {"draft"}
  BY StatusOfEdits
<1>4. proposal'.fileEdits = list /\ proposal'.status # "draft"
  BY <1>2, <1>3
<1>5. proposal' \in [status : EditProposalStatus, fileEdits : Seq(EditRecord)]
  BY <1>1, <1>2, <1>3
<1> QED BY <1>1, <1>4, <1>5 DEF Alike, ProposalOK, edits, FE

\* The whole proposal gets another status.
LEMMA Rejects ==
  ASSUME ProposalOK, proposal' = [proposal EXCEPT !.status = "rejected"]
  PROVE  Alike /\ ProposalOK'
<1>1. "rejected" \in EditProposalStatus /\ "rejected" # "draft"
  BY DEF EditProposalStatus
<1>2. /\ proposal'.fileEdits = proposal.fileEdits /\ proposal'.status = "rejected"
      /\ proposal' \in [status : EditProposalStatus, fileEdits : Seq(EditRecord)]
  BY <1>1 DEF ProposalOK
<1> QED BY <1>1, <1>2 DEF Alike, ProposalOK, edits, FE

\* Sequences of edits.
LEMMA TailSelects ==
  ASSUME NEW S, NEW s \in Seq(S), NoRepeat(s), s # <<>>
  PROVE  /\ Tail(s) \in Seq(S) /\ NoRepeat(Tail(s)) /\ Head(s) = s[1] /\ s[1] \in S
         /\ 1 \in DOMAIN s
         /\ \A k \in DOMAIN Tail(s) :
              k \in Nat /\ k + 1 \in DOMAIN s /\ k + 1 # 1 /\ Tail(s)[k] = s[k + 1]
         /\ \A k \in DOMAIN s : k # 1 =>
              k \in Nat /\ k - 1 \in DOMAIN Tail(s) /\ Tail(s)[k - 1] = s[k]
<1>1. /\ Tail(s) \in Seq(S) /\ Len(s) \in Nat /\ Len(s) >= 1
      /\ DOMAIN s = 1..Len(s) /\ DOMAIN Tail(s) = 1..(Len(s) - 1)
      /\ Head(s) = s[1] /\ \A k \in 1..(Len(s) - 1) : Tail(s)[k] = s[k + 1]
  OBVIOUS
<1>2. s[1] \in S /\ 1 \in DOMAIN s
  BY <1>1
<1>3. \A k \in DOMAIN Tail(s) :
        k \in Nat /\ k + 1 \in DOMAIN s /\ k + 1 # 1 /\ Tail(s)[k] = s[k + 1]
  BY <1>1
<1>4. NoRepeat(Tail(s))
  <2> SUFFICES ASSUME NEW j \in DOMAIN Tail(s), NEW k \in DOMAIN Tail(s), Tail(s)[j] = Tail(s)[k]
               PROVE  j = k
    BY DEF NoRepeat
  <2>1. j + 1 = k + 1
    BY <1>3 DEF NoRepeat
  <2> QED BY <1>3, <2>1
<1>5. \A k \in DOMAIN s : k # 1 =>
        k \in Nat /\ k - 1 \in DOMAIN Tail(s) /\ Tail(s)[k - 1] = s[k]
  <2> SUFFICES ASSUME NEW k \in DOMAIN s, k # 1
               PROVE  k \in Nat /\ k - 1 \in DOMAIN Tail(s) /\ Tail(s)[k - 1] = s[k]
    OBVIOUS
  <2>1. k \in Nat /\ k - 1 \in 1..(Len(s) - 1) /\ (k - 1) + 1 = k
    BY <1>1
  <2> QED BY <1>1, <2>1
<1> QED BY <1>1, <1>2, <1>3, <1>4, <1>5

LEMMA Emptied ==
  /\ \A S : <<>> \in Seq(S)
  /\ DOMAIN <<>> = {} /\ NoRepeat(<<>>)
BY DEF NoRepeat

LEMMA RestOf ==
  ASSUME NEW S, NEW s \in Seq(S), s # <<>>
  PROVE  /\ Tail(s) \in Seq(S) /\ Head(s) = s[1] /\ s[1] \in S /\ 1 \in DOMAIN s
         /\ \A k \in DOMAIN Tail(s) :
              k \in Nat /\ k + 1 \in DOMAIN s /\ k + 1 # 1 /\ Tail(s)[k] = s[k + 1]
<1>1. /\ Tail(s) \in Seq(S) /\ Len(s) \in Nat /\ Len(s) >= 1
      /\ DOMAIN s = 1..Len(s) /\ DOMAIN Tail(s) = 1..(Len(s) - 1)
      /\ Head(s) = s[1] /\ \A k \in 1..(Len(s) - 1) : Tail(s)[k] = s[k + 1]
  OBVIOUS
<1> QED BY <1>1
-----------------------------------------------------------------------------
(* What leaves which part of the first layer alone.                        *)

LEMMA Facts ==
  ASSUME Written
  PROVE  /\ ProposalOK /\ ProjectOK /\ StoreOK /\ Selection(selectedIds)
         /\ HandlerOK /\ Swept /\ Survives
         /\ DOMAIN handler = DOMAIN Idle
         /\ mishaps \in Nat /\ MaxMishaps \in Nat /\ MaxUserWrites \in Nat
         /\ \A e \in edits : e \in Nat /\ FE(e) \in EditRecord /\ FE(e).path \in Paths
                             /\ FE(e).target \in Text /\ FE(e).base \in Text
<1>1. \A e \in edits : e \in Nat /\ FE(e) \in EditRecord
  BY DEF Written, ProposalOK, edits, FE
<1>2. \A fe \in EditRecord : fe.path \in Paths /\ fe.target \in Text /\ fe.base \in Text
  BY DEF EditRecord
<1>3. mishaps \in Nat /\ MaxMishaps \in Nat /\ MaxUserWrites \in Nat
  BY EditAssumption DEF Written, ProjectOK
<1> QED BY <1>1, <1>2, <1>3 DEF Written, HandlerOK

LEMMA HistoryFacts ==
  ASSUME StoreOK
  PROVE  \A id \in DOMAIN history :
           /\ id \in DOMAIN backups /\ id \in Ids
           /\ history[id].path \in Paths /\ history[id].backup \in Text
           /\ history[id].applied \in Text /\ history[id].undone \in BOOLEAN
           /\ history[id].edit \in edits /\ history[id].edit \in Nat
           /\ history[id].path = FE(history[id].edit).path
           /\ history[id].applied = FE(history[id].edit).target
<1>1. \A r \in Record : /\ r.path \in Paths /\ r.backup \in Text /\ r.applied \in Text
                        /\ r.undone \in BOOLEAN /\ r.edit \in Nat
  BY DEF Record
<1> QED BY <1>1 DEF StoreOK

LEMMA SameProposal == ASSUME proposal' = proposal PROVE Alike
BY DEF Alike, edits, FE

LEMMA StoreFrame ==
  ASSUME StoreOK, UNCHANGED <<backups, history>>, Alike PROVE StoreOK'
<1>1. \A id \in DOMAIN history : history[id].edit \in edits
  BY DEF StoreOK
<1>2. \A id \in DOMAIN history : /\ history[id].edit \in edits'
                                 /\ history[id].path = FE(history[id].edit)'.path
                                 /\ history[id].applied = FE(history[id].edit)'.target
  BY <1>1 DEF StoreOK, Alike
<1> QED BY <1>2 DEF StoreOK

LEMMA SelectionFrame ==
  ASSUME Alike, Selection(selectedIds), selectedIds' = selectedIds PROVE Selection(selectedIds)'
BY DEF Alike, Selection, NoRepeat

LEMMA KeptFrame ==
  ASSUME NEW p \in Paths, Kept(p), disk'[p] = disk[p], written' = written, Alike,
         DOMAIN backups \ Discardable \subseteq DOMAIN backups' \ Discardable',
         \A id \in DOMAIN backups \ Discardable : backups'[id] = backups[id]
  PROVE  Kept(p)'
<1>1. CASE disk[p] = written[p]
  BY <1>1 DEF Kept
<1>2. ASSUME NEW id \in DOMAIN backups \ Discardable, backups[id] = written[p] PROVE Kept(p)'
  <2>1. id \in DOMAIN backups' \ Discardable' /\ backups'[id] = written'[p]
    BY <1>2
  <2> QED BY <2>1 DEF Kept
<1>3. ASSUME NEW e \in edits, FE(e).target = written[p] PROVE Kept(p)'
  BY <1>3 DEF Kept, Alike
<1> QED BY <1>1, <1>2, <1>3 DEF Kept

LEMMA SurvivesFrame ==
  ASSUME Survives, disk' = disk, written' = written, Alike,
         DOMAIN backups \ Discardable \subseteq DOMAIN backups' \ Discardable',
         \A id \in DOMAIN backups \ Discardable : backups'[id] = backups[id]
  PROVE  Survives'
BY KeptFrame DEF Survives, Verified

\* Only the dialog changes, or nothing.
LEMMA DialogActs ==
  ASSUME Written, UNCHANGED vars, Selection(selectedIds)'
  PROVE  Written'
<1>1. /\ disk' = disk /\ temps' = temps /\ journal' = journal /\ backups' = backups
      /\ history' = history /\ proposal' = proposal /\ handler' = handler
      /\ written' = written /\ mishaps' = mishaps /\ userWrites' = userWrites
  BY DEF vars, project, store, counters
<1>2. ProposalOK' /\ ProjectOK' /\ StoreOK' /\ Swept'
  BY <1>1, Facts, StoreFrame, SameProposal DEF ProposalOK, ProjectOK, edits, Swept
<1>3. HandlerOK'
  BY <1>1, Facts DEF HandlerOK, Applying, RollingBack, Restoring, Selection, NoRepeat, FE, edits
<1>4. Survives'
  BY <1>1, Facts DEF Survives, Kept, Discardable, FE, edits
<1> QED BY <1>2, <1>3, <1>4 DEF Written

\* A handler ends, or never starts.
LEMMA GoesIdle ==
  ASSUME Written, handler' = Idle, handler.step \notin {"written", "unlinking"},
         UNCHANGED <<project, backups, history, written, counters>>, Alike, ProposalOK',
         Selection(selectedIds)'
  PROVE  Written'
<1>1. /\ disk' = disk /\ temps' = temps /\ journal' = journal /\ backups' = backups
      /\ history' = history /\ written' = written /\ mishaps' = mishaps
      /\ userWrites' = userWrites
  BY DEF project, counters
<1>2. ProjectOK' /\ StoreOK'
  BY <1>1, Facts, StoreFrame DEF ProjectOK
<1>3. HandlerOK'
  BY DEF HandlerOK, Idle
<1>4. Swept'
  <2>1. mishaps \in {0, 1} => temps = {}
    BY Facts DEF Swept
  <2> QED BY <1>1, <2>1 DEF Swept, Idle
<1>5. Survives'
  <2>1. Discardable' = {}
    BY DEF Discardable, Idle
  <2> QED BY <1>1, <2>1, Facts, SurvivesFrame
<1> QED BY <1>2, <1>3, <1>4, <1>5 DEF Written

\* The user acts while no handler writes.
LEMMA IdleActs ==
  ASSUME Written, handler.name \in {"idle", "asking"}, handler' = handler, Alike, ProposalOK',
         UNCHANGED <<temps, journal, backups, history, mishaps>>, ProjectOK', Survives',
         Selection(selectedIds)'
  PROVE  Written'
<1>1. StoreOK'
  BY Facts, StoreFrame
<1>2. HandlerOK'
  BY Facts DEF HandlerOK, Selection, NoRepeat, Alike
<1>3. Swept'
  BY Facts DEF Swept
<1> QED BY <1>1, <1>2, <1>3 DEF Written

LEMMA Stepping ==
  ASSUME Written, NEW step, handler' = [handler EXCEPT !.step = step]
  PROVE  /\ DOMAIN handler' = DOMAIN Idle /\ handler'.step = step
         /\ handler'.name = handler.name /\ handler'.selected = handler.selected
         /\ handler'.todo = handler.todo /\ handler'.done = handler.done
         /\ handler'.id = handler.id /\ handler'.path = handler.path
         /\ handler'.content = handler.content /\ handler'.firstError = handler.firstError
         /\ handler'.before = handler.before
<1>1. DOMAIN handler = DOMAIN Idle
  BY Facts
<1> QED BY <1>1 DEF Idle

-----------------------------------------------------------------------------
(* The first layer: the user and the dialog.                               *)

LEMMA Selects ==
  ASSUME Written, openReview \/ readProposalTarget \/ handleToggleSelect \/ closeReview
  PROVE  Written'
<1>1. Selection(selectedIds) /\ ProposalOK
  BY Facts
<1>2. SUFFICES ASSUME UNCHANGED vars PROVE selectedIds' \in Seq(edits) /\ NoRepeat(selectedIds')
  <2>1. UNCHANGED vars
    BY DEF openReview, readProposalTarget, handleToggleSelect, closeReview
  <2>2. edits' = edits
    BY <2>1 DEF vars, store, edits
  <2>3. Selection(selectedIds)' <=> selectedIds' \in Seq(edits) /\ NoRepeat(selectedIds')
    BY <2>2 DEF Selection, NoRepeat
  <2> QED BY <2>1, <2>3, DialogActs
<1>3. CASE openReview
  <2> DEFINE all == [i \in edits |-> i]
  <2>1. all \in Seq(edits) /\ NoRepeat(all)
    <3>1. edits = 1..Len(proposal.fileEdits) /\ Len(proposal.fileEdits) \in Nat
      BY <1>1 DEF ProposalOK, edits
    <3> QED BY <3>1 DEF NoRepeat
  <2>2. selectedIds' \in Keeping(all, {e \in edits : canSelectEdit(e)})
    BY <1>3 DEF openReview
  <2>3. {e \in edits : canSelectEdit(e)} \in SUBSET edits
    OBVIOUS
  <2> HIDE DEF all
  <2> QED BY <2>1, <2>2, <2>3, KeepingSelects
<1>4. ASSUME NEW e \in edits, selectedIds' \in Keeping(selectedIds, edits \ {e})
      PROVE  selectedIds' \in Seq(edits) /\ NoRepeat(selectedIds')
  BY <1>1, <1>4, KeepingSelects DEF Selection
<1>5. CASE readProposalTarget
  BY <1>1, <1>4, <1>5 DEF readProposalTarget, Selection
<1>6. CASE handleToggleSelect
  <2>1. PICK e \in edits :
          IF e \in ToSet(selectedIds) THEN selectedIds' \in Keeping(selectedIds, edits \ {e})
                                      ELSE selectedIds' = Append(selectedIds, e)
    BY <1>6 DEF handleToggleSelect
  <2>2. CASE e \in ToSet(selectedIds)
    BY <1>4, <2>1, <2>2
  <2>3. CASE e \notin ToSet(selectedIds)
    <3>1. /\ selectedIds \in Seq(edits) /\ NoRepeat(selectedIds)
          /\ \A k \in DOMAIN selectedIds : selectedIds[k] # e
      BY <1>1, <2>3 DEF Selection, ToSet
    <3>2. /\ selectedIds' \in Seq(edits)
          /\ DOMAIN selectedIds' = DOMAIN selectedIds \union {Len(selectedIds) + 1}
          /\ selectedIds'[Len(selectedIds) + 1] = e
          /\ \A k \in DOMAIN selectedIds : selectedIds'[k] = selectedIds[k]
      BY <2>1, <2>3, <3>1
    <3> QED BY <3>1, <3>2 DEF NoRepeat
  <2> QED BY <2>2, <2>3
<1>7. CASE closeReview
  <2>1. selectedIds' = <<>>
    BY <1>7 DEF closeReview, close
  <2> QED BY <2>1, Emptied
<1> QED BY <1>3, <1>5, <1>6, <1>7

\* The first proposal with file edits is the only one.
LEMMA Proposes ==
  ASSUME Written, propose
  PROVE  Written'
<1>1. /\ proposal.status = "draft" /\ edits = {} /\ handler.name = "idle"
      /\ ProposalOK /\ ProjectOK /\ StoreOK /\ Selection(selectedIds) /\ HandlerOK /\ Swept
      /\ Survives
  BY Facts DEF propose, saveProposal, idle, ProposalOK
<1>2. PICK answer \in Answers : updateProposal(fileEdits(answer))
  BY DEF propose, saveProposal
<1> DEFINE list == fileEdits(answer)
<1>3. list \in Seq(EditRecord)
  BY EditAssumption
<1> HIDE DEF list
<1>4. /\ disk' = disk /\ temps' = temps /\ journal' = journal /\ backups' = backups
      /\ history' = history /\ handler' = handler /\ written' = written /\ mishaps' = mishaps
      /\ userWrites' = userWrites /\ selectedIds' = selectedIds
  BY DEF propose, saveProposal, project, counters, dialog
<1>5. ProposalOK'
  <2>1. computeProposalStatus(list) \in EditProposalStatus \ {"draft"}
    BY StatusOfEdits
  <2>2. proposal' = [status |-> computeProposalStatus(list), fileEdits |-> list]
    BY <1>2 DEF updateProposal, list
  <2>3. /\ proposal' \in [status : EditProposalStatus, fileEdits : Seq(EditRecord)]
        /\ proposal'.status # "draft"
    BY <1>3, <2>1, <2>2
  <2> QED BY <2>3 DEF ProposalOK
<1>6. DOMAIN history = {}
  BY <1>1 DEF StoreOK
<1>7. StoreOK'
  BY <1>1, <1>4, <1>6 DEF StoreOK
<1>8. selectedIds = <<>>
  BY <1>1 DEF Selection
<1>9. Selection(selectedIds)'
  BY <1>4, <1>8, Emptied DEF Selection, NoRepeat
<1>10. HandlerOK'
  BY <1>1, <1>4 DEF HandlerOK
<1>11. Survives'
  <2>1. Discardable = {} /\ Discardable' = {}
    BY <1>1, <1>4 DEF Discardable
  <2> QED BY <1>1, <1>4, <2>1 DEF Survives, Kept
<1>12. ProjectOK' /\ Swept'
  BY <1>1, <1>4 DEF ProjectOK, Swept
<1> QED BY <1>5, <1>7, <1>9, <1>10, <1>11, <1>12 DEF Written

\* Only statuses of the proposal change, between handlers.
LEMMA IdleStatus ==
  ASSUME Written, idle, Alike, ProposalOK',
         UNCHANGED <<project, backups, history, handler, written, counters>>,
         Selection(selectedIds)'
  PROVE  Written'
<1>1. /\ disk' = disk /\ temps' = temps /\ journal' = journal /\ backups' = backups
      /\ history' = history /\ handler' = handler /\ written' = written /\ mishaps' = mishaps
      /\ userWrites' = userWrites
  BY DEF project, counters
<1>2. ProjectOK'
  BY <1>1, Facts DEF ProjectOK
<1>3. Survives'
  BY <1>1, Facts, SurvivesFrame DEF Discardable
<1> QED BY <1>1, <1>2, <1>3, IdleActs DEF idle

LEMMA RejectsOne ==
  ASSUME Written, rejectProposal, UNCHANGED dialog
  PROVE  Written'
<1>1. Alike /\ ProposalOK'
  <2>1. "rejected" \in FileEditStatus
    BY DEF FileEditStatus
  <2> QED BY <2>1, Facts, Rejects, Updates DEF rejectProposal
<1>2. Selection(selectedIds)'
  BY <1>1, Facts, SelectionFrame DEF dialog
<1> QED BY <1>1, <1>2, IdleStatus DEF rejectProposal

LEMMA RejectsAll ==
  ASSUME Written, handleRejectAll
  PROVE  Written'
<1>1. Alike /\ ProposalOK'
  BY Facts, Rejects DEF handleRejectAll
<1>2. Selection(selectedIds)'
  BY Emptied DEF handleRejectAll, close, Selection, NoRepeat
<1> QED BY <1>1, <1>2, IdleStatus DEF handleRejectAll

\* What the user writes is in the file.
LEMMA UserWrites ==
  ASSUME Written, userEdits, UNCHANGED dialog
  PROVE  Written'
<1>1. PICK p \in Paths, text \in UserTexts :
        disk' = [disk EXCEPT ![p] = text] /\ written' = [written EXCEPT ![p] = text]
  BY DEF userEdits
<1>2. /\ handler.name \in {"idle", "asking"} /\ userWrites < MaxUserWrites
      /\ userWrites' = userWrites + 1 /\ temps' = temps /\ journal' = journal
      /\ backups' = backups /\ history' = history /\ proposal' = proposal /\ handler' = handler
      /\ mishaps' = mishaps /\ selectedIds' = selectedIds
  BY DEF userEdits, store, dialog
<1>3. /\ disk \in [Paths -> Text] /\ written \in [Paths -> Text] /\ text \in Text
  BY EditAssumption, Facts DEF ProjectOK
<1>4. ProjectOK'
  <2>1. userWrites' \in 0..MaxUserWrites
    BY <1>2, Facts DEF ProjectOK
  <2>2. disk' \in [Paths -> Text] /\ written' \in [Paths -> Text]
    BY <1>1, <1>3
  <2> QED BY <1>2, <2>1, <2>2, Facts DEF ProjectOK
<1>5. Alike /\ ProposalOK'
  BY <1>2, Facts, SameProposal DEF ProposalOK, edits
<1>6. Survives'
  <2> SUFFICES ASSUME Verified, NEW q \in Paths PROVE Kept(q)'
    BY DEF Survives, Verified
  <2>1. CASE q = p
    BY <1>1, <1>3, <2>1 DEF Kept
  <2>2. CASE q # p
    <3>1. disk'[q] = disk[q] /\ written'[q] = written[q] /\ Discardable' = Discardable
      BY <1>1, <1>2, <1>3, <2>2 DEF Discardable
    <3> QED BY <1>2, <3>1, Facts DEF Survives, Kept, FE, edits
  <2> QED BY <2>1, <2>2
<1>7. Selection(selectedIds)'
  BY <1>2, <1>5, Facts, SelectionFrame
<1> QED BY <1>2, <1>4, <1>5, <1>6, <1>7, IdleActs

\* Apply starts with what was selected, if the files are as they were reviewed.
LEMMA Begins ==
  ASSUME Written, handler.name \in {"idle", "asking"}, NEW ids, Selection(ids), begin(ids),
         UNCHANGED <<project, store, written, counters>>, selectedIds' = selectedIds
  PROVE  Written'
<1>1. /\ disk' = disk /\ temps' = temps /\ journal' = journal /\ backups' = backups
      /\ history' = history /\ proposal' = proposal /\ written' = written
      /\ mishaps' = mishaps /\ userWrites' = userWrites
  BY DEF project, store, counters
<1>2. Alike /\ ProposalOK' /\ Selection(selectedIds)'
  BY <1>1, Facts, SameProposal, SelectionFrame DEF ProposalOK, edits
<1>3. handler.step = "begin"
  BY Facts DEF HandlerOK
<1>4. CASE handler' = Idle
  BY <1>1, <1>2, <1>3, <1>4, GoesIdle DEF project, counters
<1>5. CASE handler' = [Idle EXCEPT !.name = "apply", !.selected = ids, !.todo = ids,
                                   !.before = disk]
  <2>1. /\ DOMAIN handler' = DOMAIN Idle /\ handler'.name = "apply" /\ handler'.step = "begin"
        /\ handler'.todo = ids /\ handler'.done = <<>>
    BY <1>5 DEF Idle
  <2>2. Selection(ids)'
    BY <1>2 DEF Alike, Selection, NoRepeat
  <2>3. Selection(handler.todo)'
    BY <1>2, <2>1 DEF Alike, Selection, NoRepeat
  <2>4. Applying'
    BY <2>1, <2>3, Emptied DEF Applying, Mid, Before, After
  <2>5. HandlerOK'
    BY <2>1, <2>4 DEF HandlerOK
  <2>6. Swept'
    <3>1. mishaps \in {0, 1} => temps = {}
      BY <1>3, Facts DEF Swept
    <3> QED BY <1>1, <2>1, <3>1 DEF Swept
  <2>7. Survives'
    <3>1. Discardable' = {}
      BY <2>1 DEF Discardable, Before
    <3> QED BY <1>1, <1>2, <3>1, Facts, SurvivesFrame
  <2>8. ProjectOK' /\ StoreOK'
    BY <1>1, <1>2, Facts, StoreFrame DEF ProjectOK
  <2> QED BY <1>2, <2>5, <2>6, <2>7, <2>8 DEF Written
<1> QED BY <1>4, <1>5 DEF begin

LEMMA Applies ==
  ASSUME Written, handleApply
  PROVE  Written'
<1>1. /\ handler.name = "idle" /\ UNCHANGED <<project, store, written, counters>>
      /\ selectedIds' = selectedIds
      /\ begin(selectedIds) \/ handler' = [Idle EXCEPT !.name = "asking", !.selected = selectedIds]
  BY DEF handleApply, applySelected, idle, dialog
<1>2. CASE begin(selectedIds)
  BY <1>1, <1>2, Facts, Begins
<1>3. CASE handler' = [Idle EXCEPT !.name = "asking", !.selected = selectedIds]
  <2>1. /\ DOMAIN handler' = DOMAIN Idle /\ handler'.name = "asking" /\ handler'.step = "begin"
        /\ handler'.selected = selectedIds
    BY <1>3 DEF Idle
  <2>2. /\ disk' = disk /\ temps' = temps /\ journal' = journal /\ backups' = backups
        /\ history' = history /\ proposal' = proposal /\ written' = written
        /\ mishaps' = mishaps /\ userWrites' = userWrites
    BY <1>1 DEF project, store, counters
  <2>3. Alike /\ ProposalOK' /\ Selection(selectedIds)'
    BY <1>1, <2>2, Facts, SameProposal, SelectionFrame DEF ProposalOK, edits
  <2>4. HandlerOK'
    BY <1>1, <2>1, <2>3 DEF HandlerOK, Selection, NoRepeat
  <2>5. Swept'
    <3>1. mishaps \in {0, 1} => temps = {}
      BY <1>1, Facts DEF Swept, HandlerOK
    <3> QED BY <2>1, <2>2, <3>1 DEF Swept
  <2>6. Survives'
    <3>1. Discardable' = {}
      BY <2>1 DEF Discardable
    <3> QED BY <2>2, <2>3, <3>1, Facts, SurvivesFrame
  <2>7. ProjectOK' /\ StoreOK'
    BY <2>2, <2>3, Facts, StoreFrame DEF ProjectOK
  <2> QED BY <2>3, <2>4, <2>5, <2>6, <2>7 DEF Written
<1> QED BY <1>1, <1>2, <1>3

LEMMA Decides ==
  ASSUME Written, approve \/ deny, UNCHANGED dialog
  PROVE  Written'
<1>1. /\ handler.name = "asking" /\ UNCHANGED <<project, store, written, counters>>
      /\ begin(handler.selected) \/ handler' = Idle
      /\ selectedIds' = selectedIds
  BY DEF approve, deny, dialog
<1>2. Selection(handler.selected) /\ handler.step = "begin"
  BY <1>1, Facts DEF HandlerOK
<1>3. Alike /\ ProposalOK' /\ Selection(selectedIds)' /\ selectedIds' = selectedIds
  BY <1>1, Facts, SameProposal, SelectionFrame DEF ProposalOK, edits, store, dialog
<1> QED BY <1>1, <1>2, <1>3, Begins, GoesIdle DEF store


-----------------------------------------------------------------------------
(* The first layer: the write of a file.                                   *)

\* What is written, and where.
LEMMA WriteFacts ==
  ASSUME Written, handler.name \in Writers, handler.step \in Mid
  PROVE  /\ handler.path \in Paths /\ handler.content \in Text
         /\ handler.name = "apply" => handler.todo # <<>> /\ 1 \in DOMAIN handler.todo
                                      /\ handler.todo[1] \in edits
<1>1. CASE handler.name = "apply"
  <2>1. /\ handler.todo \in Seq(edits) /\ NoRepeat(handler.todo) /\ handler.todo # <<>>
        /\ handler.path = FE(handler.todo[1]).path /\ handler.content = FE(handler.todo[1]).target
    BY <1>1, Facts DEF HandlerOK, Applying, Selection
  <2>2. handler.todo[1] \in edits /\ 1 \in DOMAIN handler.todo
    BY <2>1, TailSelects
  <2> QED BY <1>1, <2>1, <2>2, Facts
<1>2. CASE handler.name # "apply"
  <2>1. /\ handler.id \in DOMAIN history /\ handler.path = history[handler.id].path
        /\ handler.content = history[handler.id].backup
    BY <1>2, Facts DEF HandlerOK, Restoring, Writers
  <2> QED BY <1>2, <2>1, Facts, HistoryFacts
<1> QED BY <1>1, <1>2

\* Where the steps of a write lead, and what they do to the file.
Leads(step) ==
  \/ /\ handler.step \in Before /\ step \in Before
     /\ disk' = disk
  \/ /\ handler.step = "written" /\ step = "renamed"
     /\ disk' = [disk EXCEPT ![handler.path] = handler.content]
  \/ /\ handler.step = "renamed" /\ step = "verified"
     /\ disk' = disk
  \/ /\ handler.step = "renamed" /\ step = "failed" /\ ~Verified
     /\ disk' = disk
  \/ /\ handler.step = "unlinking" /\ step = "failed"
     /\ disk' = disk

LEMMA NextStep ==
  ASSUME Written, handler.name \in Writers, NEW step, Leads(step), goTo(step),
         UNCHANGED <<store, written, userWrites>>, UNCHANGED dialog,
         temps' \subseteq Paths, journal' \subseteq Paths, mishaps' \in 0..MaxMishaps, Swept'
  PROVE  Written'
<1>1. /\ DOMAIN handler' = DOMAIN Idle /\ handler'.step = step /\ handler'.name = handler.name
      /\ handler'.selected = handler.selected /\ handler'.todo = handler.todo
      /\ handler'.done = handler.done /\ handler'.id = handler.id
      /\ handler'.path = handler.path /\ handler'.content = handler.content
  BY Stepping DEF goTo
<1>2. /\ backups' = backups /\ history' = history /\ proposal' = proposal /\ written' = written
      /\ userWrites' = userWrites /\ selectedIds' = selectedIds
  BY DEF store, dialog
<1>3. /\ Alike /\ ProposalOK' /\ StoreOK' /\ Selection(selectedIds)'
  BY <1>2, Facts, SameProposal, StoreFrame, SelectionFrame DEF ProposalOK, edits
<1>4. handler.step \in Mid /\ step \in Mid
  BY DEF Leads, Mid, Before, After
<1>5. handler.path \in Paths /\ handler.content \in Text
  BY <1>4, WriteFacts
<1>6. /\ disk' \in [Paths -> Text]
      /\ \A p \in Paths : p # handler.path => disk'[p] = disk[p]
      /\ step # "renamed" => disk' = disk
      /\ step = "renamed" => disk'[handler.path] = handler.content
  BY <1>5, Facts DEF ProjectOK, Leads, Before
<1>7. ProjectOK'
  BY <1>2, <1>6, Facts DEF ProjectOK
<1>8. /\ step \in Before => handler.step \in Before /\ disk' = disk
      /\ step \in After => \/ disk'[handler.path] = handler.content
                           \/ handler.step \in After /\ disk' = disk
      /\ step = "failed" /\ Verified => handler.step \in Before /\ disk' = disk
      /\ step = "renamed" => handler.step \in Before
  BY <1>6 DEF Leads, Before, After
<1>9. ASSUME handler.name = "apply" PROVE Applying'
  <2>1. Applying
    BY <1>9, Facts DEF HandlerOK
  <2>2. Selection(handler.todo)' /\ handler'.done \in Seq(DOMAIN history')
    BY <1>1, <1>2, <1>3, <2>1 DEF Applying, Alike, Selection, NoRepeat
  <2>3. /\ handler.todo # <<>> /\ handler.id \in DOMAIN backups \ DOMAIN history
        /\ handler.path = FE(handler.todo[1]).path
        /\ handler.content = FE(handler.todo[1]).target
    BY <1>4, <2>1 DEF Applying
  <2>4. /\ handler'.todo # <<>> /\ handler'.id \in DOMAIN backups' \ DOMAIN history'
        /\ handler'.path = FE(handler.todo[1])'.path
        /\ handler'.content = FE(handler.todo[1])'.target
    BY <1>1, <1>2, <2>3 DEF FE
  <2>5. /\ step \in Before => disk'[handler.path] = backups[handler.id]
        /\ step = "failed" /\ Verified => disk'[handler.path] = backups[handler.id]
        /\ step \in After => disk'[handler.path] = handler.content
    BY <1>8, <2>1 DEF Applying
  <2> QED BY <1>1, <1>2, <1>4, <2>2, <2>4, <2>5 DEF Applying, Verified
<1>10. ASSUME handler.name = "rollback" PROVE RollingBack'
  <2>1. RollingBack
    BY <1>10, Facts DEF HandlerOK
  <2>2. step # "end"
    BY <1>4 DEF Mid, Before, After
  <2> QED BY <1>1, <1>2, <1>4, <2>1, <2>2 DEF RollingBack
<1>11. ASSUME handler.name \in {"rollback", "undo"} PROVE Restoring'
  <2>1. Restoring
    BY <1>11, Facts DEF HandlerOK
  <2>2. /\ handler.id \in DOMAIN history /\ handler.path = history[handler.id].path
        /\ handler.content = history[handler.id].backup
    BY <1>4, <2>1 DEF Restoring
  <2>3. /\ step \in Before => disk'[handler.path] = history[handler.id].applied
        /\ step \in After => disk'[handler.path] = handler.content
    BY <1>8, <2>1 DEF Restoring
  <2> QED BY <1>1, <1>2, <2>2, <2>3 DEF Restoring
<1>12. HandlerOK'
  <2>1. handler'.name \in {"apply", "rollback", "undo"}
    BY <1>1 DEF Writers
  <2> QED BY <1>1, <1>4, <1>9, <1>10, <1>11, <2>1 DEF HandlerOK
<1>13. Survives'
  <2> SUFFICES ASSUME Verified PROVE Survives'
    BY DEF Survives, Verified
  <2>1. CASE disk' = disk /\ ~(handler.step \in After)
    <3>1. Discardable' \subseteq Discardable
      BY <1>1, <2>1 DEF Leads, Discardable, Before, After
    <3> QED BY <1>2, <1>3, <2>1, <3>1, Facts, SurvivesFrame
  <2>2. CASE handler.step \in After
    <3>1. Discardable' \subseteq Discardable /\ disk' = disk
      BY <1>1, <2>2 DEF Leads, Discardable, Before, After
    <3> QED BY <1>2, <1>3, <3>1, Facts, SurvivesFrame
  <2>3. CASE disk' # disk
    <3>1. step = "renamed" /\ handler.step \in Before
      BY <1>6, <1>8, <2>3
    <3>2. Discardable' = {}
      BY <1>1, <3>1 DEF Discardable, Before
    <3> SUFFICES ASSUME NEW p \in Paths PROVE Kept(p)'
      BY DEF Survives, Verified
    <3>3. Kept(p)
      BY Facts DEF Survives
    <3>4. CASE p # handler.path \/ disk[p] # written[p]
      <4>1. CASE p # handler.path
        BY <1>2, <1>3, <1>6, <3>2, <3>3, <4>1, KeptFrame
      <4>2. CASE disk[p] # written[p]
        BY <1>2, <3>2, <3>3, <4>2 DEF Kept, edits, FE
      <4> QED BY <3>4, <4>1, <4>2
    <3>5. CASE p = handler.path /\ disk[p] = written[p] /\ handler.name = "apply"
      <4>1. disk[p] = backups[handler.id] /\ handler.id \in DOMAIN backups
        BY <1>4, <3>1, <3>5, Facts DEF HandlerOK, Applying
      <4> QED BY <1>2, <3>2, <3>5, <4>1 DEF Kept
    <3>6. CASE p = handler.path /\ disk[p] = written[p] /\ handler.name # "apply"
      <4>1. disk[p] = history[handler.id].applied /\ handler.id \in DOMAIN history
        BY <1>4, <3>1, <3>6, Facts DEF HandlerOK, Restoring, Writers
      <4>2. history[handler.id].edit \in edits /\ FE(history[handler.id].edit).target = written[p]
        BY <3>6, <4>1, Facts, HistoryFacts
      <4> QED BY <1>2, <4>2 DEF Kept, edits, FE
    <3> QED BY <3>4, <3>5, <3>6
  <2> QED BY <2>1, <2>2, <2>3
<1> QED BY <1>3, <1>7, <1>12, <1>13 DEF Written

LEMMA Mishap ==
  ASSUME Written, NEW fault, fails(fault)
  PROVE  mishaps' \in 0..MaxMishaps /\ mishaps' # 0 /\ (mishaps' \in {0, 1} => mishaps = 0)
<1>1. mishaps \in Nat /\ MaxMishaps \in Nat /\ mishaps < MaxMishaps /\ mishaps' = mishaps + 1
  BY Facts DEF fails
<1> QED BY <1>1

LEMMA Journals ==
  ASSUME Written, addWriteJournalEntry, UNCHANGED dialog
  PROVE  Written'
<1>1. /\ handler.name \in Writers /\ handler.step = "ready to write" /\ goTo("journaled")
      /\ journal' = journal \union {handler.path} /\ temps' = temps /\ disk' = disk
      /\ mishaps' = mishaps /\ userWrites' = userWrites
      /\ UNCHANGED <<store, written, userWrites>>
  BY DEF addWriteJournalEntry, isAt, counters
<1>2. handler'.step = "journaled" /\ handler'.path = handler.path
  BY <1>1, Stepping DEF goTo
<1>3. handler.path \in Paths
  BY <1>1, WriteFacts DEF Mid, Before
<1>4. journal' \subseteq Paths /\ temps' \subseteq Paths /\ mishaps' \in 0..MaxMishaps
  BY <1>1, <1>3, Facts DEF ProjectOK
<1>5. Swept'
  BY <1>1, <1>2, Facts DEF Swept
<1>6. Leads("journaled")
  BY <1>1 DEF Leads, Before
<1> QED BY <1>1, <1>4, <1>5, <1>6, NextStep

LEMMA WritesTemp ==
  ASSUME Written, writeTemp, UNCHANGED dialog
  PROVE  Written'
<1>1. /\ handler.name \in Writers /\ handler.step = "journaled" /\ goTo("written")
      /\ temps' = temps \union {handler.path} /\ journal' = journal /\ disk' = disk
      /\ mishaps' = mishaps /\ UNCHANGED <<store, written, userWrites>>
  BY DEF writeTemp, isAt, counters
<1>2. handler'.step = "written" /\ handler'.path = handler.path
  BY <1>1, Stepping DEF goTo
<1>3. handler.path \in Paths
  BY <1>1, WriteFacts DEF Mid, Before
<1>4. journal' \subseteq Paths /\ temps' \subseteq Paths /\ mishaps' \in 0..MaxMishaps
  BY <1>1, <1>3, Facts DEF ProjectOK
<1>5. Swept'
  BY <1>1, <1>2, Facts DEF Swept
<1>6. Leads("written")
  BY <1>1 DEF Leads, Before
<1> QED BY <1>1, <1>4, <1>5, <1>6, NextStep

LEMMA RenamesTemp ==
  ASSUME Written, renameTemp, UNCHANGED dialog
  PROVE  Written'
<1>1. /\ handler.name \in Writers /\ handler.step = "written" /\ goTo("renamed")
      /\ temps' = temps \ {handler.path} /\ journal' = journal /\ mishaps' = mishaps
      /\ disk' = [disk EXCEPT ![handler.path] = handler.content]
      /\ UNCHANGED <<store, written, userWrites>>
  BY DEF renameTemp, isAt, counters
<1>2. handler'.step = "renamed" /\ handler'.path = handler.path
  BY <1>1, Stepping DEF goTo
<1>3. journal' \subseteq Paths /\ temps' \subseteq Paths /\ mishaps' \in 0..MaxMishaps
  BY <1>1, Facts DEF ProjectOK
<1>4. Swept'
  BY <1>1, <1>2, Facts DEF Swept
<1>5. Leads("renamed")
  BY <1>1 DEF Leads
<1> QED BY <1>1, <1>3, <1>4, <1>5, NextStep

LEMMA Verifies ==
  ASSUME Written, removeWriteJournalEntry, UNCHANGED dialog
  PROVE  Written'
<1>1. /\ handler.name \in Writers /\ handler.step = "renamed"
      /\ temps' = temps /\ journal' = journal \ {handler.path} /\ disk' = disk
      /\ UNCHANGED <<store, written, userWrites>>
      /\ \/ goTo("verified") /\ mishaps' = mishaps
         \/ goTo("failed") /\ fails("verify")
  BY DEF removeWriteJournalEntry, isAt
<1>2. journal' \subseteq Paths /\ temps' \subseteq Paths
  BY <1>1, Facts DEF ProjectOK
<1>3. mishaps \in {0, 1} => temps = {}
  BY <1>1, Facts DEF Swept
<1>4. CASE goTo("verified") /\ mishaps' = mishaps
  <2>1. handler'.step = "verified" /\ handler'.path = handler.path
    BY <1>4, Stepping DEF goTo
  <2>2. Swept' /\ mishaps' \in 0..MaxMishaps
    BY <1>1, <1>3, <1>4, <2>1, Facts DEF Swept, ProjectOK
  <2>3. Leads("verified")
    BY <1>1 DEF Leads
  <2> QED BY <1>1, <1>2, <1>4, <2>2, <2>3, NextStep
<1>5. CASE goTo("failed") /\ fails("verify")
  <2>1. handler'.step = "failed" /\ handler'.path = handler.path
    BY <1>5, Stepping DEF goTo
  <2>2. mishaps' \in 0..MaxMishaps /\ (mishaps' \in {0, 1} => mishaps = 0)
    BY <1>5, Mishap
  <2>3. Swept'
    BY <1>1, <1>3, <2>1, <2>2 DEF Swept
  <2>4. Leads("failed")
    BY <1>1, <1>5 DEF Leads, Verified, fails
  <2> QED BY <1>1, <1>2, <1>5, <2>2, <2>3, <2>4, NextStep
<1> QED BY <1>1, <1>4, <1>5

LEMMA WriteFails ==
  ASSUME Written, writeFails, UNCHANGED dialog
  PROVE  Written'
<1>1. /\ handler.name \in Writers /\ handler.step \in {"journaled", "written"}
      /\ goTo("unlinking") /\ fails("write") /\ journal' = journal \ {handler.path}
      /\ temps' \in {temps, temps \union {handler.path}} /\ disk' = disk
      /\ UNCHANGED <<store, written, userWrites>>
  BY DEF writeFails, isAt
<1>2. handler'.step = "unlinking" /\ handler'.path = handler.path
  BY <1>1, Stepping DEF goTo
<1>3. handler.path \in Paths
  BY <1>1, WriteFacts DEF Mid, Before
<1>4. /\ mishaps' \in 0..MaxMishaps /\ mishaps' # 0 /\ (mishaps' \in {0, 1} => mishaps = 0)
  BY <1>1, Mishap
<1>5. journal' \subseteq Paths /\ temps' \subseteq Paths
  BY <1>1, <1>3, Facts DEF ProjectOK
<1>6. Swept'
  <2>1. mishaps \in {0, 1} => temps \subseteq {handler.path}
    BY Facts DEF Swept
  <2> QED BY <1>1, <1>2, <1>4, <2>1 DEF Swept
<1>7. Leads("unlinking")
  BY <1>1 DEF Leads, Before
<1> QED BY <1>1, <1>4, <1>5, <1>6, <1>7, NextStep

LEMMA Unlinks ==
  ASSUME Written, unlinkTemp, UNCHANGED dialog
  PROVE  Written'
<1>1. /\ handler.name \in Writers /\ handler.step = "unlinking" /\ goTo("failed")
      /\ temps' = temps \ {handler.path} /\ journal' = journal /\ mishaps' = mishaps
      /\ disk' = disk /\ UNCHANGED <<store, written, userWrites>>
  BY DEF unlinkTemp, isAt, counters
<1>2. handler'.step = "failed" /\ handler'.path = handler.path
  BY <1>1, Stepping DEF goTo
<1>3. journal' \subseteq Paths /\ temps' \subseteq Paths /\ mishaps' \in 0..MaxMishaps
  BY <1>1, Facts DEF ProjectOK
<1>4. Swept'
  BY <1>1, <1>2, Facts DEF Swept
<1>5. Leads("failed")
  BY <1>1 DEF Leads
<1> QED BY <1>1, <1>3, <1>4, <1>5, NextStep

-----------------------------------------------------------------------------
(* The first layer: what a handler does between two writes.                *)

\* Only the handler changes, and it writes nothing on its way.
LEMMA HandlerActs ==
  ASSUME Written, handler.step \notin {"written", "unlinking"},
         UNCHANGED <<project, store, written, counters>>, UNCHANGED dialog,
         HandlerOK', handler'.step \notin {"journaled", "written", "unlinking"},
         Discardable' \subseteq Discardable
  PROVE  Written'
<1>1. /\ disk' = disk /\ temps' = temps /\ journal' = journal /\ backups' = backups
      /\ history' = history /\ proposal' = proposal /\ written' = written
      /\ mishaps' = mishaps /\ userWrites' = userWrites /\ selectedIds' = selectedIds
  BY DEF project, store, counters, dialog
<1>2. /\ Alike /\ ProposalOK' /\ StoreOK' /\ Selection(selectedIds)' /\ ProjectOK'
  BY <1>1, Facts, SameProposal, StoreFrame, SelectionFrame DEF ProposalOK, ProjectOK, edits
<1>3. Swept'
  <2>1. mishaps \in {0, 1} => temps = {}
    BY Facts DEF Swept
  <2> QED BY <1>1, <2>1 DEF Swept
<1>4. Survives'
  BY <1>1, <1>2, Facts, SurvivesFrame
<1> QED BY <1>2, <1>3, <1>4 DEF Written

LEMMA BacksUp ==
  ASSUME Written, createBackupSnapshot, UNCHANGED dialog
  PROVE  Written'
<1> DEFINE first == handler.todo[1]
<1>1. /\ handler.name = "apply" /\ handler.step = "begin" /\ handler.todo # <<>>
      /\ disk' = disk /\ temps' = temps /\ journal' = journal /\ history' = history
      /\ proposal' = proposal /\ written' = written /\ userWrites' = userWrites
      /\ selectedIds' = selectedIds
  BY DEF createBackupSnapshot, isAt, project, dialog
<1>2. /\ Applying /\ Selection(handler.todo) /\ handler.done \in Seq(DOMAIN history)
      /\ Head(handler.todo) = first /\ first \in edits
  <2>1. Applying /\ handler.todo \in Seq(edits) /\ NoRepeat(handler.todo)
    BY <1>1, Facts DEF HandlerOK, Applying, Selection
  <2> QED BY <1>1, <2>1, TailSelects DEF Applying, Selection
<1>3. Alike /\ ProposalOK' /\ Selection(selectedIds)'
  BY <1>1, Facts, SameProposal, SelectionFrame DEF ProposalOK, edits
<1>4. FE(first).path \in Paths /\ FE(first).target \in Text /\ disk[FE(first).path] \in Text
  BY <1>2, Facts DEF ProjectOK
<1>5. mishaps \in {0, 1} => temps = {}
  BY <1>1, Facts DEF Swept
<1>6. Discardable = {}
  BY <1>1 DEF Discardable, Before
<1>7. CASE /\ fails("backup") /\ backups' = backups
           /\ handler' = [handler EXCEPT !.firstError = TRUE, !.todo = <<>>]
  <2>1. /\ DOMAIN handler' = DOMAIN Idle /\ handler'.name = "apply" /\ handler'.step = "begin"
        /\ handler'.todo = <<>> /\ handler'.done = handler.done
    BY <1>1, <1>7, Facts DEF Idle
  <2>2. mishaps' \in 0..MaxMishaps /\ (mishaps' \in {0, 1} => mishaps = 0)
    BY <1>7, Mishap
  <2>3. StoreOK' /\ ProjectOK'
    BY <1>1, <1>3, <1>7, <2>2, Facts, StoreFrame DEF ProjectOK
  <2>4. Applying'
    <3>1. Selection(handler.todo)'
      BY <2>1, Emptied DEF Selection, NoRepeat
    <3> QED BY <1>1, <1>2, <2>1, <3>1 DEF Applying, Mid, Before, After
  <2>5. HandlerOK'
    BY <2>1, <2>4 DEF HandlerOK
  <2>6. Swept'
    BY <1>1, <1>5, <2>1, <2>2 DEF Swept
  <2>7. Survives'
    <3>1. Discardable' = {}
      BY <2>1 DEF Discardable, Before
    <3> QED BY <1>1, <1>3, <1>6, <1>7, <3>1, Facts, SurvivesFrame
  <2> QED BY <1>3, <2>3, <2>5, <2>6, <2>7 DEF Written
<1>8. ASSUME NEW id \in Ids \ DOMAIN backups, mishaps' = mishaps,
             backups' = With(backups, id, disk[FE(first).path]),
             handler' = [handler EXCEPT !.id = id, !.path = FE(first).path,
                                        !.content = FE(first).target, !.step = "ready to write"]
      PROVE  Written'
  <2>1. /\ DOMAIN handler' = DOMAIN Idle /\ handler'.name = "apply"
        /\ handler'.step = "ready to write" /\ handler'.todo = handler.todo
        /\ handler'.done = handler.done /\ handler'.id = id
        /\ handler'.path = FE(first).path /\ handler'.content = FE(first).target
    BY <1>1, <1>8, Facts DEF Idle
  <2>2. /\ DOMAIN backups' = DOMAIN backups \union {id}
        /\ \A other \in DOMAIN backups : backups'[other] = backups[other]
        /\ backups'[id] = disk[FE(first).path]
    BY <1>8 DEF With
  <2>3. StoreOK'
    <3>1. /\ DOMAIN backups' \subseteq Ids
          /\ \A other \in DOMAIN backups' : backups'[other] \in Text
          /\ DOMAIN history' \subseteq DOMAIN backups'
      BY <1>1, <1>4, <2>2, Facts DEF StoreOK
    <3> QED BY <1>1, <3>1, Facts DEF StoreOK, FE, edits
  <2>4. ProjectOK'
    BY <1>1, <1>8, Facts DEF ProjectOK
  <2>5. Applying'
    <3>1. Selection(handler.todo)'
      BY <1>2, <1>3, <2>1 DEF Alike, Selection, NoRepeat
    <3>2. id \in DOMAIN backups' \ DOMAIN history'
      BY <1>1, <2>2, Facts DEF StoreOK
    <3>3. /\ handler'.path = FE(handler.todo[1])'.path
          /\ handler'.content = FE(handler.todo[1])'.target
      BY <1>1, <2>1 DEF FE
    <3> QED BY <1>1, <1>2, <2>1, <2>2, <3>1, <3>2, <3>3 DEF Applying, Mid, Before, After
  <2>6. HandlerOK'
    BY <2>1, <2>5 DEF HandlerOK
  <2>7. Swept'
    BY <1>1, <1>5, <1>8, <2>1 DEF Swept
  <2>8. Survives'
    <3>1. Discardable' = {id}
      BY <2>1 DEF Discardable, Before
    <3> QED BY <1>1, <1>3, <1>6, <2>2, <3>1, Facts, SurvivesFrame
  <2> QED BY <1>3, <2>3, <2>4, <2>6, <2>7, <2>8 DEF Written
<1> QED BY <1>2, <1>7, <1>8 DEF createBackupSnapshot

LEMMA Discards ==
  ASSUME Written, discardBackup, UNCHANGED dialog
  PROVE  Written'
<1>1. /\ handler.name = "apply" /\ handler.step = "failed"
      /\ backups' = [id \in DOMAIN backups \ {handler.id} |-> backups[id]]
      /\ handler' = [handler EXCEPT !.firstError = TRUE, !.todo = <<>>, !.step = "begin"]
      /\ disk' = disk /\ temps' = temps /\ journal' = journal /\ history' = history
      /\ proposal' = proposal /\ written' = written /\ mishaps' = mishaps
      /\ userWrites' = userWrites /\ selectedIds' = selectedIds
  BY DEF discardBackup, isAt, project, counters, dialog
<1>2. /\ handler.done \in Seq(DOMAIN history) /\ handler.id \notin DOMAIN history
  BY <1>1, Facts DEF HandlerOK, Applying, Mid
<1>3. Alike /\ ProposalOK' /\ ProjectOK' /\ Selection(selectedIds)'
  BY <1>1, Facts, SameProposal, SelectionFrame DEF ProposalOK, ProjectOK, edits
<1>4. /\ DOMAIN handler' = DOMAIN Idle /\ handler'.name = "apply" /\ handler'.step = "begin"
      /\ handler'.todo = <<>> /\ handler'.done = handler.done
  BY <1>1, Facts DEF Idle
<1>5. /\ DOMAIN backups' = DOMAIN backups \ {handler.id}
      /\ \A id \in DOMAIN backups' : backups'[id] = backups[id]
  BY <1>1
<1>6. StoreOK'
  <2>1. /\ DOMAIN backups' \subseteq Ids /\ \A id \in DOMAIN backups' : backups'[id] \in Text
        /\ DOMAIN history' \subseteq DOMAIN backups'
    BY <1>1, <1>2, <1>5, Facts DEF StoreOK
  <2> QED BY <1>1, <2>1, Facts DEF StoreOK, FE, edits
<1>7. HandlerOK'
  <2>1. Selection(handler.todo)'
    BY <1>4, Emptied DEF Selection, NoRepeat
  <2>2. Applying'
    BY <1>1, <1>2, <1>4, <2>1 DEF Applying, Mid, Before, After
  <2> QED BY <1>4, <2>2 DEF HandlerOK
<1>8. Swept'
  <2>1. mishaps \in {0, 1} => temps = {}
    BY <1>1, Facts DEF Swept
  <2> QED BY <1>1, <1>4, <2>1 DEF Swept
<1>9. Survives'
  <2>1. Discardable = {handler.id} /\ Discardable' = {}
    BY <1>1, <1>4 DEF Discardable, Before
  <2> QED BY <1>1, <1>3, <1>5, <2>1, Facts, SurvivesFrame
<1> QED BY <1>3, <1>6, <1>7, <1>8, <1>9 DEF Written

LEMMA SavesApplied ==
  ASSUME Written, saveAppliedEdit, UNCHANGED dialog
  PROVE  Written'
<1> DEFINE first == handler.todo[1]
           new   == AppliedEdit(first, handler.path, backups[handler.id], handler.content)
<1>1. /\ handler.name = "apply" /\ handler.step = "verified"
      /\ history' = With(history, handler.id, AppliedEdit(Head(handler.todo), handler.path,
                                                          backups[handler.id], handler.content))
      /\ handler' = [handler EXCEPT !.done = Append(@, handler.id), !.todo = Tail(@),
                                    !.step = "begin"]
      /\ disk' = disk /\ temps' = temps /\ journal' = journal /\ backups' = backups
      /\ proposal' = proposal /\ written' = written /\ mishaps' = mishaps
      /\ userWrites' = userWrites /\ selectedIds' = selectedIds
  BY DEF saveAppliedEdit, isAt, project, counters, dialog
<1>2. /\ handler.todo \in Seq(edits) /\ NoRepeat(handler.todo) /\ handler.todo # <<>>
      /\ handler.done \in Seq(DOMAIN history) /\ handler.id \in DOMAIN backups \ DOMAIN history
      /\ handler.path = FE(first).path /\ handler.content = FE(first).target
  BY <1>1, Facts DEF HandlerOK, Applying, Selection, Mid, After
<1>3. /\ Tail(handler.todo) \in Seq(edits) /\ NoRepeat(Tail(handler.todo))
      /\ Head(handler.todo) = first /\ first \in edits
  BY <1>2, TailSelects
<1>4. Alike /\ ProposalOK' /\ ProjectOK' /\ Selection(selectedIds)'
  BY <1>1, Facts, SameProposal, SelectionFrame DEF ProposalOK, ProjectOK, edits
<1>5. /\ DOMAIN handler' = DOMAIN Idle /\ handler'.name = "apply" /\ handler'.step = "begin"
      /\ handler'.todo = Tail(handler.todo) /\ handler'.done = Append(handler.done, handler.id)
  BY <1>1, Facts DEF Idle
<1>6. /\ DOMAIN history' = DOMAIN history \union {handler.id}
      /\ \A id \in DOMAIN history : history'[id] = history[id]
      /\ history'[handler.id] = new
  BY <1>1, <1>2, <1>3 DEF With
<1>7. /\ new \in Record /\ new.edit = first /\ new.path = FE(first).path
      /\ new.applied = FE(first).target
  <2>1. /\ first \in Nat /\ handler.path \in Paths /\ handler.content \in Text
        /\ backups[handler.id] \in Text
    BY <1>2, <1>3, Facts DEF StoreOK
  <2> QED BY <1>2, <2>1 DEF Record, AppliedEdit
<1>8. StoreOK'
  <2> HIDE DEF new
  <2>1. DOMAIN backups' \subseteq Ids /\ \A id \in DOMAIN backups' : backups'[id] \in Text
    BY <1>1, Facts DEF StoreOK
  <2>2. DOMAIN history' \subseteq DOMAIN backups'
    BY <1>1, <1>2, <1>6, Facts DEF StoreOK
  <2>3. edits' = edits /\ \A e \in edits : FE(e)' = FE(e)
    BY <1>1 DEF edits, FE
  <2>4. ASSUME NEW id \in DOMAIN history'
        PROVE  /\ history'[id] \in Record /\ history'[id].edit \in edits
               /\ history'[id].path = FE(history'[id].edit).path
               /\ history'[id].applied = FE(history'[id].edit).target
    BY <1>3, <1>6, <1>7, Facts DEF StoreOK
  <2>5. ASSUME NEW id \in DOMAIN history'
        PROVE  FE(history[id].edit)' = FE(history'[id].edit)
    BY <1>1 DEF FE
  <2> QED BY <2>1, <2>2, <2>3, <2>4, <2>5 DEF StoreOK
<1>9. HandlerOK'
  <2>1. Selection(handler.todo)'
    BY <1>3, <1>4, <1>5 DEF Alike, Selection, NoRepeat
  <2>2. handler'.done \in Seq(DOMAIN history')
    <3> DEFINE D == DOMAIN history'
    <3>1. DOMAIN history \subseteq D /\ handler.id \in D
      BY <1>6
    <3> HIDE DEF D
    <3>2. handler.done \in Seq(D)
      BY <1>2, <3>1
    <3>3. Append(handler.done, handler.id) \in Seq(D)
      BY <3>1, <3>2
    <3> QED BY <1>5, <3>3 DEF D
  <2>3. Applying'
    BY <1>5, <2>1, <2>2 DEF Applying, Mid, Before, After
  <2> QED BY <1>5, <2>3 DEF HandlerOK
<1>10. Swept'
  <2>1. mishaps \in {0, 1} => temps = {}
    BY <1>1, Facts DEF Swept
  <2> QED BY <1>1, <1>5, <2>1 DEF Swept
<1>11. Survives'
  <2>1. Discardable = {} /\ Discardable' = {}
    BY <1>1, <1>5 DEF Discardable, Before
  <2> QED BY <1>1, <1>4, <2>1, Facts, SurvivesFrame
<1> QED BY <1>4, <1>8, <1>9, <1>10, <1>11 DEF Written

LEMMA EndsLoop ==
  ASSUME Written, endOfLoop, UNCHANGED dialog
  PROVE  Written'
<1>1. /\ handler.name = "apply" /\ handler.step = "begin" /\ handler.todo = <<>>
      /\ UNCHANGED <<project, store, written, counters>>
      /\ handler' = IF handler.firstError
                      THEN [handler EXCEPT !.name = "rollback", !.todo = handler.done]
                      ELSE [handler EXCEPT !.step = "end"]
  BY DEF endOfLoop, isAt
<1>2. history' = history /\ proposal' = proposal
  BY <1>1 DEF store
<1>3. Applying
  BY <1>1, Facts DEF HandlerOK
<1>4. CASE handler.firstError
  <2>1. /\ DOMAIN handler' = DOMAIN Idle /\ handler'.name = "rollback"
        /\ handler'.step = "begin" /\ handler'.todo = handler.done
    BY <1>1, <1>4, Facts DEF Idle
  <2>2. RollingBack' /\ Restoring'
    BY <1>2, <1>3, <2>1 DEF Applying, RollingBack, Restoring, Mid, Before, After
  <2>3. HandlerOK' /\ Discardable' = {}
    BY <2>1, <2>2 DEF HandlerOK, Discardable
  <2> QED BY <1>1, <2>1, <2>3, HandlerActs
<1>5. CASE ~handler.firstError
  <2>1. /\ DOMAIN handler' = DOMAIN Idle /\ handler'.name = "apply" /\ handler'.step = "end"
        /\ handler'.todo = handler.todo /\ handler'.done = handler.done
    BY <1>1, <1>5, Facts DEF Idle
  <2>2. Applying'
    BY <1>2, <1>3, <2>1 DEF Applying, Mid, Before, After, Selection, NoRepeat, edits
  <2>3. HandlerOK' /\ Discardable' = {}
    BY <2>1, <2>2 DEF HandlerOK, Discardable, Before
  <2> QED BY <1>1, <2>1, <2>3, HandlerActs
<1> QED BY <1>4, <1>5

LEMMA Answered ==
  ASSUME Written, applied
  PROVE  Written'
<1>1. /\ handler.name \in {"apply", "rollback"} /\ handler.step = "end" /\ handler' = Idle
      /\ UNCHANGED <<project, backups, history, written, counters>> /\ selectedIds' = selectedIds
      /\ \/ updateProposal(withStatus(ToSet(handler.selected), "failed"))
         \/ updateProposal(withStatus({history[id].edit : id \in ToSet(handler.done)}, "applied"))
  BY DEF applied, endApply, isAt
<1>2. Alike /\ ProposalOK'
  <2>1. "failed" \in FileEditStatus /\ "applied" \in FileEditStatus
    BY DEF FileEditStatus
  <2> QED BY <1>1, <2>1, Facts, Updates
<1>3. Selection(selectedIds)'
  BY <1>1, <1>2, Facts, SelectionFrame
<1> QED BY <1>1, <1>2, <1>3, GoesIdle

-----------------------------------------------------------------------------
(* The first layer: rollback, undo and restart.                            *)

LEMMA RollsBack ==
  ASSUME Written, rollbackNext, UNCHANGED dialog
  PROVE  Written'
<1> DEFINE first == Head(handler.todo)
<1>1. /\ handler.name = "rollback" /\ handler.step = "begin"
      /\ UNCHANGED <<project, store, written, counters>>
  BY DEF rollbackNext, isAt
<1>2. history' = history /\ disk' = disk
  BY <1>1 DEF store, project
<1>3. RollingBack /\ handler.todo \in Seq(DOMAIN history)
  BY <1>1, Facts DEF HandlerOK, RollingBack
<1>4. CASE handler.todo = <<>> /\ handler' = [handler EXCEPT !.step = "end"]
  <2>1. /\ DOMAIN handler' = DOMAIN Idle /\ handler'.name = "rollback"
        /\ handler'.step = "end" /\ handler'.todo = <<>>
    BY <1>1, <1>4, Facts DEF Idle
  <2>2. RollingBack' /\ Restoring'
    BY <1>2, <2>1, Emptied DEF RollingBack, Restoring, Mid, Before, After
  <2>3. HandlerOK' /\ Discardable' = {}
    BY <2>1, <2>2 DEF HandlerOK, Discardable
  <2> QED BY <1>1, <2>1, <2>3, HandlerActs
<1>5. CASE handler.todo # <<>> /\ mayRestore(first) /\ handler' = restoring(first)
  <2>1. first = handler.todo[1] /\ first \in DOMAIN history
    BY <1>3, <1>5
  <2>2. /\ DOMAIN handler' = DOMAIN Idle /\ handler'.name = "rollback"
        /\ handler'.step = "ready to write" /\ handler'.todo = handler.todo
        /\ handler'.id = first /\ handler'.path = history[first].path
        /\ handler'.content = history[first].backup
    BY <1>1, <1>5, Facts DEF Idle, restoring
  <2>3. RollingBack'
    BY <1>2, <1>3, <1>5, <2>1, <2>2 DEF RollingBack, Mid, Before, After
  <2>4. Restoring'
    <3>1. disk[history[first].path] = history[first].applied
      BY <1>5 DEF mayRestore
    <3> HIDE DEF first
    <3> QED BY <1>2, <2>1, <2>2, <3>1 DEF Restoring, Mid, Before, After
  <2>5. HandlerOK' /\ Discardable' = {}
    BY <2>2, <2>3, <2>4 DEF HandlerOK, Discardable
  <2> QED BY <1>1, <2>2, <2>5, HandlerActs
<1>6. CASE handler.todo # <<>> /\ handler' = [handler EXCEPT !.todo = Tail(@)]
  <2>1. /\ DOMAIN handler' = DOMAIN Idle /\ handler'.name = "rollback"
        /\ handler'.step = "begin" /\ handler'.todo = Tail(handler.todo)
    BY <1>1, <1>6, Facts DEF Idle
  <2>2. Tail(handler.todo) \in Seq(DOMAIN history)
    BY <1>3, <1>6, RestOf
  <2>3. RollingBack' /\ Restoring'
    BY <1>2, <2>1, <2>2 DEF RollingBack, Restoring, Mid, Before, After
  <2>4. HandlerOK' /\ Discardable' = {}
    BY <2>1, <2>3 DEF HandlerOK, Discardable
  <2> QED BY <1>1, <2>1, <2>4, HandlerActs
<1> QED
  <2>1. \/ handler.todo = <<>> /\ handler' = [handler EXCEPT !.step = "end"]
        \/ handler.todo # <<>> /\ mayRestore(first) /\ handler' = restoring(first)
        \/ handler.todo # <<>> /\ handler' = [handler EXCEPT !.todo = Tail(@)]
    BY DEF rollbackNext
  <2> QED BY <1>4, <1>5, <1>6, <2>1

LEMMA RollbackGoesOn ==
  ASSUME Written, rollbackFailed, UNCHANGED dialog
  PROVE  Written'
<1>1. /\ handler.name = "rollback" /\ handler.step = "failed"
      /\ handler' = [handler EXCEPT !.todo = Tail(@), !.step = "begin"]
      /\ UNCHANGED <<project, store, written, counters>>
  BY DEF rollbackFailed, isAt
<1>2. handler.todo \in Seq(DOMAIN history) /\ handler.todo # <<>> /\ history' = history
  BY <1>1, Facts DEF HandlerOK, RollingBack, Mid, store
<1>3. /\ DOMAIN handler' = DOMAIN Idle /\ handler'.name = "rollback"
      /\ handler'.step = "begin" /\ handler'.todo = Tail(handler.todo)
  BY <1>1, Facts DEF Idle
<1>4. Tail(handler.todo) \in Seq(DOMAIN history)
  BY <1>2, RestOf
<1>5. RollingBack' /\ Restoring'
  BY <1>2, <1>3, <1>4 DEF RollingBack, Restoring, Mid, Before, After
<1>6. HandlerOK' /\ Discardable' = {}
  BY <1>3, <1>5 DEF HandlerOK, Discardable
<1> QED BY <1>1, <1>3, <1>6, HandlerActs

LEMMA MarksUndone ==
  ASSUME Written, updateAppliedEdit, UNCHANGED dialog
  PROVE  Written'
<1>1. /\ handler.name \in {"rollback", "undo"} /\ handler.step = "verified"
      /\ history' = [history EXCEPT ![handler.id].undone = TRUE]
      /\ handler' = IF handler.name = "undo"
                      THEN [handler EXCEPT !.step = "undone"]
                      ELSE [handler EXCEPT !.todo = Tail(@), !.step = "begin"]
      /\ disk' = disk /\ temps' = temps /\ journal' = journal /\ backups' = backups
      /\ proposal' = proposal /\ written' = written /\ mishaps' = mishaps
      /\ userWrites' = userWrites /\ selectedIds' = selectedIds
  BY DEF updateAppliedEdit, isAt, project, counters, dialog
<1>2. handler.id \in DOMAIN history
  BY <1>1, Facts DEF HandlerOK, Restoring, Mid, After
<1>3. Alike /\ ProposalOK' /\ ProjectOK' /\ Selection(selectedIds)'
  BY <1>1, Facts, SameProposal, SelectionFrame DEF ProposalOK, ProjectOK, edits
<1>4. DOMAIN history' = DOMAIN history
  BY <1>1
<1>5. StoreOK'
  <2>1. DOMAIN backups' \subseteq Ids /\ \A id \in DOMAIN backups' : backups'[id] \in Text
    BY <1>1, Facts DEF StoreOK
  <2>2. DOMAIN history' \subseteq DOMAIN backups'
    BY <1>1, <1>4, Facts DEF StoreOK
  <2>3. ASSUME NEW r \in Record, NEW s, s = [r EXCEPT !.undone = TRUE]
        PROVE  s \in Record /\ s.edit = r.edit /\ s.path = r.path /\ s.applied = r.applied
    BY <2>3 DEF Record
  <2>4. ASSUME NEW id \in DOMAIN history
        PROVE  /\ history'[id] \in Record /\ history'[id].edit = history[id].edit
               /\ history'[id].path = history[id].path
               /\ history'[id].applied = history[id].applied
    <3>1. history[id] \in Record
      BY Facts DEF StoreOK
    <3>2. CASE id = handler.id
      BY <1>1, <1>2, <2>3, <3>1, <3>2
    <3>3. CASE id # handler.id
      BY <1>1, <3>1, <3>3
    <3> QED BY <3>2, <3>3
  <2>5. edits' = edits /\ \A e \in edits : FE(e)' = FE(e)
    BY <1>1 DEF edits, FE
  <2>6. ASSUME NEW id \in DOMAIN history'
        PROVE  /\ history'[id].edit \in edits
               /\ history'[id].path = FE(history'[id].edit).path
               /\ history'[id].applied = FE(history'[id].edit).target
    BY <1>4, <2>4, Facts DEF StoreOK
  <2>7. ASSUME NEW id \in DOMAIN history'
        PROVE  FE(history[id].edit)' = FE(history'[id].edit)
    BY <1>1 DEF FE
  <2> QED BY <1>4, <2>1, <2>2, <2>4, <2>5, <2>6, <2>7 DEF StoreOK
<1>6. DOMAIN handler' = DOMAIN Idle /\ handler'.name = handler.name
  BY <1>1, Facts DEF Idle
<1>7. handler.name = "undo" => handler'.step = "undone" /\ handler'.id = handler.id
  BY <1>1, Facts DEF Idle
<1>8. handler.name = "rollback" => handler'.step = "begin" /\ handler'.todo = Tail(handler.todo)
  BY <1>1, Facts DEF Idle
<1>9. HandlerOK'
  <2>1. CASE handler.name = "undo"
    <3>1. Restoring'
      BY <1>2, <1>4, <1>7, <2>1 DEF Restoring, Mid, Before, After
    <3> QED BY <1>6, <1>7, <2>1, <3>1 DEF HandlerOK
  <2>2. CASE handler.name = "rollback"
    <3>1. handler.todo \in Seq(DOMAIN history) /\ handler.todo # <<>>
      BY <1>1, <2>2, Facts DEF HandlerOK, RollingBack, Mid, After
    <3>2. Tail(handler.todo) \in Seq(DOMAIN history)
      BY <3>1, RestOf
    <3>3. RollingBack' /\ Restoring'
      BY <1>4, <1>8, <2>2, <3>2 DEF RollingBack, Restoring, Mid, Before, After
    <3> QED BY <1>6, <1>8, <2>2, <3>3 DEF HandlerOK
  <2> QED BY <1>1, <2>1, <2>2
<1>10. Swept'
  <2>1. mishaps \in {0, 1} => temps = {}
    BY <1>1, Facts DEF Swept
  <2>2. handler'.step \in {"undone", "begin"}
    BY <1>1, <1>7, <1>8
  <2> QED BY <1>1, <2>1, <2>2 DEF Swept
<1>11. Survives'
  <2>1. Discardable = {} /\ Discardable' = {}
    BY <1>1, <1>6 DEF Discardable
  <2> QED BY <1>1, <1>3, <2>1, Facts, SurvivesFrame
<1> QED BY <1>3, <1>5, <1>9, <1>10, <1>11 DEF Written

LEMMA Undoes ==
  ASSUME Written, undoApply, UNCHANGED dialog
  PROVE  Written'
<1>1. PICK id \in DOMAIN history :
        mayRestore(id) /\ handler' = [restoring(id) EXCEPT !.name = "undo", !.before = disk]
  BY DEF undoApply
<1>2. handler.name = "idle" /\ UNCHANGED <<project, store, written, counters>>
  BY DEF undoApply, idle
<1>3. history' = history /\ disk' = disk
  BY <1>2 DEF store, project
<1>4. /\ DOMAIN handler' = DOMAIN Idle /\ handler'.name = "undo"
      /\ handler'.step = "ready to write" /\ handler'.id = id
      /\ handler'.path = history[id].path /\ handler'.content = history[id].backup
  BY <1>1, Facts DEF Idle, restoring
<1>5. disk[history[id].path] = history[id].applied
  BY <1>1 DEF mayRestore
<1>6. Restoring'
  BY <1>3, <1>4, <1>5 DEF Restoring, Mid, Before, After
<1>7. HandlerOK' /\ Discardable' = {}
  BY <1>4, <1>6 DEF HandlerOK, Discardable, Mid, Before
<1>8. handler.step = "begin"
  BY <1>2, Facts DEF HandlerOK
<1> QED BY <1>2, <1>4, <1>7, <1>8, HandlerActs

LEMMA UndoEnds ==
  ASSUME Written, undoFailed \/ endUndo, UNCHANGED dialog
  PROVE  Written'
<1>1. /\ handler.step \in {"failed", "undone"} /\ handler' = Idle
      /\ UNCHANGED <<project, backups, history, written, counters>>
  BY DEF undoFailed, endUndo, isAt, store
<1>2. Alike /\ ProposalOK'
  <2>1. "stale" \in FileEditStatus
    BY DEF FileEditStatus
  <2>2. CASE undoFailed
    BY <2>2, Facts, SameProposal DEF undoFailed, store, ProposalOK, edits
  <2>3. CASE endUndo
    BY <2>1, <2>3, Facts, Updates DEF endUndo
  <2> QED BY <2>2, <2>3
<1>3. Selection(selectedIds)'
  BY <1>2, Facts, SelectionFrame DEF dialog
<1> QED BY <1>1, <1>2, <1>3, GoesIdle

LEMMA Restarts ==
  ASSUME Written, restart
  PROVE  Written'
<1>1. /\ mishaps < MaxMishaps /\ mishaps' = mishaps + 1 /\ handler' = Idle
      /\ journal' = {} /\ temps' = temps \ journal
      /\ disk' = disk /\ backups' = backups /\ history' = history /\ proposal' = proposal
      /\ written' = written /\ userWrites' = userWrites /\ selectedIds' = <<>>
  BY DEF restart, Restart, sweepWriteJournal, store, close
<1>2. Alike /\ ProposalOK' /\ StoreOK'
  BY <1>1, Facts, SameProposal, StoreFrame DEF ProposalOK, edits
<1>3. Selection(selectedIds)'
  BY <1>1, Emptied DEF Selection, NoRepeat
<1>4. ProjectOK'
  <2>1. mishaps' \in 0..MaxMishaps
    BY <1>1, Facts DEF ProjectOK
  <2> QED BY <1>1, <2>1, Facts DEF ProjectOK
<1>5. HandlerOK'
  BY <1>1 DEF HandlerOK, Idle
<1>6. Swept'
  <2>1. mishaps' \in {0, 1} => mishaps = 0
    BY <1>1, Facts
  <2>2. mishaps = 0 => temps \subseteq journal
    BY Facts DEF Swept
  <2> QED BY <1>1, <2>1, <2>2 DEF Swept, Idle
<1>7. Survives'
  <2>1. Discardable' = {}
    BY <1>1 DEF Discardable, Idle
  <2> QED BY <1>1, <1>2, <2>1, Facts, SurvivesFrame
<1> QED BY <1>2, <1>3, <1>4, <1>5, <1>6, <1>7 DEF Written

-----------------------------------------------------------------------------
(* The first layer: every step.                                            *)

LEMMA Starts == ReviewInit => Written
<1> SUFFICES ASSUME ReviewInit PROVE Written
  OBVIOUS
<1>1. /\ disk = Initial /\ temps = {} /\ journal = {} /\ backups = <<>> /\ history = <<>>
      /\ proposal = [status |-> "draft", fileEdits |-> <<>>] /\ handler = Idle
      /\ written = Initial /\ mishaps = 0 /\ userWrites = 0 /\ selectedIds = <<>>
  BY DEF ReviewInit, Init, Closed
<1>2. ProposalOK
  <2>1. "draft" \in EditProposalStatus
    BY DEF EditProposalStatus
  <2> QED BY <1>1, <2>1, Emptied DEF ProposalOK, edits
<1>3. ProjectOK
  BY <1>1, EditAssumption DEF ProjectOK
<1>4. StoreOK
  BY <1>1, Emptied DEF StoreOK
<1>5. Selection(selectedIds)
  BY <1>1, Emptied DEF Selection, NoRepeat
<1>6. HandlerOK /\ Swept
  BY <1>1 DEF HandlerOK, Swept, Idle
<1>7. Survives
  BY <1>1 DEF Survives, Kept
<1> QED BY <1>2, <1>3, <1>4, <1>5, <1>6, <1>7 DEF Written

LEMMA Actions == ASSUME Written, Next PROVE Written'
<1>1. ASSUME ServiceStep, UNCHANGED dialog PROVE Written'
  BY <1>1, RejectsOne, Undoes, Decides, BacksUp, Discards, SavesApplied, EndsLoop, Journals,
     WritesTemp, RenamesTemp, Verifies, WriteFails, Unlinks, RollsBack, RollbackGoesOn,
     MarksUndone, UndoEnds, UserWrites DEF ServiceStep
<1> QED BY <1>1, Proposes, Restarts, Selects, Applies, RejectsAll, Answered DEF Next

LEMMA Stutters == ASSUME Written, UNCHANGED allVars PROVE Written'
<1>1. UNCHANGED vars /\ selectedIds' = selectedIds /\ proposal' = proposal
  BY DEF allVars, vars, store, dialog
<1> QED BY <1>1, Facts, SameProposal, SelectionFrame, DialogActs

\* What a handler has in hand when it writes is what the file holds, and every text of
\* the user is kept, in every state.
THEOREM Invariant == Spec => []Written
<1>1. Written /\ [Next]_allVars => Written'
  BY Actions, Stutters
<1> QED BY Starts, <1>1, PTL DEF Spec

\* The variables have their types.
THEOREM TypeCorrect == Spec => []TypeOK
<1>1. Written => TypeOK
  <2> SUFFICES ASSUME Written PROVE TypeOK
    OBVIOUS
  <2>1. /\ DOMAIN history \subseteq Ids /\ DOMAIN backups \subseteq Ids
    BY Facts DEF StoreOK
  <2>2. /\ proposal.status \in EditProposalStatus
        /\ \A i \in DOMAIN proposal.fileEdits : proposal.fileEdits[i] \in EditRecord
    BY Facts DEF ProposalOK
  <2>3. \A fe \in EditRecord : fe.status \in FileEditStatus
    BY DEF EditRecord
  <2>4. handler.step \in Steps
    BY Facts DEF HandlerOK, Applying, RollingBack, Mid, Before, After, Steps
  <2> QED BY <2>1, <2>2, <2>3, <2>4, Facts DEF TypeOK, ProjectOK, HandlerOK
<1> QED BY Invariant, <1>1, PTL

LEMMA NoTempNow == Written => NoTempIsLeft
<1> SUFFICES ASSUME Written, idle, SingleMishap PROVE temps = {}
  BY DEF NoTempIsLeft
<1>1. handler.step = "begin" /\ mishaps \in {0, 1}
  BY Facts DEF HandlerOK, idle, SingleMishap
<1> QED BY <1>1, Facts DEF Swept

\* No temporary file stays in the project after one failure or one kill.
THEOREM NoTempStays == Spec => []NoTempIsLeft
BY Invariant, NoTempNow, PTL

\* What the user wrote last in a file is in the file, in a backup or in the proposal,
\* where a file that was written also verifies.
THEOREM UsersTextSurvives ==
  ASSUME Verified PROVE Spec => []ContentSurvives
<1>1. Written => ContentSurvives
  BY Facts DEF Survives, Kept, ContentSurvives
<1> QED BY Invariant, <1>1, PTL

-----------------------------------------------------------------------------
(* The second layer: the write of a file.                                  *)

\* An answer of the model has one edit for a file.
OneEditPerFile ==
  \A answer \in Answers : \A i, j \in DOMAIN fileEdits(answer) :
    fileEdits(answer)[i].path = fileEdits(answer)[j].path => i = j

LEMMA OneEachFrame == ASSUME OneEach, Alike PROVE OneEach'
BY DEF OneEach, Alike

\* What starts, ends or undoes no apply has only the proposal to keep.
LEMMA Elsewhere ==
  ASSUME Restorable, Alike, handler'.name \notin {"apply", "rollback"}
  PROVE  Restorable'
BY OneEachFrame DEF Restorable

\* Two applied edits of one file are of one edit of the proposal.
LEMMA OneEachFacts ==
  ASSUME StoreOK, OneEach
  PROVE  /\ \A i, j \in DOMAIN history :
              history[i].path = history[j].path => history[i].edit = history[j].edit
         /\ \A i \in DOMAIN history : \A e \in edits :
              history[i].path = FE(e).path => history[i].edit = e
BY HistoryFacts DEF OneEach

\* What the handlers of an apply go through is in the store.
LEMMA ApplyFacts ==
  ASSUME Written, handler.name = "apply"
  PROVE  /\ Applying /\ handler.todo \in Seq(edits) /\ NoRepeat(handler.todo)
         /\ \A k \in DOMAIN handler.todo :
              /\ handler.todo[k] \in edits /\ FE(handler.todo[k]).path \in Paths
              /\ handler.todo[k] = handler.todo[1] => k = 1
         /\ \A k \in DOMAIN handler.done : /\ handler.done[k] \in DOMAIN history
                                           /\ history[handler.done[k]].path \in Paths
<1>1. /\ Applying /\ handler.todo \in Seq(edits) /\ NoRepeat(handler.todo)
      /\ handler.done \in Seq(DOMAIN history)
  BY Facts DEF HandlerOK, Applying, Selection
<1>2. \A k \in DOMAIN handler.todo : handler.todo[k] \in edits /\ FE(handler.todo[k]).path \in Paths
  BY <1>1, Facts
<1>3. \A k \in DOMAIN handler.todo : handler.todo[k] = handler.todo[1] => k = 1
  <2> SUFFICES ASSUME NEW k \in DOMAIN handler.todo PROVE handler.todo[k] = handler.todo[1] => k = 1
    OBVIOUS
  <2>1. handler.todo # <<>>
    BY <1>1, Emptied
  <2>2. 1 \in DOMAIN handler.todo
    BY <1>1, <2>1, RestOf
  <2> QED BY <1>1, <2>2 DEF NoRepeat
<1>4. \A k \in DOMAIN handler.done : handler.done[k] \in DOMAIN history
  BY <1>1
<1> QED BY <1>1, <1>2, <1>3, <1>4, Facts, HistoryFacts

LEMMA RollbackFacts ==
  ASSUME Written, handler.name = "rollback"
  PROVE  /\ RollingBack /\ Restoring /\ handler.todo \in Seq(DOMAIN history)
         /\ \A k \in DOMAIN handler.todo : /\ handler.todo[k] \in DOMAIN history
                                           /\ history[handler.todo[k]].path \in Paths
         /\ handler.todo # <<>> => 1 \in DOMAIN handler.todo
<1>1. RollingBack /\ Restoring /\ handler.todo \in Seq(DOMAIN history)
  BY Facts DEF HandlerOK, RollingBack
<1>2. \A k \in DOMAIN handler.todo : handler.todo[k] \in DOMAIN history
  BY <1>1
<1>3. handler.todo # <<>> => 1 \in DOMAIN handler.todo
  BY <1>1, RestOf
<1> QED BY <1>1, <1>2, <1>3, Facts, HistoryFacts

\* A step of a write, and the mishap behind one that fails.
Writes(step) ==
  /\ handler.name \in Writers
  /\ Leads(step)
  /\ goTo(step)
  /\ UNCHANGED <<store, written, userWrites>>
  /\ mishaps' = mishaps \/ (mishaps' = mishaps + 1 /\ step \in {"unlinking", "failed"})
  /\ step = "unlinking" \/ (step = "failed" /\ handler.step = "renamed")
       => mishaps' = mishaps + 1

LEMMA WriteSteps ==
  ASSUME Written,
         addWriteJournalEntry \/ writeTemp \/ renameTemp \/ removeWriteJournalEntry
         \/ writeFails \/ unlinkTemp
  PROVE  \E step \in Mid : Writes(step)
<1>1. CASE addWriteJournalEntry
  <2>1. Writes("journaled")
    BY <1>1 DEF addWriteJournalEntry, isAt, Writes, Leads, Before, counters
  <2> QED BY <2>1 DEF Mid, Before
<1>2. CASE writeTemp
  <2>1. Writes("written")
    BY <1>2 DEF writeTemp, isAt, Writes, Leads, Before, counters
  <2> QED BY <2>1 DEF Mid, Before
<1>3. CASE renameTemp
  <2>1. Writes("renamed")
    BY <1>3 DEF renameTemp, isAt, Writes, Leads, Before, counters
  <2> QED BY <2>1 DEF Mid, After
<1>4. CASE removeWriteJournalEntry /\ goTo("verified") /\ mishaps' = mishaps
  <2>1. Writes("verified")
    BY <1>4 DEF removeWriteJournalEntry, isAt, Writes, Leads, Before
  <2> QED BY <2>1 DEF Mid, After
<1>5. CASE removeWriteJournalEntry /\ goTo("failed") /\ fails("verify")
  <2>1. Writes("failed")
    BY <1>5 DEF removeWriteJournalEntry, isAt, Writes, Leads, Before, fails, Verified
  <2> QED BY <2>1 DEF Mid
<1>6. CASE writeFails
  <2>1. Writes("unlinking")
    BY <1>6 DEF writeFails, isAt, Writes, Leads, Before, fails
  <2> QED BY <2>1 DEF Mid, Before
<1>7. CASE unlinkTemp
  <2>1. Writes("failed")
    BY <1>7 DEF unlinkTemp, isAt, Writes, Leads, Before, counters
  <2> QED BY <2>1 DEF Mid
<1> QED BY <1>1, <1>2, <1>3, <1>4, <1>5, <1>6, <1>7 DEF removeWriteJournalEntry, fails

LEMMA WritesFacts ==
  ASSUME Written, NEW step \in Mid, Writes(step)
  PROVE  /\ handler'.step = step /\ handler'.name = handler.name /\ handler'.todo = handler.todo
         /\ handler'.done = handler.done /\ handler'.id = handler.id
         /\ handler'.path = handler.path /\ handler'.content = handler.content
         /\ handler'.firstError = handler.firstError /\ handler'.before = handler.before
         /\ backups' = backups /\ history' = history /\ proposal' = proposal /\ Alike
         /\ handler.step \in Mid /\ handler.path \in Paths /\ handler.content \in Text
         /\ \A p \in Paths : p # handler.path => disk'[p] = disk[p]
         /\ step \notin After \union {"failed"} => handler.step \in Before /\ disk' = disk
         /\ step \in After => \/ handler.step \in After /\ disk' = disk
                              \/ disk'[handler.path] = handler.content
         /\ step = "failed" /\ Verified => handler.step \in Before /\ disk' = disk
         /\ mishaps \in Nat /\ (mishaps' = mishaps \/ mishaps' = mishaps + 1)
         /\ step \in {"unlinking", "failed"} => \/ mishaps' = mishaps + 1
                                                \/ handler.step = "unlinking"
<1>1. /\ handler'.step = step /\ handler'.name = handler.name /\ handler'.todo = handler.todo
      /\ handler'.done = handler.done /\ handler'.id = handler.id
      /\ handler'.path = handler.path /\ handler'.content = handler.content
      /\ handler'.firstError = handler.firstError /\ handler'.before = handler.before
  BY Stepping DEF Writes, goTo
<1>2. backups' = backups /\ history' = history /\ proposal' = proposal /\ Alike
  BY SameProposal DEF Writes, store
<1>3. Leads(step) /\ handler.name \in Writers
  BY DEF Writes
<1>4. handler.step \in Mid
  BY <1>3 DEF Leads, Mid, Before, After
<1>5. handler.path \in Paths /\ handler.content \in Text
  BY <1>3, <1>4, WriteFacts
<1>6. /\ \A p \in Paths : p # handler.path => disk'[p] = disk[p]
      /\ step = "renamed" => disk'[handler.path] = handler.content
  BY <1>3, <1>5, Facts DEF ProjectOK, Leads, Before
<1>7. /\ step \notin After \union {"failed"} => handler.step \in Before /\ disk' = disk
      /\ step \in After => \/ handler.step \in After /\ disk' = disk
                           \/ step = "renamed"
      /\ step = "failed" /\ Verified => handler.step \in Before /\ disk' = disk
  BY <1>3 DEF Leads, Before, After
<1>8. /\ mishaps \in Nat /\ (mishaps' = mishaps \/ mishaps' = mishaps + 1)
      /\ step \in {"unlinking", "failed"} => \/ mishaps' = mishaps + 1
                                             \/ handler.step = "unlinking"
  BY Facts DEF Writes, Leads, Before
<1> QED BY <1>1, <1>2, <1>4, <1>5, <1>6, <1>7, <1>8

LEMMA ApplyWrites ==
  ASSUME Written, Restorable, handler.name = "apply", NEW step \in Mid, Writes(step)
  PROVE  Restorable'
<1> DEFINE first == handler.todo[1]
<1>1. ApplyKnows /\ OneEach /\ handler.before \in [Paths -> Text]
  BY DEF Restorable
<1>2. /\ Applying /\ handler.todo # <<>> /\ handler.path = FE(first).path
      /\ 1 \in DOMAIN handler.todo /\ first \in edits
  BY WritesFacts, ApplyFacts, WriteFacts DEF Applying, Writes
<1>3. /\ handler'.step = step /\ handler'.name = "apply" /\ handler'.todo = handler.todo
      /\ handler'.done = handler.done /\ handler'.id = handler.id
      /\ handler'.path = handler.path /\ handler'.before = handler.before
      /\ handler'.firstError = handler.firstError
      /\ backups' = backups /\ history' = history /\ proposal' = proposal /\ Alike
  BY WritesFacts
<1>4. ASSUME NEW k \in DOMAIN handler.todo, k # 1
      PROVE  disk'[FE(handler.todo[k]).path] = disk[FE(handler.todo[k]).path]
  <2>1. FE(handler.todo[k]).path # handler.path
    BY <1>1, <1>2, <1>4, ApplyFacts DEF OneEach
  <2> QED BY <2>1, WritesFacts, ApplyFacts
<1>5. ASSUME NEW k \in DOMAIN handler.todo, k # 1 \/ step \notin After \union {"failed"}
      PROVE  /\ disk'[FE(handler.todo[k]).path] = FE(handler.todo[k]).base
             /\ disk'[FE(handler.todo[k]).path] = handler.before[FE(handler.todo[k]).path]
  <2>1. k # 1 \/ (handler.step \in Before /\ disk' = disk)
    BY <1>5, WritesFacts
  <2>2. k # 1 \/ handler.step \notin After \union {"failed"}
    BY <2>1 DEF Before, After
  <2> QED BY <1>1, <1>4, <2>1, <2>2 DEF ApplyKnows
<1>6. Untouched(handler.done, 0)'
  <2>1. Untouched(handler.done, 0)
    BY <1>1 DEF ApplyKnows
  <2>2. ASSUME NEW k \in DOMAIN handler.done
        PROVE  disk'[history[handler.done[k]].path] = disk[history[handler.done[k]].path]
    <3>1. history[handler.done[k]].edit # first
      BY <1>1, <1>2 DEF ApplyKnows
    <3>2. history[handler.done[k]].path # handler.path
      BY <1>1, <1>2, <3>1, ApplyFacts, OneEachFacts, Facts
    <3> QED BY <3>2, WritesFacts, ApplyFacts
  <2>3. \A k \in DOMAIN handler.done :
          /\ ~history[handler.done[k]].undone
          /\ history[handler.done[k]].backup = handler.before[history[handler.done[k]].path]
          /\ disk'[history[handler.done[k]].path] = history[handler.done[k]].applied
    <3>1. \A k \in DOMAIN handler.done : k # 0
      BY <1>2 DEF Applying
    <3> QED BY <2>1, <2>2, <3>1 DEF Untouched
  <2> QED BY <1>3, <2>1, <2>3 DEF Untouched
<1>7. ~handler.firstError
  BY <1>1, <1>2 DEF ApplyKnows
<1>8. step \in {"unlinking", "failed"} => mishaps' # 0
  BY <1>1, WritesFacts DEF ApplyKnows
<1>9. backups[handler.id] = handler.before[handler.path]
  BY <1>1, WritesFacts DEF ApplyKnows
<1>10. ASSUME Verified, NEW p \in Paths
       PROVE  \/ disk'[p] = handler.before[p]
              \/ p \in Changed(handler.done)
              \/ step \in After /\ p = handler.path
  <2>1. CASE p # handler.path
    BY <1>1, <1>10, <2>1, WritesFacts DEF ApplyKnows
  <2>2. CASE p = handler.path /\ step \notin After
    <3>1. handler.step \in Before /\ disk' = disk
      BY <1>10, <2>2, WritesFacts
    <3> QED BY <1>1, <1>10, <3>1 DEF ApplyKnows, Before, After
  <2> QED BY <2>1, <2>2
<1>11. ApplyKnows'
  <2>1. \A k \in DOMAIN handler'.todo : k # 1 \/ handler'.step \notin After \union {"failed"} =>
          /\ disk'[FE(handler.todo[k])'.path] = FE(handler.todo[k])'.base
          /\ disk'[FE(handler.todo[k])'.path] = handler'.before[FE(handler.todo[k])'.path]
    BY <1>3, <1>5 DEF FE
  <2>2. \A j \in DOMAIN handler'.todo, k \in DOMAIN handler'.done :
          history'[handler'.done[k]].edit # handler'.todo[j]
    BY <1>1, <1>3 DEF ApplyKnows
  <2>3. Changed(handler.done)' = Changed(handler.done)
    BY <1>3 DEF Changed
  <2>4. Verified => \A p \in Paths : \/ disk'[p] = handler'.before[p]
                                     \/ p \in Changed(handler.done)'
                                     \/ handler'.step \in After /\ p = handler'.path
    BY <1>3, <1>10, <2>3
  <2> QED BY <1>3, <1>6, <1>7, <1>8, <1>9, <2>1, <2>2, <2>4 DEF ApplyKnows, Verified
<1> QED BY <1>1, <1>3, <1>11, OneEachFrame DEF Restorable

LEMMA RollbackWrites ==
  ASSUME Written, Restorable, handler.name = "rollback", NEW step \in Mid, Writes(step)
  PROVE  Restorable'
<1> DEFINE ids == handler.todo
           old == IF handler.step \in After \union {"failed"} THEN 1 ELSE 0
           new == IF step \in After \union {"failed"} THEN 1 ELSE 0
<1>1. RollbackKnows /\ OneEach /\ handler.before \in [Paths -> Text]
  BY DEF Restorable
<1>2. /\ ids # <<>> /\ handler.id = ids[1] /\ 1 \in DOMAIN ids /\ ids[1] \in DOMAIN history
      /\ handler.path = history[ids[1]].path /\ handler.content = history[ids[1]].backup
  BY WritesFacts, RollbackFacts DEF RollingBack, Restoring
<1>3. /\ handler'.step = step /\ handler'.name = "rollback" /\ handler'.todo = handler.todo
      /\ handler'.id = handler.id /\ handler'.path = handler.path
      /\ handler'.before = handler.before
      /\ backups' = backups /\ history' = history /\ proposal' = proposal /\ Alike
  BY WritesFacts
<1>4. Untouched(ids, old)
  BY <1>1 DEF RollbackKnows
<1>5. mishaps \in Nat /\ mishaps # 0 /\ (mishaps' = mishaps \/ mishaps' = mishaps + 1)
  BY <1>1, WritesFacts DEF RollbackKnows
<1>6. step \in {"unlinking", "failed"} => mishaps' # 1
  <2>1. handler.step = "unlinking" => mishaps # 1
    BY <1>1 DEF RollbackKnows
  <2>2. step \in {"unlinking", "failed"} => mishaps' = mishaps + 1 \/ handler.step = "unlinking"
    BY WritesFacts
  <2> QED BY <1>5, <2>1, <2>2
<1>7. Untouched(ids, new)'
  <2>1. ASSUME NEW k \in DOMAIN ids, k # 1
        PROVE  disk'[history[ids[k]].path] = history[ids[k]].applied
    <3>1. history[ids[k]].edit # history[ids[1]].edit
      BY <1>2, <1>4, <2>1 DEF Untouched
    <3>2. history[ids[k]].path # handler.path
      BY <1>1, <1>2, <3>1, RollbackFacts, OneEachFacts, Facts
    <3>3. disk[history[ids[k]].path] = history[ids[k]].applied
      <4>1. k # old
        BY <2>1, RollbackFacts
      <4> QED BY <1>4, <4>1 DEF Untouched
    <3> QED BY <3>2, <3>3, WritesFacts, RollbackFacts
  <2>2. ASSUME NEW k \in DOMAIN ids, k # new
        PROVE  disk'[history[ids[k]].path] = history[ids[k]].applied
    <3>1. CASE k = 1
      <4>1. step \notin After \union {"failed"}
        BY <2>2, <3>1
      <4>2. disk' = disk /\ handler.step \in Before
        BY <4>1, WritesFacts
      <4>3. disk[handler.path] = history[handler.id].applied
        BY <4>2, RollbackFacts DEF Restoring
      <4> QED BY <1>2, <3>1, <4>2, <4>3
    <3> QED BY <2>1, <3>1
  <2>3. /\ \A j, k \in DOMAIN ids : history[ids[j]].edit = history[ids[k]].edit => j = k
        /\ \A k \in DOMAIN ids :
             /\ ~history[ids[k]].undone
             /\ history[ids[k]].backup = handler.before[history[ids[k]].path]
    BY <1>4 DEF Untouched
  <2> HIDE DEF old
  <2> QED BY <1>3, <2>2, <2>3 DEF Untouched
<1>8. step \in After => disk'[handler.path] = handler.before[handler.path]
  <2>1. history[ids[1]].backup = handler.before[handler.path]
    BY <1>2, <1>4 DEF Untouched
  <2>2. handler.step \in After => disk[handler.path] = handler.before[handler.path]
    BY <1>1 DEF RollbackKnows
  <2> QED BY <1>2, <2>1, <2>2, WritesFacts
<1>9. handler.path \in Changed(ids)
  BY <1>2 DEF Changed
<1>10. ASSUME Verified, NEW p \in Paths
       PROVE  \/ disk'[p] = handler.before[p]
              \/ p \in Changed(ids)
              \/ mishaps' # 1 /\ \E id \in DOMAIN history :
                                   history[id].path = p /\ ~history[id].undone
  <2>1. CASE p # handler.path
    <3>1. disk'[p] = disk[p]
      BY <2>1, WritesFacts
    <3>2. mishaps # 1 => mishaps' # 1
      BY <1>5
    <3> QED BY <1>1, <1>10, <3>1, <3>2 DEF RollbackKnows
  <2> QED BY <1>9, <2>1
<1>11. RollbackKnows'
  <2>1. Untouched(handler.todo, IF handler.step \in After \union {"failed"} THEN 1 ELSE 0)'
    BY <1>3, <1>7 DEF Untouched
  <2>2. Changed(handler.todo)' = Changed(ids)
    BY <1>3 DEF Changed
  <2>3. Verified => \A p \in Paths :
          \/ disk'[p] = handler'.before[p]
          \/ p \in Changed(handler.todo)'
          \/ mishaps' # 1 /\ \E id \in DOMAIN history' :
                               history'[id].path = p /\ ~history'[id].undone
    BY <1>3, <1>10, <2>2
  <2>4. mishaps' # 0
    BY <1>5
  <2> HIDE DEF new, old
  <2> QED BY <1>3, <1>6, <1>8, <2>1, <2>3, <2>4 DEF RollbackKnows, Verified
<1> QED BY <1>1, <1>3, <1>11, OneEachFrame DEF Restorable

-----------------------------------------------------------------------------
(* The second layer: between two writes.                                   *)

LEMMA ApplyStarts ==
  ASSUME Written, Restorable, handler.name \in {"idle", "asking"}, NEW ids, Selection(ids),
         begin(ids), UNCHANGED <<project, store, written, counters>>
  PROVE  Restorable'
<1>1. disk' = disk /\ proposal' = proposal /\ history' = history /\ Alike
  BY SameProposal DEF project, store
<1>2. CASE handler' = Idle
  BY <1>1, <1>2, Elsewhere DEF Idle
<1>3. CASE /\ preflightFileEdits(ids)
           /\ handler' = [Idle EXCEPT !.name = "apply", !.selected = ids, !.todo = ids,
                                      !.before = disk]
  <2>1. /\ handler'.name = "apply" /\ handler'.step = "begin" /\ handler'.todo = ids
        /\ handler'.done = <<>> /\ handler'.before = disk /\ handler'.firstError = FALSE
    BY <1>3 DEF Idle
  <2>2. \A k \in DOMAIN ids : disk[FE(ids[k]).path] = FE(ids[k]).base
    BY <1>3 DEF preflightFileEdits
  <2>3. \A k \in DOMAIN handler'.todo :
          /\ disk'[FE(handler.todo[k])'.path] = FE(handler.todo[k])'.base
          /\ disk'[FE(handler.todo[k])'.path] = handler'.before[FE(handler.todo[k])'.path]
    BY <1>1, <2>1, <2>2 DEF FE
  <2>4. Untouched(handler.done, 0)'
    BY <2>1, Emptied DEF Untouched
  <2>5. DOMAIN handler'.done = {}
    BY <2>1, Emptied
  <2>6. ApplyKnows'
    BY <1>1, <2>1, <2>3, <2>4, <2>5 DEF ApplyKnows, Mid, Before, After
  <2>7. disk \in [Paths -> Text]
    BY Facts DEF ProjectOK
  <2>8. OneEach'
    BY <1>1, OneEachFrame DEF Restorable
  <2> QED BY <2>1, <2>6, <2>7, <2>8 DEF Restorable
<1> QED BY <1>2, <1>3 DEF begin

LEMMA BackupKnows ==
  ASSUME Written, Restorable, createBackupSnapshot
  PROVE  Restorable'
<1> DEFINE first == handler.todo[1]
<1>1. /\ handler.name = "apply" /\ handler.step = "begin" /\ handler.todo # <<>>
      /\ disk' = disk /\ history' = history /\ proposal' = proposal
  BY DEF createBackupSnapshot, isAt, project
<1>2. /\ ApplyKnows /\ OneEach' /\ handler.before \in [Paths -> Text]
  BY <1>1, SameProposal, OneEachFrame DEF Restorable
<1>3. /\ Head(handler.todo) = first /\ 1 \in DOMAIN handler.todo
      /\ \A k \in DOMAIN handler.done : k # 0
  BY <1>1, ApplyFacts, RestOf DEF Applying
<1>4. ~handler.firstError
  BY <1>1, <1>2 DEF ApplyKnows
<1>5. /\ Untouched(handler.done, 0)
      /\ \A j \in DOMAIN handler.todo, k \in DOMAIN handler.done :
           history[handler.done[k]].edit # handler.todo[j]
      /\ Verified => \A p \in Paths : disk[p] = handler.before[p] \/ p \in Changed(handler.done)
  BY <1>1, <1>2 DEF ApplyKnows, After
<1>6. CASE /\ fails("backup")
           /\ handler' = [handler EXCEPT !.firstError = TRUE, !.todo = <<>>]
  <2>1. /\ handler'.name = "apply" /\ handler'.step = "begin" /\ handler'.todo = <<>>
        /\ handler'.done = handler.done /\ handler'.before = handler.before
    BY <1>1, <1>6, Facts DEF Idle
  <2>2. mishaps' # 0
    BY <1>6, Mishap
  <2>3. Untouched(handler.done, 0)' /\ Changed(handler.done)' = Changed(handler.done)
    BY <1>1, <1>5, <2>1 DEF Untouched, Changed
  <2>4. DOMAIN handler'.todo = {}
    BY <2>1, Emptied
  <2>5. ApplyKnows'
    BY <1>1, <1>5, <2>1, <2>2, <2>3, <2>4 DEF ApplyKnows, Verified, Mid, Before, After
  <2> QED BY <1>2, <2>1, <2>5 DEF Restorable
<1>7. ASSUME NEW id \in Ids \ DOMAIN backups, backups' = With(backups, id, disk[FE(first).path]),
             handler' = [handler EXCEPT !.id = id, !.path = FE(first).path,
                                        !.content = FE(first).target, !.step = "ready to write"]
      PROVE  Restorable'
  <2>1. /\ handler'.name = "apply" /\ handler'.step = "ready to write"
        /\ handler'.todo = handler.todo /\ handler'.done = handler.done /\ handler'.id = id
        /\ handler'.path = FE(first).path /\ handler'.before = handler.before
        /\ handler'.firstError = handler.firstError
    BY <1>1, <1>7, Facts DEF Idle
  <2>2. backups'[id] = disk[FE(first).path]
    BY <1>7 DEF With
  <2>3. \A k \in DOMAIN handler.todo :
          /\ disk[FE(handler.todo[k]).path] = FE(handler.todo[k]).base
          /\ disk[FE(handler.todo[k]).path] = handler.before[FE(handler.todo[k]).path]
    BY <1>1, <1>2 DEF ApplyKnows, After
  <2>4. backups'[handler'.id] = handler'.before[handler'.path]
    BY <1>3, <2>1, <2>2, <2>3
  <2>5. \A k \in DOMAIN handler'.todo :
          /\ disk'[FE(handler.todo[k])'.path] = FE(handler.todo[k])'.base
          /\ disk'[FE(handler.todo[k])'.path] = handler'.before[FE(handler.todo[k])'.path]
    BY <1>1, <2>1, <2>3 DEF FE
  <2>6. Untouched(handler.done, 0)' /\ Changed(handler.done)' = Changed(handler.done)
    <3>1. /\ handler'.done = handler.done /\ handler'.before = handler.before
          /\ disk' = disk /\ history' = history
      BY <1>1, <2>1
    <3> QED BY <1>5, <3>1 DEF Untouched, Changed
  <2>7. ApplyKnows'
    BY <1>1, <1>4, <1>5, <2>1, <2>4, <2>5, <2>6 DEF ApplyKnows, Verified
  <2> QED BY <1>2, <2>1, <2>7 DEF Restorable
<1> QED BY <1>3, <1>6, <1>7 DEF createBackupSnapshot

LEMMA DiscardKnows ==
  ASSUME Written, Restorable, discardBackup
  PROVE  Restorable'
<1>1. /\ handler.name = "apply" /\ handler.step = "failed"
      /\ handler' = [handler EXCEPT !.firstError = TRUE, !.todo = <<>>, !.step = "begin"]
      /\ disk' = disk /\ history' = history /\ proposal' = proposal /\ mishaps' = mishaps
  BY DEF discardBackup, isAt, project, counters
<1>2. /\ ApplyKnows /\ OneEach' /\ handler.before \in [Paths -> Text]
  BY <1>1, SameProposal, OneEachFrame DEF Restorable
<1>3. /\ handler'.name = "apply" /\ handler'.step = "begin" /\ handler'.todo = <<>>
      /\ handler'.done = handler.done /\ handler'.before = handler.before
  BY <1>1, Facts DEF Idle
<1>4. /\ mishaps # 0 /\ Untouched(handler.done, 0)
      /\ Verified => \A p \in Paths : disk[p] = handler.before[p] \/ p \in Changed(handler.done)
  BY <1>1, <1>2 DEF ApplyKnows, After
<1>5. Untouched(handler.done, 0)' /\ Changed(handler.done)' = Changed(handler.done)
  BY <1>1, <1>3, <1>4 DEF Untouched, Changed
<1>6. DOMAIN handler'.todo = {}
  BY <1>3, Emptied
<1>7. ApplyKnows'
  BY <1>1, <1>3, <1>4, <1>5, <1>6 DEF ApplyKnows, Verified, Mid, Before, After
<1> QED BY <1>2, <1>3, <1>7 DEF Restorable

LEMMA SaveKnows ==
  ASSUME Written, Restorable, saveAppliedEdit
  PROVE  Restorable'
<1> DEFINE first == handler.todo[1]
           done  == Append(handler.done, handler.id)
<1>1. /\ handler.name = "apply" /\ handler.step = "verified"
      /\ history' = With(history, handler.id, AppliedEdit(Head(handler.todo), handler.path,
                                                          backups[handler.id], handler.content))
      /\ handler' = [handler EXCEPT !.done = Append(@, handler.id), !.todo = Tail(@),
                                    !.step = "begin"]
      /\ disk' = disk /\ backups' = backups /\ proposal' = proposal /\ mishaps' = mishaps
  BY DEF saveAppliedEdit, isAt, project, counters
<1>2. /\ ApplyKnows /\ OneEach' /\ handler.before \in [Paths -> Text]
  BY <1>1, SameProposal, OneEachFrame DEF Restorable
<1>3. /\ handler.todo \in Seq(edits) /\ NoRepeat(handler.todo) /\ handler.todo # <<>>
      /\ handler.done \in Seq(DOMAIN history) /\ handler.id \in DOMAIN backups \ DOMAIN history
      /\ handler.path = FE(first).path /\ disk[handler.path] = handler.content
  BY <1>1, ApplyFacts DEF Applying, Mid, After
<1>4. /\ Head(handler.todo) = first /\ 1 \in DOMAIN handler.todo
      /\ \A k \in DOMAIN Tail(handler.todo) :
           /\ k + 1 \in DOMAIN handler.todo /\ k + 1 # 1
           /\ Tail(handler.todo)[k] = handler.todo[k + 1]
  BY <1>3, RestOf
<1>5. /\ handler'.name = "apply" /\ handler'.step = "begin"
      /\ handler'.todo = Tail(handler.todo) /\ handler'.done = done
      /\ handler'.before = handler.before /\ handler'.firstError = handler.firstError
  BY <1>1, Facts DEF Idle
<1>6. /\ DOMAIN history' = DOMAIN history \union {handler.id}
      /\ \A id \in DOMAIN history : history'[id] = history[id]
      /\ history'[handler.id].edit = first /\ history'[handler.id].path = handler.path
      /\ history'[handler.id].backup = backups[handler.id]
      /\ history'[handler.id].applied = handler.content
      /\ history'[handler.id].undone = FALSE
  BY <1>1, <1>3, <1>4 DEF With, AppliedEdit
<1>7. /\ \A k \in DOMAIN handler.done :
           /\ handler.done[k] \in DOMAIN history
           /\ k \in DOMAIN done /\ done[k] = handler.done[k]
      /\ \A k \in DOMAIN done : /\ k # 0
                                /\ \/ k \in DOMAIN handler.done /\ done[k] = handler.done[k]
                                   \/ k = Len(handler.done) + 1 /\ done[k] = handler.id
      /\ Len(handler.done) + 1 \in DOMAIN done /\ done[Len(handler.done) + 1] = handler.id
  BY <1>3
<1> HIDE DEF done
<1>8. /\ backups[handler.id] = handler.before[handler.path]
      /\ Untouched(handler.done, 0)
      /\ \A j \in DOMAIN handler.todo, k \in DOMAIN handler.done :
           history[handler.done[k]].edit # handler.todo[j]
  BY <1>1, <1>2 DEF ApplyKnows, Mid, After
<1>9. ~handler.firstError
  BY <1>2, <1>3 DEF ApplyKnows
<1>10. \A k \in DOMAIN Tail(handler.todo) :
         /\ disk'[FE(Tail(handler.todo)[k]).path] = FE(Tail(handler.todo)[k]).base
         /\ disk'[FE(Tail(handler.todo)[k]).path]
              = handler.before[FE(Tail(handler.todo)[k]).path]
  BY <1>1, <1>2, <1>4 DEF ApplyKnows
<1>11. \A k \in DOMAIN done :
         /\ ~history'[done[k]].undone
         /\ history'[done[k]].backup = handler.before[history'[done[k]].path]
         /\ disk[history'[done[k]].path] = history'[done[k]].applied
  <2> SUFFICES ASSUME NEW k \in DOMAIN done
               PROVE  /\ ~history'[done[k]].undone
                      /\ history'[done[k]].backup = handler.before[history'[done[k]].path]
                      /\ disk[history'[done[k]].path] = history'[done[k]].applied
    OBVIOUS
  <2>1. CASE k \in DOMAIN handler.done /\ done[k] = handler.done[k]
    BY <1>6, <1>7, <1>8, <2>1 DEF Untouched
  <2>2. CASE done[k] = handler.id
    BY <1>3, <1>6, <1>8, <2>2
  <2> QED BY <1>7, <2>1, <2>2
<1>12. \A j, k \in DOMAIN done : history'[done[j]].edit = history'[done[k]].edit => j = k
  <2>1. \A k \in DOMAIN handler.done : history'[handler.done[k]].edit # first
    BY <1>4, <1>6, <1>7, <1>8
  <2>2. \A j, k \in DOMAIN handler.done :
          history'[handler.done[j]].edit = history'[handler.done[k]].edit => j = k
    BY <1>6, <1>7, <1>8 DEF Untouched
  <2> QED BY <1>6, <1>7, <2>1, <2>2
<1>13. ASSUME NEW j \in DOMAIN Tail(handler.todo), NEW k \in DOMAIN done
       PROVE  history'[done[k]].edit # Tail(handler.todo)[j]
  <2>1. CASE k \in DOMAIN handler.done /\ done[k] = handler.done[k]
    BY <1>4, <1>6, <1>7, <1>8, <2>1
  <2>2. CASE done[k] = handler.id
    BY <1>4, <1>6, <2>2, ApplyFacts, <1>1
  <2> QED BY <1>7, <2>1, <2>2
<1>14. ASSUME Verified, NEW p \in Paths
       PROVE  disk[p] = handler.before[p] \/ \E k \in DOMAIN done : history'[done[k]].path = p
  <2>1. CASE p = handler.path
    BY <1>6, <1>7, <2>1
  <2>2. CASE p \in Changed(handler.done)
    BY <1>6, <1>7, <2>2 DEF Changed
  <2> QED BY <1>2, <1>14, <2>1, <2>2 DEF ApplyKnows
<1>15. ApplyKnows'
  <2>1. Untouched(handler.done, 0)'
    <3>1. handler'.done = done /\ handler'.before = handler.before /\ disk' = disk
      BY <1>1, <1>5
    <3> QED BY <1>11, <1>12, <3>1 DEF Untouched
  <2>2. \A k \in DOMAIN handler'.todo :
          /\ disk'[FE(handler.todo[k])'.path] = FE(handler.todo[k])'.base
          /\ disk'[FE(handler.todo[k])'.path] = handler'.before[FE(handler.todo[k])'.path]
    BY <1>1, <1>5, <1>10 DEF FE
  <2>3. Verified => \A p \in Paths : disk'[p] = handler'.before[p] \/ p \in Changed(handler.done)'
    BY <1>1, <1>5, <1>14 DEF Changed
  <2> QED BY <1>5, <1>9, <1>13, <2>1, <2>2, <2>3 DEF ApplyKnows, Verified, Mid, Before, After
<1> QED BY <1>2, <1>5, <1>15 DEF Restorable

LEMMA LoopKnows ==
  ASSUME Written, Restorable, endOfLoop
  PROVE  Restorable'
<1>1. /\ handler.name = "apply" /\ handler.step = "begin" /\ handler.todo = <<>>
      /\ handler' = IF handler.firstError
                      THEN [handler EXCEPT !.name = "rollback", !.todo = handler.done]
                      ELSE [handler EXCEPT !.step = "end"]
      /\ disk' = disk /\ history' = history /\ proposal' = proposal /\ mishaps' = mishaps
  BY DEF endOfLoop, isAt, project, store, counters
<1>2. /\ ApplyKnows /\ OneEach' /\ handler.before \in [Paths -> Text]
  BY <1>1, SameProposal, OneEachFrame DEF Restorable
<1>3. /\ Untouched(handler.done, 0)
      /\ Verified => \A p \in Paths : disk[p] = handler.before[p] \/ p \in Changed(handler.done)
  BY <1>1, <1>2 DEF ApplyKnows, After
<1>4. CASE handler.firstError
  <2>1. /\ handler'.name = "rollback" /\ handler'.step = "begin"
        /\ handler'.todo = handler.done /\ handler'.before = handler.before
    BY <1>1, <1>4, Facts DEF Idle
  <2>2. mishaps' # 0
    BY <1>1, <1>2, <1>4 DEF ApplyKnows
  <2>3. Untouched(handler.todo, 0)' /\ Changed(handler.todo)' = Changed(handler.done)
    <3>1. /\ handler'.todo = handler.done /\ handler'.before = handler.before
          /\ disk' = disk /\ history' = history
      BY <1>1, <2>1
    <3> QED BY <1>3, <3>1 DEF Untouched, Changed
  <2>4. Verified => \A p \in Paths : \/ disk'[p] = handler'.before[p]
                                     \/ p \in Changed(handler.todo)'
    BY <1>1, <1>3, <2>1, <2>3
  <2>5. RollbackKnows'
    BY <2>1, <2>2, <2>3, <2>4 DEF RollbackKnows, Verified, After
  <2> QED BY <1>2, <2>1, <2>5 DEF Restorable
<1>5. CASE ~handler.firstError
  <2>1. /\ handler'.name = "apply" /\ handler'.step = "end" /\ handler'.todo = <<>>
        /\ handler'.done = handler.done /\ handler'.before = handler.before
        /\ handler'.firstError = handler.firstError
    BY <1>1, <1>5, Facts DEF Idle
  <2>2. Untouched(handler.done, 0)' /\ Changed(handler.done)' = Changed(handler.done)
    <3>1. /\ handler'.done = handler.done /\ handler'.before = handler.before
          /\ disk' = disk /\ history' = history
      BY <1>1, <2>1
    <3> QED BY <1>3, <3>1 DEF Untouched, Changed
  <2>3. Verified => \A p \in Paths : \/ disk'[p] = handler'.before[p]
                                     \/ p \in Changed(handler.done)'
    BY <1>1, <1>3, <2>1, <2>2
  <2>4. DOMAIN handler'.todo = {}
    BY <2>1, Emptied
  <2>5. ApplyKnows'
    BY <1>5, <2>1, <2>2, <2>3, <2>4 DEF ApplyKnows, Verified, Mid, Before, After
  <2> QED BY <1>2, <2>1, <2>5 DEF Restorable
<1> QED BY <1>4, <1>5

\* What is left of a rollback is still to be found as Apply left it.
LEMMA UntouchedRest ==
  ASSUME NEW s, NEW S, s \in Seq(S), s # <<>>, NEW first \in {0, 1}, Untouched(s, first)
  PROVE  /\ Untouched(Tail(s), 0)
         /\ \A k \in DOMAIN Tail(s) : history[Tail(s)[k]].edit # history[s[1]].edit
         /\ \A p \in Changed(s) : p \in Changed(Tail(s)) \/ p = history[s[1]].path
<1> DEFINE rest == Tail(s)
<1>1. /\ 1 \in DOMAIN s /\ DOMAIN s \subseteq Nat
      /\ \A k \in DOMAIN rest : k \in Nat /\ k + 1 \in DOMAIN s /\ k + 1 # 1 /\ k + 1 # 0
                                /\ rest[k] = s[k + 1]
      /\ \A k \in DOMAIN s : k # 1 => k - 1 \in DOMAIN rest /\ rest[k - 1] = s[k]
  <2>1. /\ Len(s) \in Nat /\ Len(s) >= 1 /\ DOMAIN s = 1..Len(s)
        /\ DOMAIN rest = 1..(Len(s) - 1)
        /\ \A k \in 1..(Len(s) - 1) : rest[k] = s[k + 1]
    OBVIOUS
  <2> HIDE DEF rest
  <2>2. \A k \in DOMAIN s : k # 1 => k - 1 \in 1..(Len(s) - 1) /\ (k - 1) + 1 = k
    BY <2>1
  <2>3. \A k \in DOMAIN s : k # 1 => k - 1 \in DOMAIN rest /\ rest[k - 1] = s[k]
    BY <2>1, <2>2
  <2>4. \A k \in DOMAIN rest : k \in Nat /\ k + 1 \in DOMAIN s /\ k + 1 # 1 /\ k + 1 # 0
                               /\ rest[k] = s[k + 1]
    BY <2>1
  <2>5. 1 \in DOMAIN s /\ DOMAIN s \subseteq Nat
    BY <2>1
  <2> QED BY <2>3, <2>4, <2>5
<1> HIDE DEF rest
<1>2. /\ \A j, k \in DOMAIN s : history[s[j]].edit = history[s[k]].edit => j = k
      /\ \A k \in DOMAIN s : /\ ~history[s[k]].undone
                             /\ history[s[k]].backup = handler.before[history[s[k]].path]
                             /\ k # first => disk[history[s[k]].path] = history[s[k]].applied
  BY DEF Untouched
<1>3. \A k \in DOMAIN rest :
        /\ ~history[rest[k]].undone
        /\ history[rest[k]].backup = handler.before[history[rest[k]].path]
        /\ disk[history[rest[k]].path] = history[rest[k]].applied
        /\ history[rest[k]].edit # history[s[1]].edit
  BY <1>1, <1>2
<1>4. \A j, k \in DOMAIN rest : history[rest[j]].edit = history[rest[k]].edit => j = k
  <2> SUFFICES ASSUME NEW j \in DOMAIN rest, NEW k \in DOMAIN rest,
                      history[rest[j]].edit = history[rest[k]].edit
               PROVE  j = k
    OBVIOUS
  <2>1. /\ j + 1 \in DOMAIN s /\ k + 1 \in DOMAIN s
        /\ rest[j] = s[j + 1] /\ rest[k] = s[k + 1]
    BY <1>1
  <2>2. history[s[j + 1]].edit = history[s[k + 1]].edit
    BY <2>1
  <2>3. j + 1 = k + 1
    BY <1>2, <2>1, <2>2
  <2>4. j \in Nat /\ k \in Nat
    BY <1>1
  <2> QED BY <2>3, <2>4
<1>5. ASSUME NEW p \in Changed(s)
      PROVE  p \in Changed(rest) \/ p = history[s[1]].path
  <2>1. PICK k \in DOMAIN s : p = history[s[k]].path
    BY DEF Changed
  <2>2. CASE k = 1
    BY <2>1, <2>2
  <2>3. CASE k # 1
    <3>1. k - 1 \in DOMAIN rest /\ rest[k - 1] = s[k]
      BY <1>1, <2>3
    <3> QED BY <2>1, <3>1 DEF Changed
  <2> QED BY <2>2, <2>3
<1> QED BY <1>3, <1>4, <1>5 DEF Untouched, rest

LEMMA RollbackNextKnows ==
  ASSUME Written, Restorable, rollbackNext
  PROVE  Restorable'
<1> DEFINE first == Head(handler.todo)
<1>1. /\ handler.name = "rollback" /\ handler.step = "begin"
      /\ disk' = disk /\ history' = history /\ proposal' = proposal /\ mishaps' = mishaps
  BY DEF rollbackNext, isAt, project, store, counters
<1>2. /\ RollbackKnows /\ OneEach' /\ handler.before \in [Paths -> Text]
  BY <1>1, SameProposal, OneEachFrame DEF Restorable
<1>3. /\ mishaps # 0 /\ Untouched(handler.todo, 0)
      /\ Verified => \A p \in Paths :
           \/ disk[p] = handler.before[p]
           \/ p \in Changed(handler.todo)
           \/ mishaps # 1 /\ \E id \in DOMAIN history : history[id].path = p /\ ~history[id].undone
  BY <1>1, <1>2 DEF RollbackKnows, After
<1>4. ASSUME handler'.name = "rollback", handler'.before = handler.before,
             handler'.todo = handler.todo, handler'.step \in {"end", "ready to write"}
      PROVE  Restorable'
  <2>1. Untouched(handler.todo, 0)' /\ Changed(handler.todo)' = Changed(handler.todo)
    <3>1. /\ handler'.todo = handler.todo /\ handler'.before = handler.before
          /\ disk' = disk /\ history' = history
      BY <1>1, <1>4
    <3>2. Untouched(handler.todo, 0)
      BY <1>3
    <3> QED BY <3>1, <3>2 DEF Untouched, Changed
  <2>2. Verified => \A p \in Paths :
           \/ disk'[p] = handler'.before[p]
           \/ p \in Changed(handler.todo)'
           \/ mishaps' # 1 /\ \E id \in DOMAIN history' :
                                history'[id].path = p /\ ~history'[id].undone
    BY <1>1, <1>3, <1>4, <2>1
  <2>3. handler'.step \notin After \union {"failed", "unlinking"}
    BY <1>4 DEF After
  <2>4. RollbackKnows'
    BY <1>1, <1>3, <2>1, <2>2, <2>3 DEF RollbackKnows, Verified
  <2> QED BY <1>2, <1>4, <2>4 DEF Restorable
<1>5. CASE handler.todo = <<>> /\ handler' = [handler EXCEPT !.step = "end"]
  <2>1. /\ handler'.name = "rollback" /\ handler'.step = "end"
        /\ handler'.todo = handler.todo /\ handler'.before = handler.before
    BY <1>1, <1>5, Facts DEF Idle
  <2> QED BY <1>4, <2>1
<1>6. CASE handler.todo # <<>> /\ handler' = restoring(first)
  <2>1. /\ handler'.name = "rollback" /\ handler'.step = "ready to write"
        /\ handler'.todo = handler.todo /\ handler'.before = handler.before
    BY <1>1, <1>6, Facts DEF Idle, restoring
  <2> QED BY <1>4, <2>1
\* The file is as Apply left it: nothing is skipped.
<1>7. ASSUME handler.todo # <<>> PROVE mayRestore(first)
  <2>1. /\ first = handler.todo[1] /\ 1 \in DOMAIN handler.todo /\ first \in DOMAIN history
    BY <1>1, <1>7, RollbackFacts, RestOf
  <2>2. disk[history[handler.todo[1]].path] = history[handler.todo[1]].applied
    BY <1>3, <2>1 DEF Untouched
  <2>3. first \in DOMAIN backups
    BY <2>1, Facts, HistoryFacts
  <2> QED BY <2>1, <2>2, <2>3 DEF mayRestore
<1> QED
  <2>1. \/ handler.todo = <<>> /\ handler' = [handler EXCEPT !.step = "end"]
        \/ handler.todo # <<>> /\ handler' = restoring(first)
    BY <1>7 DEF rollbackNext
  <2> QED BY <1>5, <1>6, <2>1

LEMMA RollbackFailedKnows ==
  ASSUME Written, Restorable, rollbackFailed
  PROVE  Restorable'
<1> DEFINE rest == Tail(handler.todo)
           last == handler.todo[1]
<1>1. /\ handler.name = "rollback" /\ handler.step = "failed"
      /\ handler' = [handler EXCEPT !.todo = Tail(@), !.step = "begin"]
      /\ disk' = disk /\ history' = history /\ proposal' = proposal /\ mishaps' = mishaps
  BY DEF rollbackFailed, isAt, project, store, counters
<1>2. /\ RollbackKnows /\ OneEach' /\ handler.before \in [Paths -> Text]
  BY <1>1, SameProposal, OneEachFrame DEF Restorable
<1>3. /\ handler.todo \in Seq(DOMAIN history) /\ handler.todo # <<>>
      /\ last \in DOMAIN history /\ 1 \in DOMAIN handler.todo
  BY <1>1, RollbackFacts DEF RollingBack, Mid
<1>4. /\ mishaps # 0 /\ mishaps # 1 /\ Untouched(handler.todo, 1)
      /\ Verified => \A p \in Paths :
           \/ disk[p] = handler.before[p]
           \/ p \in Changed(handler.todo)
           \/ \E id \in DOMAIN history : history[id].path = p /\ ~history[id].undone
  BY <1>1, <1>2 DEF RollbackKnows
<1>5. /\ Untouched(rest, 0)
      /\ \A p \in Changed(handler.todo) : p \in Changed(rest) \/ p = history[last].path
  BY <1>3, <1>4, UntouchedRest
<1>6. ~history[last].undone
  BY <1>3, <1>4 DEF Untouched
<1>7. /\ handler'.name = "rollback" /\ handler'.step = "begin"
      /\ handler'.todo = rest /\ handler'.before = handler.before
  BY <1>1, Facts DEF Idle
<1> HIDE DEF rest, last
<1>8. Untouched(handler.todo, 0)' /\ Changed(handler.todo)' = Changed(rest)
  <2>1. /\ handler'.todo = rest /\ handler'.before = handler.before
        /\ disk' = disk /\ history' = history
    BY <1>1, <1>7
  <2> QED BY <1>5, <2>1 DEF Untouched, Changed
<1>9. Verified => \A p \in Paths :
        \/ disk'[p] = handler'.before[p]
        \/ p \in Changed(handler.todo)'
        \/ mishaps' # 1 /\ \E id \in DOMAIN history' :
                             history'[id].path = p /\ ~history'[id].undone
  BY <1>1, <1>3, <1>4, <1>5, <1>6, <1>7, <1>8
<1>10. RollbackKnows'
  BY <1>1, <1>4, <1>7, <1>8, <1>9 DEF RollbackKnows, Verified, After
<1> QED BY <1>2, <1>7, <1>10 DEF Restorable

LEMMA MarksKnow ==
  ASSUME Written, Restorable, updateAppliedEdit, handler.name = "rollback"
  PROVE  Restorable'
<1> DEFINE rest == Tail(handler.todo)
           id   == handler.id
<1>1. /\ handler.step = "verified"
      /\ history' = [history EXCEPT ![id].undone = TRUE]
      /\ handler' = [handler EXCEPT !.todo = Tail(@), !.step = "begin"]
      /\ disk' = disk /\ proposal' = proposal /\ mishaps' = mishaps
  BY DEF updateAppliedEdit, isAt, project, counters
<1>2. /\ RollbackKnows /\ OneEach' /\ handler.before \in [Paths -> Text]
  BY <1>1, SameProposal, OneEachFrame DEF Restorable
<1>3. /\ handler.todo \in Seq(DOMAIN history) /\ handler.todo # <<>>
      /\ id = handler.todo[1] /\ id \in DOMAIN history /\ handler.path = history[id].path
  BY <1>1, RollbackFacts DEF RollingBack, Restoring, Mid, After
<1>4. /\ mishaps # 0 /\ Untouched(handler.todo, 1)
      /\ disk[handler.path] = handler.before[handler.path]
      /\ Verified => \A p \in Paths :
           \/ disk[p] = handler.before[p]
           \/ p \in Changed(handler.todo)
           \/ mishaps # 1 /\ \E i \in DOMAIN history : history[i].path = p /\ ~history[i].undone
  BY <1>1, <1>2 DEF RollbackKnows, After
<1>5. /\ Untouched(rest, 0)
      /\ \A k \in DOMAIN rest : history[rest[k]].edit # history[id].edit
      /\ \A p \in Changed(handler.todo) : p \in Changed(rest) \/ p = history[id].path
  BY <1>3, <1>4, UntouchedRest
<1>6. /\ handler'.name = "rollback" /\ handler'.step = "begin"
      /\ handler'.todo = rest /\ handler'.before = handler.before
  BY <1>1, Facts DEF Idle
<1>7. /\ DOMAIN history' = DOMAIN history
      /\ \A i \in DOMAIN history : i # id => history'[i] = history[i]
  BY <1>1
<1>8. \A k \in DOMAIN rest : rest[k] \in DOMAIN history /\ rest[k] # id
  <2>1. rest \in Seq(DOMAIN history)
    BY <1>3, RestOf
  <2> HIDE DEF rest
  <2>2. \A k \in DOMAIN rest : rest[k] \in DOMAIN history
    BY <2>1
  <2> QED BY <1>5, <2>2
<1> HIDE DEF rest, id
<1>9. \A k \in DOMAIN rest : history'[rest[k]] = history[rest[k]]
  BY <1>7, <1>8
<1>10. Untouched(handler.todo, 0)' /\ Changed(handler.todo)' = Changed(rest)
  <2>1. handler'.todo = rest /\ handler'.before = handler.before /\ disk' = disk
    BY <1>1, <1>6
  <2>2. Untouched(rest, 0)
    BY <1>5
  <2> QED BY <1>9, <2>1, <2>2 DEF Untouched, Changed
<1>11. ASSUME Verified, NEW p \in Paths
       PROVE  \/ disk[p] = handler.before[p]
              \/ p \in Changed(rest)
              \/ mishaps # 1 /\ \E i \in DOMAIN history' :
                                  history'[i].path = p /\ ~history'[i].undone
  <2>1. CASE p = history[id].path
    BY <1>3, <1>4, <2>1
  <2>2. CASE p # history[id].path
    BY <1>4, <1>5, <1>7, <1>11, <2>2
  <2> QED BY <2>1, <2>2
<1>12. RollbackKnows'
  BY <1>1, <1>4, <1>6, <1>10, <1>11 DEF RollbackKnows, Verified, After
<1> QED BY <1>2, <1>6, <1>12 DEF Restorable

\* The proposal is saved once, and no handler runs.
LEMMA ProposalKnows ==
  ASSUME OneEditPerFile, Written, Restorable, propose
  PROVE  Restorable'
<1>1. PICK answer \in Answers : updateProposal(fileEdits(answer))
  BY DEF propose, saveProposal
<1> DEFINE list == fileEdits(answer)
<1>2. \A i, j \in DOMAIN list : list[i].path = list[j].path => i = j
  BY DEF OneEditPerFile
<1>3. proposal' = [status |-> computeProposalStatus(list), fileEdits |-> list]
  BY <1>1 DEF updateProposal
<1> HIDE DEF list
<1>4. proposal'.fileEdits = list
  BY <1>3
<1>5. OneEach'
  BY <1>2, <1>4 DEF OneEach, edits, FE
<1>6. handler'.name = "idle"
  BY DEF propose, saveProposal, idle
<1> QED BY <1>5, <1>6 DEF Restorable

\* The user and the dialog change neither a file edit nor a handler that runs.
LEMMA UserKnows ==
  ASSUME Written, Restorable,
         openReview \/ readProposalTarget \/ handleToggleSelect \/ closeReview
         \/ handleRejectAll \/ rejectProposal \/ userEdits
  PROVE  Restorable'
<1>1. CASE openReview \/ readProposalTarget \/ handleToggleSelect \/ closeReview
  <2>1. /\ disk' = disk /\ backups' = backups /\ history' = history /\ proposal' = proposal
        /\ handler' = handler /\ mishaps' = mishaps
    BY <1>1 DEF openReview, readProposalTarget, handleToggleSelect, closeReview, vars, project,
       store, counters
  <2> QED BY <2>1 DEF Restorable, OneEach, ApplyKnows, RollbackKnows, Untouched, Changed, edits, FE
<1>2. CASE handleRejectAll \/ rejectProposal
  <2>1. "rejected" \in FileEditStatus
    BY DEF FileEditStatus
  <2>2. Alike /\ handler'.name = "idle"
    BY <1>2, <2>1, Facts, Rejects, Updates DEF handleRejectAll, rejectProposal, idle
  <2> QED BY <2>2, Elsewhere
<1>3. CASE userEdits
  <2>1. handler'.name \in {"idle", "asking"} /\ Alike
    BY <1>3, SameProposal DEF userEdits, store
  <2> QED BY <2>1, Elsewhere
<1> QED BY <1>1, <1>2, <1>3

\* A handler that ends, or that undoes, needs nothing more.
LEMMA OthersKnow ==
  ASSUME Written, Restorable,
         deny \/ undoApply \/ undoFailed \/ endUndo \/ applied \/ restart
         \/ (updateAppliedEdit /\ handler.name # "rollback")
  PROVE  Restorable'
<1>1. {"failed", "applied", "stale"} \subseteq FileEditStatus
  BY DEF FileEditStatus
<1>2. CASE deny \/ undoFailed \/ restart
  <2>1. Alike /\ handler'.name = "idle"
    BY <1>2, SameProposal DEF deny, undoFailed, restart, Restart, store, Idle
  <2> QED BY <2>1, Elsewhere
<1>3. CASE undoApply
  <2>1. PICK id \in DOMAIN history :
          handler' = [restoring(id) EXCEPT !.name = "undo", !.before = disk]
    BY <1>3 DEF undoApply
  <2>2. handler'.name = "undo"
    BY <2>1, Facts DEF restoring, Idle
  <2>3. Alike
    BY <1>3, SameProposal DEF undoApply, store
  <2> QED BY <2>2, <2>3, Elsewhere
<1>4. CASE endUndo
  <2>1. handler'.name = "idle"
    BY <1>4 DEF endUndo, Idle
  <2>2. Alike
    BY <1>1, <1>4, Facts, Updates DEF endUndo
  <2> QED BY <2>1, <2>2, Elsewhere
<1>5. CASE applied
  <2>1. handler'.name = "idle"
    BY <1>5 DEF applied, endApply, Idle
  <2>2. \/ updateProposal(withStatus(ToSet(handler.selected), "failed"))
        \/ updateProposal(withStatus({history[id].edit : id \in ToSet(handler.done)}, "applied"))
    BY <1>5 DEF applied, endApply
  <2>3. Alike
    BY <1>1, <2>2, Facts, Updates
  <2> QED BY <2>1, <2>3, Elsewhere
<1>6. CASE updateAppliedEdit /\ handler.name # "rollback"
  <2>1. /\ handler.name = "undo" /\ handler' = [handler EXCEPT !.step = "undone"]
        /\ proposal' = proposal
    BY <1>6 DEF updateAppliedEdit, isAt
  <2>2. handler'.name = "undo"
    BY <2>1, Stepping
  <2> QED BY <2>1, <2>2, SameProposal, Elsewhere
<1> QED BY <1>2, <1>3, <1>4, <1>5, <1>6

LEMMA WritesKnow ==
  ASSUME Written, Restorable,
         addWriteJournalEntry \/ writeTemp \/ renameTemp \/ removeWriteJournalEntry
         \/ writeFails \/ unlinkTemp
  PROVE  Restorable'
<1>1. PICK step \in Mid : Writes(step)
  BY WriteSteps
<1>2. CASE handler.name = "apply"
  BY <1>1, <1>2, ApplyWrites
<1>3. CASE handler.name = "rollback"
  BY <1>1, <1>3, RollbackWrites
<1>4. CASE handler.name \notin {"apply", "rollback"}
  BY <1>1, <1>4, WritesFacts, Elsewhere
<1> QED BY <1>2, <1>3, <1>4

LEMMA BeginsKnow ==
  ASSUME Written, Restorable, approve \/ handleApply
  PROVE  Restorable'
<1>1. CASE approve
  <2>1. /\ handler.name = "asking" /\ begin(handler.selected)
        /\ UNCHANGED <<project, store, written, counters>>
    BY <1>1 DEF approve
  <2>2. Selection(handler.selected)
    BY <2>1, Facts DEF HandlerOK
  <2> QED BY <2>1, <2>2, ApplyStarts
<1>2. CASE handleApply
  <2>1. /\ handler.name = "idle" /\ UNCHANGED <<project, store, written, counters>>
        /\ \/ handler' = [Idle EXCEPT !.name = "asking", !.selected = selectedIds]
           \/ begin(selectedIds)
    BY <1>2 DEF handleApply, applySelected, idle
  <2>2. CASE begin(selectedIds)
    BY <2>1, <2>2, Facts, ApplyStarts
  <2>3. CASE handler' = [Idle EXCEPT !.name = "asking", !.selected = selectedIds]
    <3>1. handler'.name = "asking" /\ Alike
      BY <2>1, <2>3, SameProposal DEF Idle, store
    <3> QED BY <3>1, Elsewhere
  <2> QED BY <2>1, <2>2, <2>3
<1> QED BY <1>1, <1>2

LEMMA ActionsKnow ==
  ASSUME OneEditPerFile, Written, Restorable, Next
  PROVE  Restorable'
<1>1. ASSUME ServiceStep PROVE Restorable'
  BY <1>1, UserKnows, OthersKnow, BeginsKnow, BackupKnows, DiscardKnows, SaveKnows, LoopKnows,
     WritesKnow, RollbackNextKnows, RollbackFailedKnows, MarksKnow DEF ServiceStep
<1> QED BY <1>1, ProposalKnows, OthersKnow, UserKnows, BeginsKnow DEF Next

\* A rollback finds every file it is to restore as Apply left it, in every state.
THEOREM RollbackInvariant ==
  ASSUME OneEditPerFile PROVE Spec => [](Written /\ Restorable)
<1>1. ReviewInit => Restorable
  BY Emptied DEF ReviewInit, Init, Restorable, OneEach, edits, Idle
<1>2. Restorable /\ UNCHANGED allVars => Restorable'
  BY DEF allVars, vars, project, store, counters, Restorable, OneEach, ApplyKnows, RollbackKnows,
     Untouched, Changed, edits, FE
<1>3. Written /\ Restorable /\ [Next]_allVars => Written' /\ Restorable'
  BY <1>2, Actions, Stutters, ActionsKnow
<1> QED BY Starts, <1>1, <1>3, PTL DEF Spec

\* An apply that fails, alone, ends with every file as it found it, where a file that was
\* written also verifies; what a second failure keeps from being restored can be undone.
THEOREM FailureRestored ==
  ASSUME OneEditPerFile, Verified PROVE Spec => []FailedApplyRestores
<1>1. ASSUME Written, Restorable PROVE FailedApplyRestores
  <2> SUFFICES ASSUME isAt({"rollback"}, "end")
               PROVE  /\ SingleMishap => disk = handler.before
                      /\ \A p \in Paths : \/ disk[p] = handler.before[p]
                                          \/ \E id \in DOMAIN history :
                                               history[id].path = p /\ ~history[id].undone
    BY DEF FailedApplyRestores
  <2>1. handler.name = "rollback" /\ handler.step = "end"
    BY DEF isAt
  <2>2. handler.todo = <<>> /\ RollbackKnows
    BY <1>1, <2>1, RollbackFacts DEF RollingBack, Restorable
  <2>3. Changed(handler.todo) = {}
    BY <2>2, Emptied DEF Changed
  <2>4. \A p \in Paths :
          \/ disk[p] = handler.before[p]
          \/ mishaps # 1 /\ \E id \in DOMAIN history :
                              history[id].path = p /\ ~history[id].undone
    BY <2>2, <2>3 DEF RollbackKnows
  <2>5. SingleMishap => disk = handler.before
    <3>1. SingleMishap => mishaps = 1
      BY <1>1, <2>2, Facts DEF SingleMishap, RollbackKnows
    <3>2. disk \in [Paths -> Text] /\ handler.before \in [Paths -> Text]
      BY <1>1, <2>1, Facts DEF ProjectOK, Restorable
    <3> QED BY <2>4, <3>1, <3>2
  <2> QED BY <2>4, <2>5
<1> QED BY RollbackInvariant, <1>1, PTL

\* A file is only overwritten as its review, or the undo of its edit, knew it.
THEOREM KnownIsOverwritten ==
  ASSUME OneEditPerFile PROVE Spec => OnlyKnownContentIsOverwritten
<1>1. ASSUME Written, Restorable, renameTemp
      PROVE  \/ handler.name = "apply" /\ disk[handler.path] = FE(Head(handler.todo)).base
             \/ handler.name # "apply" /\ disk[handler.path] = history[handler.id].applied
  <2>1. handler.name \in Writers /\ handler.step = "written"
    BY <1>1 DEF renameTemp, isAt
  <2>2. CASE handler.name = "apply"
    <3>1. /\ handler.todo \in Seq(edits) /\ handler.todo # <<>>
          /\ handler.path = FE(handler.todo[1]).path
      BY <1>1, <2>1, <2>2, ApplyFacts DEF Applying, Mid, Before
    <3>2. Head(handler.todo) = handler.todo[1] /\ 1 \in DOMAIN handler.todo
      BY <3>1, RestOf
    <3>3. disk[handler.path] = FE(handler.todo[1]).base
      BY <1>1, <2>1, <2>2, <3>1, <3>2 DEF Restorable, ApplyKnows, After
    <3> QED BY <2>2, <3>2, <3>3
  <2>3. CASE handler.name # "apply"
    BY <1>1, <2>1, <2>3, Facts DEF HandlerOK, Restoring, Writers, Before
  <2> QED BY <2>2, <2>3
<1> QED BY RollbackInvariant, <1>1, PTL DEF Spec, OnlyKnownContentIsOverwritten

-----------------------------------------------------------------------------
(* The third layer: what an apply found in a file it has overwritten.      *)

\* The text is in a backup, and not in the one of a write that may still fail.
Found(p) == \/ disk[p] = handler.before[p]
            \/ \E id \in DOMAIN backups \ Discardable : backups[id] = handler.before[p]

Covered == handler.name \in {"apply", "rollback"} => \A p \in Paths : Found(p)

LEMMA CoveredFrame ==
  ASSUME Covered, disk' = disk,
         handler'.name \in {"apply", "rollback"} =>
           handler.name \in {"apply", "rollback"} /\ handler'.before = handler.before,
         DOMAIN backups \ Discardable \subseteq DOMAIN backups' \ Discardable',
         \A id \in DOMAIN backups \ Discardable : backups'[id] = backups[id]
  PROVE  Covered'
BY DEF Covered, Found

\* What is not in an apply when a step ends, or has just begun it, has nothing to keep.
LEMMA CoveredElsewhere ==
  ASSUME \/ handler'.name \notin {"apply", "rollback"}
         \/ \A p \in Paths : disk'[p] = handler'.before[p]
  PROVE  Covered'
BY DEF Covered, Found

LEMMA BeginCovered ==
  ASSUME Written, NEW ids, begin(ids), disk' = disk
  PROVE  Covered'
<1>1. CASE handler' = Idle
  <2>1. handler'.name = "idle"
    BY <1>1 DEF Idle
  <2> QED BY <2>1, CoveredElsewhere
<1>2. CASE handler' = [Idle EXCEPT !.name = "apply", !.selected = ids, !.todo = ids,
                                   !.before = disk]
  <2>1. handler'.before = disk
    BY <1>2 DEF Idle
  <2> QED BY <2>1, CoveredElsewhere
<1> QED BY <1>1, <1>2 DEF begin

\* A write of an apply is of a file whose backup counts from then on; one of a rollback
\* brings back what the apply found.
LEMMA WriteCovered ==
  ASSUME OneEditPerFile, Verified, Written, Restorable, Covered,
         addWriteJournalEntry \/ writeTemp \/ renameTemp \/ removeWriteJournalEntry
         \/ writeFails \/ unlinkTemp
  PROVE  Covered'
<1>1. PICK step \in Mid : Writes(step)
  BY WriteSteps
<1>2. /\ handler'.step = step /\ handler'.name = handler.name /\ handler'.id = handler.id
      /\ handler'.path = handler.path /\ handler'.before = handler.before
      /\ backups' = backups /\ handler.step \in Mid
      /\ \A p \in Paths : p # handler.path => disk'[p] = disk[p]
      /\ step \notin After => handler.step \in Before /\ disk' = disk
      /\ step \in After => \/ handler.step \in After /\ disk' = disk
                           \/ disk'[handler.path] = handler.content
  BY <1>1, WritesFacts
<1>3. Before \intersect After = {} /\ "failed" \notin Before /\ "failed" \notin After
  BY DEF Before, After
<1>4. CASE handler.name \notin {"apply", "rollback"}
  BY <1>2, <1>4, CoveredElsewhere
<1>5. Discardable' \subseteq Discardable
  BY <1>2, <1>3 DEF Discardable, Mid
<1>6. CASE disk' = disk
  BY <1>2, <1>5, <1>6, CoveredFrame
<1>7. CASE handler.name = "apply" /\ disk' # disk
  <2>1. step \in After /\ Discardable' = {} /\ handler.id \in DOMAIN backups
    BY <1>2, <1>3, <1>7, Facts DEF Discardable, HandlerOK, Applying
  <2>2. backups[handler.id] = handler.before[handler.path]
    BY <1>2, <1>7 DEF Restorable, ApplyKnows
  <2>3. ASSUME NEW p \in Paths PROVE Found(p)'
    <3>1. CASE p = handler.path
      BY <1>2, <2>1, <2>2, <3>1 DEF Found
    <3>2. CASE p # handler.path
      BY <1>2, <1>7, <2>1, <3>2 DEF Covered, Found
    <3> QED BY <3>1, <3>2
  <2> QED BY <2>3 DEF Covered
<1>8. CASE handler.name = "rollback" /\ disk' # disk
  <2>1. /\ step \in After /\ Discardable' = {}
        /\ disk'[handler.path] = handler'.before[handler.path]
    <3>1. Restorable'
      BY WritesKnow
    <3> QED BY <1>2, <1>8, <3>1 DEF Discardable, Restorable, RollbackKnows
  <2>2. ASSUME NEW p \in Paths PROVE Found(p)'
    <3>1. CASE p = handler.path
      BY <2>1, <3>1 DEF Found
    <3>2. CASE p # handler.path
      BY <1>2, <1>8, <2>1, <3>2 DEF Covered, Found
    <3> QED BY <3>1, <3>2
  <2> QED BY <2>2 DEF Covered
<1> QED BY <1>4, <1>6, <1>7, <1>8

\* A backup that is made counts once its file is written; one that is discarded never did.
LEMMA BackupCovered ==
  ASSUME Written, Covered, createBackupSnapshot \/ discardBackup \/ saveAppliedEdit
  PROVE  Covered'
<1>1. handler.name = "apply" /\ disk' = disk
  BY DEF createBackupSnapshot, discardBackup, saveAppliedEdit, isAt, project
<1>2. CASE createBackupSnapshot
  <2>1. Discardable = {} /\ handler.step = "begin"
    BY <1>2 DEF createBackupSnapshot, isAt, Discardable, Before
  <2>2. CASE backups' = backups /\ handler' = [handler EXCEPT !.firstError = TRUE, !.todo = <<>>]
    <3>1. handler'.before = handler.before /\ Discardable' = {}
      BY <2>1, <2>2, Facts DEF Idle, Discardable, Before
    <3> QED BY <1>1, <2>1, <2>2, <3>1, CoveredFrame
  <2>3. ASSUME NEW id \in Ids \ DOMAIN backups, NEW text, NEW path, NEW content,
               backups' = With(backups, id, text),
               handler' = [handler EXCEPT !.id = id, !.path = path, !.content = content,
                                          !.step = "ready to write"]
        PROVE  Covered'
    <3>1. handler'.before = handler.before /\ Discardable' \subseteq {id}
      BY <1>1, <2>3, Facts DEF Idle, Discardable
    <3>2. /\ DOMAIN backups' = DOMAIN backups \union {id}
          /\ \A other \in DOMAIN backups : backups'[other] = backups[other]
      BY <2>3 DEF With
    <3> QED BY <1>1, <2>1, <2>3, <3>1, <3>2, CoveredFrame
  <2> QED BY <1>2, <2>2, <2>3 DEF createBackupSnapshot
<1>3. CASE discardBackup
  <2>1. /\ backups' = [id \in DOMAIN backups \ {handler.id} |-> backups[id]]
        /\ handler.step = "failed"
        /\ handler' = [handler EXCEPT !.firstError = TRUE, !.todo = <<>>, !.step = "begin"]
    BY <1>3 DEF discardBackup, isAt
  <2>2. handler'.before = handler.before /\ handler'.step = "begin"
    BY <2>1, Facts DEF Idle
  <2>3. Discardable = {handler.id} /\ Discardable' = {}
    BY <1>1, <2>1, <2>2 DEF Discardable, Before
  <2> QED BY <1>1, <2>1, <2>2, <2>3, CoveredFrame
<1>4. CASE saveAppliedEdit
  <2>1. /\ backups' = backups
        /\ handler' = [handler EXCEPT !.done = Append(@, handler.id), !.todo = Tail(@),
                                      !.step = "begin"]
    BY <1>4 DEF saveAppliedEdit
  <2>2. handler'.before = handler.before /\ handler'.step = "begin"
    BY <2>1, Facts DEF Idle
  <2>3. Discardable' = {}
    BY <2>2 DEF Discardable, Before
  <2> QED BY <1>1, <2>1, <2>2, <2>3, CoveredFrame
<1> QED BY <1>2, <1>3, <1>4

\* The loop and the rollback go on from file to file.
LEMMA LoopCovered ==
  ASSUME Written, Covered, endOfLoop \/ rollbackNext \/ rollbackFailed \/ updateAppliedEdit
  PROVE  Covered'
<1>1. disk' = disk /\ backups' = backups
  BY DEF endOfLoop, rollbackNext, rollbackFailed, updateAppliedEdit, project, store
<1>2. CASE endOfLoop
  <2>1. handler.name = "apply" /\ handler.step = "begin"
    BY <1>2 DEF endOfLoop, isAt
  <2>2. /\ handler'.before = handler.before
        /\ handler'.name = "apply" => handler'.step = "end"
    BY <1>2, <2>1, Facts DEF endOfLoop, Idle
  <2>3. Discardable' = {}
    BY <2>2 DEF Discardable, Before
  <2> QED BY <1>1, <2>1, <2>2, <2>3, CoveredFrame
<1>3. CASE rollbackNext \/ rollbackFailed
  <2>1. handler.name = "rollback"
    BY <1>3 DEF rollbackNext, rollbackFailed, isAt
  <2>2. handler'.before = handler.before /\ handler'.name = "rollback"
    BY <1>3, <2>1, Facts DEF rollbackNext, rollbackFailed, restoring, Idle
  <2>3. Discardable' = {}
    BY <2>2 DEF Discardable
  <2> QED BY <1>1, <2>1, <2>2, <2>3, CoveredFrame
<1>4. CASE updateAppliedEdit
  <2>1. handler.name \in {"rollback", "undo"}
    BY <1>4 DEF updateAppliedEdit, isAt
  <2>2. handler'.before = handler.before /\ handler'.name = handler.name
    BY <1>4, <2>1, Facts DEF updateAppliedEdit, Idle
  <2>3. Discardable' = {}
    BY <2>1, <2>2 DEF Discardable
  <2> QED BY <1>1, <2>1, <2>2, <2>3, CoveredFrame
<1> QED BY <1>2, <1>3, <1>4

\* Everything else begins an apply, ends it, or leaves the files to themselves.
LEMMA OthersCovered ==
  ASSUME Written, Covered,
         \/ rejectProposal \/ undoApply \/ approve \/ deny \/ undoFailed \/ endUndo \/ userEdits
         \/ propose \/ restart \/ openReview \/ readProposalTarget \/ handleToggleSelect
         \/ handleApply \/ handleRejectAll \/ closeReview \/ applied
  PROVE  Covered'
<1>1. CASE rejectProposal \/ userEdits \/ propose \/ handleRejectAll
  <2>1. handler' = handler /\ handler.name \in {"idle", "asking"}
    BY <1>1 DEF rejectProposal, userEdits, propose, saveProposal, handleRejectAll, idle
  <2> QED BY <2>1, CoveredElsewhere
<1>2. CASE undoApply
  <2>1. PICK id \in DOMAIN history :
          handler' = [restoring(id) EXCEPT !.name = "undo", !.before = disk]
    BY <1>2 DEF undoApply
  <2>2. handler'.name = "undo"
    BY <2>1, Facts DEF restoring, Idle
  <2> QED BY <2>2, CoveredElsewhere
<1>3. CASE approve
  BY <1>3, BeginCovered DEF approve, project
<1>4. CASE handleApply
  <2>1. disk' = disk
    BY <1>4 DEF handleApply, applySelected, project
  <2>2. CASE begin(selectedIds)
    BY <2>1, <2>2, BeginCovered
  <2>3. CASE handler' = [Idle EXCEPT !.name = "asking", !.selected = selectedIds]
    <3>1. handler'.name = "asking"
      BY <2>3 DEF Idle
    <3> QED BY <3>1, CoveredElsewhere
  <2> QED BY <1>4, <2>2, <2>3 DEF handleApply, applySelected
<1>5. CASE deny \/ undoFailed \/ endUndo \/ restart \/ applied
  <2>1. handler'.name = "idle"
    BY <1>5 DEF deny, undoFailed, endUndo, restart, Restart, applied, endApply, Idle
  <2> QED BY <2>1, CoveredElsewhere
<1>6. CASE UNCHANGED vars
  BY <1>6, CoveredFrame DEF vars, project, store, Discardable
<1> QED BY <1>1, <1>2, <1>3, <1>4, <1>5, <1>6
        DEF openReview, readProposalTarget, handleToggleSelect, closeReview

\* A kill in the middle of an apply or of its rollback loses no text the apply found,
\* where a file that was written also verifies.
THEOREM OverwrittenBackedUp ==
  ASSUME OneEditPerFile, Verified PROVE Spec => []OverwrittenIsBackedUp
<1>1. ReviewInit => Covered
  BY DEF ReviewInit, Init, Covered, Idle
<1>2. ASSUME Written, Restorable, Covered, [Next]_allVars PROVE Covered'
  <2>1. CASE UNCHANGED allVars
    BY <1>2, <2>1, CoveredFrame DEF allVars, vars, project, store, Discardable
  <2>2. CASE Next
    BY <1>2, <2>2, WriteCovered, BackupCovered, LoopCovered, OthersCovered DEF Next, ServiceStep
  <2> QED BY <1>2, <2>1, <2>2
<1>3. Covered => OverwrittenIsBackedUp
  BY DEF Covered, Found, OverwrittenIsBackedUp
<1> QED BY RollbackInvariant, <1>1, <1>2, <1>3, PTL DEF Spec
=============================================================================
