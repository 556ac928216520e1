----------------------------- MODULE EditProposal -----------------------------
(***************************************************************************)
(* From the answer of a model to an edit proposal: the fences of           *)
(* src/main/project-files/edit-service.ts and edit-ir.ts, the bases of the *)
(* edits, and the status of a proposal.                                    *)
(*                                                                         *)
(* Abstracted: JSON and its schema (valid), summaries, sizes (large), and  *)
(* the form of paths.  A text is a sequence of characters.                 *)
(***************************************************************************)
EXTENDS Naturals, Sequences, FiniteSets, Functions

CONSTANTS Paths, \* relative paths of files of the project
          Chars  \* characters texts are made of

-----------------------------------------------------------------------------
(* Types *)

Text == Seq(Chars)

FileEditStatus == {"ready", "needs_context", "ambiguous_context", "stale", "applied", "rejected",
                   "failed", "missing"}

EditProposalStatus == {"draft", "ready", "needs_context", "ambiguous_context",
                       "partiallyApplied", "applied", "rejected", "stale", "failed"}

\* The two operations of a structured proposal; a file of a plain one is the first.
FullContentEditOp(path, content) ==
  [operation |-> "full_content", path |-> path, content |-> content, large |-> FALSE]

ExactTextReplaceOp(path, oldText, newText, expectedOccurrences) ==
  [operation |-> "exact_text_replace", path |-> path, oldText |-> oldText,
   newText |-> newText, expectedOccurrences |-> expectedOccurrences]

\* A file read whole or in part for the request, by the user or by the agent, and what
\* is in its snapshot now.
ContextRef(path, whole, content, snapshot) ==
  [path |-> path, whole |-> whole, content |-> content, snapshot |-> snapshot]

Snapshots == {"intact", "gone", "altered"}

-----------------------------------------------------------------------------
(* Exact replacement *)

occursAt(text, oldText, i) ==
  i + Len(oldText) - 1 <= Len(text) /\ SubSeq(text, i, i + Len(oldText) - 1) = oldText

\* Occurrences counted from left to right, each after the end of the one before.
actualOccurrences(text, oldText) ==
  LET from[i \in 1..Len(text) + Len(oldText)] ==
        IF i > Len(text) THEN 0
        ELSE IF occursAt(text, oldText, i) THEN 1 + from[i + Len(oldText)]
        ELSE from[i + 1]
  IN  from[1]

\* split and join: every occurrence is replaced.
replaceAll(text, oldText, newText) ==
  LET from[i \in 1..Len(text) + Len(oldText)] ==
        IF i > Len(text) THEN <<>>
        ELSE IF occursAt(text, oldText, i) THEN newText \o from[i + Len(oldText)]
        ELSE <<text[i]>> \o from[i + 1]
  IN  from[1]

\* The result, if there is one.
applyExactTextReplace(base, op) ==
  {text \in {replaceAll(base, op.oldText, op.newText)} :
     actualOccurrences(base, op.oldText) = op.expectedOccurrences}

-----------------------------------------------------------------------------
(* The base of an edit *)

\* Only references to whole files count, and only one may.
matches(refs, path) == {i \in DOMAIN refs : refs[i].path = path /\ refs[i].whole}

resolveContextRef(refs, path) ==
  CASE matches(refs, path) = {}             -> "needs_context"
    [] Cardinality(matches(refs, path)) = 1 -> "ok"
    [] OTHER                                -> "ambiguous_context"

theRef(refs, path) == refs[CHOOSE i \in matches(refs, path) : TRUE]

verifyBaseSnapshot(ref) == CASE ref.snapshot = "intact"  -> "ready"
                             [] ref.snapshot = "gone"    -> "needs_context"
                             [] ref.snapshot = "altered" -> "failed"

\* Whole content for an operation, if there is any, from its snapshot as it is.
normalizeToFullContent(op, refs) ==
  CASE op.operation = "full_content" -> {op.content}
    [] op.operation = "exact_text_replace" ->
         UNION {applyExactTextReplace(refs[i].content, op) :
                  i \in {j \in matches(refs, op.path) :
                          resolveContextRef(refs, op.path) = "ok" /\ refs[j].snapshot # "gone"}}

FileEdit(path, target, refs) ==
  LET resolution == resolveContextRef(refs, path)
      status     == IF resolution = "ok" THEN verifyBaseSnapshot(theRef(refs, path))
                                         ELSE resolution
  IN  [path   |-> path,
       target |-> target,
       status |-> status,
       base   |-> IF status = "ready" THEN theRef(refs, path).content ELSE <<>>]

-----------------------------------------------------------------------------
(* The proposal of an answer *)

computeProposalStatus(edits) ==
  LET statuses == {edits[i].status : i \in DOMAIN edits}
  IN  CASE statuses = {}            -> "failed"
        [] statuses = {"applied"}   -> "applied"
        [] "applied" \in statuses /\ ~(statuses \subseteq {"applied", "rejected"})
                                    -> "partiallyApplied"
        [] OTHER ->
             CASE "needs_context" \in statuses     -> "needs_context"
               [] "ambiguous_context" \in statuses -> "ambiguous_context"
               [] "stale" \in statuses             -> "stale"
               [] statuses \intersect {"failed", "missing"} # {} -> "failed"
               [] statuses = {"rejected"}          -> "rejected"
               [] OTHER                            -> "ready"

\* The files of a plain proposal: those too large are left out.
parseProposalJson(answer) == SelectSeq(answer.operations, LAMBDA op : ~op.large)

\* A structured proposal is of no use unless each of its operations applies.
parseStructuredEditProposal(answer) ==
  LET contents == [i \in DOMAIN answer.operations |->
                     normalizeToFullContent(answer.operations[i], answer.refs)]
  IN  IF {} \in Range(contents)
        THEN <<>>
        ELSE [i \in DOMAIN contents |-> FullContentEditOp(answer.operations[i].path,
                                                         CHOOSE c \in contents[i] : TRUE)]

\* How many fences of each kind the answer has, and whether what is in one is valid.
\* A structured fence goes before the other kind; two of a kind are none.
files(answer) ==
  CASE ~answer.valid          -> <<>>
    [] answer.structured = 1  -> parseStructuredEditProposal(answer)
    [] answer.structured = 0 /\ answer.plain = 1 -> parseProposalJson(answer)
    [] OTHER                  -> <<>>

fileEdits(answer) == [i \in DOMAIN files(answer) |->
                        FileEdit(files(answer)[i].path, files(answer)[i].content, answer.refs)]

=============================================================================
