----------------------------- MODULE MCEditReview -----------------------------
EXTENDS EditReview

\* f holds a b a, g holds b.
InitialFiles == [p \in Paths |-> IF p = "f" THEN <<"a", "b", "a">> ELSE <<"b">>]

TheUsers == {<<"b", "b">>}

Ref(p) == ContextRef(p, TRUE, InitialFiles[p], "intact")

Answer(operations, refs) ==
  [plain |-> 1, structured |-> 0, valid |-> TRUE, operations |-> operations, refs |-> refs]

Structured(operations, refs) ==
  [plain |-> 0, structured |-> 1, valid |-> TRUE, operations |-> operations, refs |-> refs]

\* One file with two bases and one without; two files, of which one is made by a
\* replacement; replacements that do not occur as often as they say; an altered
\* snapshot; whole content for one file.
AnswersOfOneEditPerFile ==
  {Answer(<<FullContentEditOp("f", <<"b", "b">>)>>, <<Ref("f")>>),
   Answer(<<FullContentEditOp("f", <<"b">>), FullContentEditOp("g", <<"a">>)>>,
          <<Ref("f"), Ref("f"), ContextRef("g", FALSE, <<"b">>, "intact")>>),
   Structured(<<ExactTextReplaceOp("f", <<"a">>, <<"b", "b">>, 2),
                FullContentEditOp("g", <<"a", "a">>)>>, <<Ref("f"), Ref("g")>>),
   Structured(<<ExactTextReplaceOp("f", <<"a">>, <<"b", "b">>, 1)>>, <<Ref("f")>>),
   Structured(<<ExactTextReplaceOp("f", <<"b">>, <<"a">>, 1)>>,
              <<ContextRef("f", TRUE, <<"a", "b", "a">>, "altered")>>)}

=============================================================================
