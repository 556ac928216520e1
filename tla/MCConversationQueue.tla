------------------------ MODULE MCConversationQueue ------------------------
(* Instances of ConversationQueue for TLC.                                 *)
EXTENDS ConversationQueue, TLC

\* Conversations and item ids are interchangeable: no action or property
\* names one.  Used by the run without liveness properties only.
Interchangeable == Permutations(Conversations) \union Permutations(Items)

=============================================================================
