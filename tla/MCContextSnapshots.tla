------------------------- MODULE MCContextSnapshots -------------------------
(* Instances of ContextSnapshots for TLC.                                  *)
EXTENDS ContextSnapshots, TLC

\* No action or property names a conversation, a message or a snapshot.
Interchangeable == Permutations(Conversations) \union Permutations(Messages)
                     \union Permutations(Snapshots)

=============================================================================
