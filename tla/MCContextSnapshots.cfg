\* Two conversations are one and its branch, or two strangers; two messages of
\* one conversation are one to edit or remove and one to suffer from it; three
\* snapshots are two of one message and one of another, or of a run.
SPECIFICATION Spec
CONSTANTS
  Conversations = {c1, c2}
  Messages = {m1, m2}
  Snapshots = {s1, s2, s3}
SYMMETRY Interchangeable
INVARIANTS
  ReferencesResolve
  NothingLeaks
CHECK_DEADLOCK FALSE
