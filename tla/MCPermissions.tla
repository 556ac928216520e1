---------------------------- MODULE MCPermissions ----------------------------
(* Instances of Permissions for TLC.                                       *)
EXTENDS Permissions

CONSTANTS r1, r2, p1

\* A request in a project, and a step of a task in none.
TwoRuns == [r \in {r1, r2} |-> IF r = r1 THEN p1 ELSE NoProject]

\* No tool offered to a model is refused as unknown or left without a handler.
ASSUME Offer == OfferedIsAccepted

=============================================================================
