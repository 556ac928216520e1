--------------------------- MODULE MCAgentProfiles ---------------------------
(***************************************************************************)
(* AgentProfiles for TLC: the profiles are interchangeable.                *)
(***************************************************************************)
EXTENDS AgentProfiles, TLC

symmetry == Permutations(Profile)

=============================================================================
