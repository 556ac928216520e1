----------------------------- MODULE MCBrowser -----------------------------
(* Requests, each of a conversation of its own, a persistent and a private *)
(* profile, sessions and tabs; the persistent one may be set to "allowed". *)
EXTENDS Browser, TLC

CONSTANTS persistent, private

MCProfiles == {persistent, private}
MCPrivate == {private}
MCPolicies == (persistent :> {"allowed"}) @@ (private :> {"ask"})
MCConversationOf == [r \in Requests |-> r]
MCOps == {agentOpenUrl}
MCSymmetry == Permutations(Tabs) \cup Permutations(Sessions) \cup Permutations(Requests)
=============================================================================
