----------------------------- MODULE MCChatView -----------------------------
(* Two conversations, one of them a draft, two messages, two visits.       *)
EXTENDS ChatView

CONSTANTS c1, c2
MCConversations == {c1, c2}
MCExisting == {c1}
=============================================================================
