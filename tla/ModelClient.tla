----------------------------- MODULE ModelClient -----------------------------
(***************************************************************************)
(* One streamed request to a model: makeRequest of                         *)
(* src/main/agent-client/client.ts, between the call and the promise that  *)
(* it settles once.  One action is one event of the socket.                *)
(*                                                                         *)
(* Abstracted: headers, bodies and the split of the stream into lines; of  *)
(* a text, only what normalizeDecision can tell (Text); of the arguments   *)
(* of a call, whether they came whole, so that they parse.                 *)
(***************************************************************************)
EXTENDS Naturals, Sequences

CONSTANTS Protocols, \* "openai", "anthropic"
          CallNames, \* the tools a model calls
          Texts,     \* what the model says, among Text
          CallIds,   \* ids the provider gives to calls; it may repeat them
          MaxCalls   \* bound: native calls of one turn

ASSUME ClientAssumption == Protocols \subseteq {"openai", "anthropic"} /\ MaxCalls \in Nat

VARIABLES protocol,    \* of the configured agent
          request,     \* the promise and its socket
          text,        \* fullText
          accumulator, \* toolCallAccumulator, in the order of its insertions
          toolCalls    \* calls given to onToolCall

client == <<protocol, request, text, accumulator, toolCalls>>

-----------------------------------------------------------------------------
(* Types *)

\* What a turn says: nothing, prose, a forge_tool fence, or a forge_final fence with
\* prose, with an outcome, with a blocker, with a status and no blocker or a status
\* unheard of, with no content, with no JSON, or twice.
Fences == {"fence_read", "fence_open"}
Finals == {"final", "outcome", "blocked", "blocked_bare", "bad_status", "blank", "malformed"}
Text   == {"empty", "prose", "two_finals"} \union Fences \union Finals

Call == [id : CallIds \union {"random"},
         name : CallNames \union {"read_file", "browser_open_url"}, whole : BOOLEAN]

Partial == [index : 1..MaxCalls, id : CallIds, name : CallNames,
            whole : BOOLEAN]

Pending == {"connecting", "streaming", "draining"}
Failure == {"invalid_url", "auth_failed", "unreachable", "rate_limited", "server_error",
            "unexpected_status", "image_unsupported", "timeout", "network", "cancelled"}
Settled == {"resolved"} \union Failure

ClientTypeOK == /\ protocol \in Protocols
                /\ request \in {"idle"} \union Pending \union Settled
                /\ text \in Text
                /\ accumulator \in Seq(Partial)
                /\ toolCalls \in Seq(Call)

ClientInit == /\ protocol \in Protocols
              /\ request = "idle"
              /\ text = "empty"
              /\ accumulator = <<>>
              /\ toolCalls = <<>>

-----------------------------------------------------------------------------
(* The request *)

makeRequest ==
  /\ request' \in {"connecting", "invalid_url"}
  /\ text' = "empty"
  /\ accumulator' = <<>>
  /\ toolCalls' = <<>>
  /\ UNCHANGED protocol

\* The promise is done with.
forget == /\ request' = "idle"
          /\ text' = "empty"
          /\ accumulator' = <<>>
          /\ toolCalls' = <<>>
          /\ UNCHANGED protocol

settle(outcome) == request' = outcome /\ UNCHANGED <<protocol, text, accumulator, toolCalls>>

\* How the status of the answer refuses the request; others than 200 are drained.
statusErrors == {"auth_failed", "unreachable", "rate_limited", "server_error"}

respond ==
  /\ request = "connecting"
  /\ \/ settle("streaming")
     \/ settle("draining")
     \/ \E failure \in statusErrors : settle(failure)

\* The socket was destroyed before the body was read, so this may never come.
endDrain == /\ request = "draining"
            /\ settle("unexpected_status") \/ settle("image_unsupported")

socketFails == /\ request \in {"connecting", "streaming"}
               /\ \E failure \in {"timeout", "unreachable", "network"} :
                    /\ failure = "unreachable" => request = "connecting"
                    /\ settle(failure)

\* The listener of the abort signal, which has no effect on a promise that settled.
abortRequest == IF request \in Pending THEN settle("cancelled") ELSE UNCHANGED client

-----------------------------------------------------------------------------
(* The stream *)

TextDelta == /\ request = "streaming"
             /\ text = "empty"
             /\ text' \in Texts \intersect Text
             /\ UNCHANGED <<protocol, request, accumulator, toolCalls>>

\* A call begins: its first delta (OpenAI), content_block_start (Anthropic).
CallStart ==
  /\ request = "streaming"
  /\ Len(accumulator) + Len(toolCalls) < MaxCalls
  /\ \E id \in CallIds, name \in CallNames :
       accumulator' = Append(accumulator, [index |-> Len(accumulator) + Len(toolCalls) + 1,
                                           id |-> id, name |-> name, whole |-> FALSE])
  /\ UNCHANGED <<protocol, request, text, toolCalls>>

\* The last of the arguments of a call, found by its index.
ArgumentsDelta ==
  /\ request = "streaming"
  /\ \E i \in DOMAIN accumulator :
       /\ ~accumulator[i].whole
       /\ accumulator' = [accumulator EXCEPT ![i].whole = TRUE]
  /\ UNCHANGED <<protocol, request, text, toolCalls>>

\* Arguments that do not parse are none.
complete(partial) == [id |-> partial.id, name |-> partial.name, whole |-> partial.whole]

\* finish_reason "tool_calls" or "stop"; after another, "length", nothing is flushed.
FinishReason ==
  /\ protocol = "openai"
  /\ request = "streaming"
  /\ accumulator # <<>>
  /\ toolCalls' = toolCalls \o [i \in DOMAIN accumulator |-> complete(accumulator[i])]
  /\ accumulator' = <<>>
  /\ UNCHANGED <<protocol, request, text>>

\* content_block_stop.
BlockStop ==
  /\ protocol = "anthropic"
  /\ request = "streaming"
  /\ accumulator # <<>>
  /\ toolCalls' = Append(toolCalls, complete(Head(accumulator)))
  /\ accumulator' = Tail(accumulator)
  /\ UNCHANGED <<protocol, request, text>>

\* The end of the stream, which may come too early: what is not complete is lost.
streamEnds == request = "streaming" /\ settle("resolved")

ClientStep == \/ respond \/ endDrain \/ socketFails
              \/ TextDelta \/ CallStart \/ ArgumentsDelta \/ FinishReason \/ BlockStop
              \/ streamEnds

=============================================================================
