------------------------------ MODULE ChatView ------------------------------
(****************************************************************************)
(* What the user sees of the runs: the chat screen (ChatScreen.tsx), which  *)
(* keeps a copy of one conversation and of the streams of all, and the      *)
(* events and replies of the main process (QueueManager.ts, handlers.ts)    *)
(* it builds the copy from. The screen is thrown away when the user opens   *)
(* the projects and built anew when he comes back, so runs start, ask, go   *)
(* on and end while nobody listens.                                         *)
(*                                                                          *)
(* ConversationQueue has the queue in full; here an item is the number of   *)
(* the message it was made from, its stream has the same number, and an     *)
(* item whose run did not succeed waits for the user. Requests arrive in    *)
(* the order they were sent, and so do events and replies.                  *)
(****************************************************************************)
EXTENDS Integers, Sequences, FiniteSets, FiniteSetsExt

CONSTANTS Conversations,
          Existing,             \* those that are stored at the start
          None,
          MaxSends,             \* bound: messages the user sends
          MaxVisits,            \* bound: times the screen is opened
          MaxChunks,            \* bound: chunks of a run's text
          MaxRequests, MaxPushes  \* bounds: requests, and pushes, under way

ASSUME ExistingAreConversations == Existing \subseteq Conversations
ASSUME NoneIsNoConversation == None \notin Conversations
ASSUME BoundsAreNumbers == {MaxSends, MaxVisits, MaxChunks, MaxRequests, MaxPushes} \subseteq Nat

VARIABLES
  stored,      \* conversation -> its messages
  queued,      \* conversation -> the items that wait
  run,         \* conversation -> its entry in activeRunRegistry, or the item a task owns
  owed,        \* the messages, with the visit, whose CHAT_SEND has no reply yet
  requests,    \* from the screen
  pushes,      \* to the screen: events, and replies to requests
  sends,       \* messages sent so far
  visit,       \* how often the screen was opened; a reply to an earlier visit is ignored
  mounted,
  active,      \* activeConvId
  messages,    \* those on the screen
  streaming,   \* conversation -> [stream, text], streamingMap
  streamConv,  \* the streams whose conversation the screen knows, streamConvMap
  banner,      \* conversation -> the run that waits for the user, waitingForHumanMap
  hydrated,    \* [conv, revision], lastHydratedConvRef and lastHydratedRevisionRef
  sending,     \* the message handleSend waits for, and whether it opened a conversation
  started      \* streams whose start was seen since the conversation was opened

main   == <<stored, queued, run, owed>>
shown  == <<active, messages, streaming, streamConv, banner, hydrated, sending, started>>
vars   == <<main, requests, pushes, sends, visit, mounted, shown>>

-----------------------------------------------------------------------------
Numbers == 1..MaxSends
NoStream == [stream |-> 0, text |-> 0]
NoRun == [stream |-> 0, task |-> 0, waiting |-> FALSE, revision |-> 0, chunks |-> 0]
NewRun(n) == [NoRun EXCEPT !.stream = n, !.revision = 1]
LiveEvent == 3   \* stands for Number.MAX_SAFE_INTEGER: no entry has this revision

User(n)       == <<"user", n>>        \* as it was stored
Optimistic(n) == <<"optimistic", n>>  \* shown before it is stored
Failed(n)     == <<"failed", n>>      \* the error shown in its place
Answer(n)     == <<"answer", n>>      \* of a run, or of a task
Failure(n)    == <<"failure", n>>     \* of a run, or of the checks before it
Old(c)        == <<"old", c>>

FailedSends == {Failed(n) : n \in Numbers}
StoredMessages == {User(n) : n \in Numbers} \cup {Answer(n) : n \in Numbers}
                    \cup {Failure(n) : n \in Numbers} \cup {Old(c) : c \in Existing}
ShownMessages == StoredMessages \cup FailedSends \cup {Optimistic(n) : n \in Numbers}

TypeOK ==
  /\ stored \in [Conversations -> SUBSET StoredMessages]
  /\ queued \in [Conversations -> SUBSET Numbers]
  /\ run \in [Conversations -> [stream : 0..MaxSends, task : 0..MaxSends, waiting : BOOLEAN,
                                revision : 0..2, chunks : 0..MaxChunks]]
  /\ owed \subseteq Numbers \X (1..MaxVisits)
  /\ sends \in 0..MaxSends /\ visit \in 0..MaxVisits /\ mounted \in BOOLEAN
  /\ active \in Conversations \cup {None}
  /\ messages \subseteq ShownMessages
  /\ streaming \in [Conversations -> [stream : 0..MaxSends, text : 0..MaxChunks]]
  /\ streamConv \in [Numbers -> Conversations \cup {None}]
  /\ banner \in [Conversations -> 0..MaxSends]
  /\ hydrated \in [conv : Conversations \cup {None}, revision : {-1, 1, 2, LiveEvent}]
  /\ sending \in [n : 0..MaxSends, new : BOOLEAN]
  /\ started \subseteq Numbers

EmptyScreen ==
  /\ active' = None /\ messages' = {}
  /\ streaming' = [c \in Conversations |-> NoStream]
  /\ streamConv' = [n \in Numbers |-> None]
  /\ banner' = [c \in Conversations |-> 0]
  /\ hydrated' = [conv |-> None, revision |-> -1]
  /\ sending' = [n |-> 0, new |-> FALSE]
  /\ started' = {}

Init ==
  /\ stored = [c \in Conversations |-> IF c \in Existing THEN {Old(c)} ELSE {}]
  /\ queued = [c \in Conversations |-> {}]
  /\ run = [c \in Conversations |-> NoRun]
  /\ owed = {}
  /\ requests = <<>> /\ pushes = <<>>
  /\ sends = 0 /\ visit = 0 /\ mounted = FALSE
  /\ active = None /\ messages = {}
  /\ streaming = [c \in Conversations |-> NoStream]
  /\ streamConv = [n \in Numbers |-> None]
  /\ banner = [c \in Conversations |-> 0]
  /\ hydrated = [conv |-> None, revision |-> -1]
  /\ sending = [n |-> 0, new |-> FALSE]
  /\ started = {}

-----------------------------------------------------------------------------
(* The main process. Events carry stream 0 when it made up a stream only    *)
(* to send them.                                                            *)

StartEvent(c, n)      == [kind |-> "start", conv |-> c, stream |-> n]
ChunkEvent(n)         == [kind |-> "chunk", stream |-> n]
WaitingEvent(c, n)    == [kind |-> "waiting", conv |-> c, stream |-> n]
EndEvent(n, msg)      == [kind |-> "end", stream |-> n, msgs |-> msg]
MessagesReply(c, v)   == [kind |-> "messages", conv |-> c, visit |-> v, msgs |-> stored[c]]
RuntimeReply(c, v)    == [kind |-> "runtime", conv |-> c, visit |-> v,
                          stream |-> run[c].stream, revision |-> run[c].revision]
SentReply(n, v, ok)   == [kind |-> "sent", n |-> n, visit |-> v, ok |-> ok]

MayPush == Len(pushes) < MaxPushes
Push(es) == pushes' = pushes \o es

getRuntimeState(c, v) == IF run[c].task # 0 THEN [RuntimeReply(c, v) EXCEPT !.stream = 0] ELSE RuntimeReply(c, v)

(* processNext of a queue that is not paused, with q waiting, st stored     *)
(* and nothing processing: a run starts, or a task takes the item over, or  *)
(* the item fails before a stream is opened: without a word where its       *)
(* profile or its key is gone, with a message where its context is.         *)
processNext(c, st, q, es) ==
  \/ /\ q = {} /\ run' = [run EXCEPT ![c] = NoRun] /\ queued' = [queued EXCEPT ![c] = q]
     /\ stored' = [stored EXCEPT ![c] = st] /\ Push(es)
  \/ /\ q # {}
     /\ queued' = [queued EXCEPT ![c] = q \ {Min(q)}]
     /\ \/ /\ run' = [run EXCEPT ![c] = NewRun(Min(q))]
           /\ stored' = [stored EXCEPT ![c] = st]
           /\ Push(Append(es, StartEvent(c, Min(q))))
        \/ /\ \E task \in {0, Min(q)} :   \* 0: failed without a word
                run' = [run EXCEPT ![c] = [NoRun EXCEPT !.task = task]]
           /\ stored' = [stored EXCEPT ![c] = st] /\ Push(es)
        \/ /\ run' = [run EXCEPT ![c] = NoRun]
           /\ stored' = [stored EXCEPT ![c] = st \cup {Failure(Min(q))}]
           /\ Push(Append(es, EndEvent(0, {Failure(Min(q))})))

Idle(c) == run[c] = NoRun

(* The user resumes the queue after a run that did not succeed.             *)
resume(c) ==
  /\ MayPush /\ Idle(c) /\ queued[c] # {}
  /\ processNext(c, stored[c], queued[c], <<>>)
  /\ UNCHANGED <<owed, requests, sends, visit, mounted, shown>>

onChunk(c) ==
  /\ MayPush /\ run[c].stream # 0 /\ ~run[c].waiting /\ run[c].chunks < MaxChunks
  /\ run' = [run EXCEPT ![c].chunks = @ + 1]
  /\ Push(<<ChunkEvent(run[c].stream)>>)
  /\ UNCHANGED <<stored, queued, owed, requests, sends, visit, mounted, shown>>

(* A tool found that only the user can go on; once per run here.            *)
onWaitingForHuman(c) ==
  /\ MayPush /\ run[c].stream # 0 /\ ~run[c].waiting /\ run[c].revision = 1
  /\ run' = [run EXCEPT ![c].waiting = TRUE, ![c].revision = 2]
  /\ Push(<<WaitingEvent(c, run[c].stream)>>)
  /\ UNCHANGED <<stored, queued, owed, requests, sends, visit, mounted, shown>>

(* A run ends with what it stores: registry, message, event in one step.    *)
RunStops(c, msg) ==
  /\ run' = [run EXCEPT ![c] = NoRun]
  /\ stored' = [stored EXCEPT ![c] = @ \cup msg]
  /\ Push(<<EndEvent(run[c].stream, msg)>>)
  /\ UNCHANGED <<queued, owed, requests, sends, visit, mounted, shown>>

(* A run that waited for the user has paused its queue, and leaves it so    *)
(* unless a message was sent since.                                         *)
RunSucceeds(c) ==
  /\ MayPush /\ run[c].stream # 0 /\ ~run[c].waiting
  /\ LET msg == {Answer(run[c].stream)}
     IN \/ /\ processNext(c, stored[c] \cup msg, queued[c], <<EndEvent(run[c].stream, msg)>>)
           /\ UNCHANGED <<owed, requests, sends, visit, mounted, shown>>
        \/ run[c].revision = 2 /\ RunStops(c, msg)

RunFails(c) ==
  /\ MayPush /\ run[c].stream # 0 /\ ~run[c].waiting
  /\ RunStops(c, {Failure(run[c].stream)})

RunIsCancelled(c) ==
  /\ MayPush /\ run[c].stream # 0
  /\ RunStops(c, {})

completeQueueItemAsTask(c) ==
  /\ MayPush /\ run[c].task # 0
  /\ LET msg == {Answer(run[c].task)}
     IN processNext(c, stored[c] \cup msg, queued[c], <<EndEvent(0, msg)>>)
  /\ UNCHANGED <<owed, requests, sends, visit, mounted, shown>>

-----------------------------------------------------------------------------
(* The handlers of the requests.                                            *)

Handling(kind) == MayPush /\ requests # <<>> /\ Head(requests).kind = kind /\ requests' = Tail(requests)

HandleMessages ==
  /\ Handling("messages")
  /\ Push(<<MessagesReply(Head(requests).conv, Head(requests).visit)>>)
  /\ UNCHANGED <<main, sends, visit, mounted, shown>>

HandleRuntimeState ==
  /\ Handling("runtime")
  /\ Push(<<getRuntimeState(Head(requests).conv, Head(requests).visit)>>)
  /\ UNCHANGED <<main, sends, visit, mounted, shown>>

(* CHAT_SEND refuses, or stores and queues the message and starts it when   *)
(* the queue is free. The reply for a task waits until the task was made.   *)
HandleSend ==
  LET r == Head(requests)
      c == r.conv
      st == stored[c] \cup {User(r.n)}
  IN /\ Handling("send")
     /\ \/ /\ Push(<<SentReply(r.n, r.visit, FALSE)>>)
           /\ UNCHANGED main
        \/ /\ owed' = owed \cup {<<r.n, r.visit>>}
           /\ \/ Idle(c) /\ processNext(c, st, queued[c] \cup {r.n}, <<>>)
              \/ /\ ~Idle(c)
                 /\ stored' = [stored EXCEPT ![c] = st]
                 /\ queued' = [queued EXCEPT ![c] = @ \cup {r.n}]
                 /\ UNCHANGED <<run, pushes>>
     /\ UNCHANGED <<sends, visit, mounted, shown>>

ReplyToSend(o) ==
  /\ MayPush
  /\ owed' = owed \ {o}
  /\ Push(<<SentReply(o[1], o[2], TRUE)>>)
  /\ UNCHANGED <<stored, queued, run, requests, sends, visit, mounted, shown>>

HandleReturnControl ==
  LET r == Head(requests)
      c == r.conv
  IN /\ Handling("return")
     /\ run' = IF run[c].stream = r.stream THEN [run EXCEPT ![c].waiting = FALSE] ELSE run
     /\ UNCHANGED <<stored, queued, owed, pushes, sends, visit, mounted, shown>>

-----------------------------------------------------------------------------
(* The user.                                                                *)

MayAsk == mounted /\ Len(requests) < MaxRequests
Ask(rs) == requests' = requests \o rs

MessagesRequest(c) == [kind |-> "messages", conv |-> c, visit |-> visit]
RuntimeRequest(c) == [kind |-> "runtime", conv |-> c, visit |-> visit]
SendRequest(c, n) == [kind |-> "send", conv |-> c, n |-> n, visit |-> visit]
ReturnRequest(c) == [kind |-> "return", conv |-> c, stream |-> banner[c]]

Mount ==
  /\ ~mounted /\ visit < MaxVisits
  /\ mounted' = TRUE /\ visit' = visit + 1
  /\ UNCHANGED <<main, requests, pushes, sends, shown>>

Unmount ==
  /\ mounted
  /\ mounted' = FALSE /\ EmptyScreen
  /\ UNCHANGED <<main, requests, pushes, sends, visit>>

(* Mutant: the revision of the conversation left is kept. *)
hydrate_KeepsRevision(c) ==
  /\ active' = c
  /\ hydrated' = [hydrated EXCEPT !.conv = c]
  /\ started' = {}

(* What the effects do when the active conversation has become c.           *)
hydrate(c) ==
  /\ active' = c
  /\ hydrated' = [conv |-> c, revision |-> -1]
  /\ started' = {}

handleSelectConversation(c) ==
  /\ MayAsk /\ c # active /\ stored[c] # {}
  /\ hydrate(c)
  /\ Ask(<<MessagesRequest(c), RuntimeRequest(c)>>)
  /\ UNCHANGED <<main, pushes, sends, visit, mounted, messages, streaming, streamConv, banner, sending>>

handleNewConversation ==
  /\ mounted /\ active # None
  /\ active' = None /\ messages' = {}
  /\ UNCHANGED <<main, requests, pushes, sends, visit, mounted, streaming, streamConv, banner, hydrated, sending, started>>

(* In a draft the conversation is opened after the message was sent.        *)
handleSend(c) ==
  LET n == sends + 1
  IN /\ MayAsk /\ sends < MaxSends /\ sending.n = 0
     /\ c = active \/ (active = None /\ stored[c] = {})
     /\ sends' = n
     /\ messages' = messages \cup {Optimistic(n)}
     /\ sending' = [n |-> n, new |-> active = None]
     /\ \/ /\ active = None /\ hydrate(c)
           /\ Ask(<<SendRequest(c, n), MessagesRequest(c), RuntimeRequest(c)>>)
        \/ /\ active # None /\ Ask(<<SendRequest(c, n)>>)
           /\ UNCHANGED <<active, hydrated, started>>
     /\ UNCHANGED <<main, pushes, visit, mounted, streaming, streamConv, banner>>

BannerIsVisible == active # None /\ streaming[active] = NoStream /\ banner[active] # 0

(* The button of the banner; it goes when the call returns.                 *)
returnBrowserControl ==
  /\ MayAsk /\ BannerIsVisible
  /\ Ask(<<ReturnRequest(active)>>)
  /\ banner' = [banner EXCEPT ![active] = 0]
  /\ UNCHANGED <<main, pushes, sends, visit, mounted, active, messages, streaming, streamConv, hydrated, sending, started>>

-----------------------------------------------------------------------------
(* What arrives at the screen.                                              *)

Arrives(kind) == mounted /\ pushes # <<>> /\ Head(pushes).kind = kind /\ pushes' = Tail(pushes)
IsCurrent(p) == p.visit = visit

(* Nobody listens, or the reply is for a screen that is gone.               *)
IsLost ==
  /\ pushes # <<>>
  /\ ~mounted \/ (Head(pushes).kind \in {"messages", "runtime", "sent"} /\ ~IsCurrent(Head(pushes)))
  /\ pushes' = Tail(pushes)
  /\ UNCHANGED <<main, requests, sends, visit, mounted, shown>>

(* Mutant: the start does not outrank a reply on its way. *)
onStreamStart_KeepsRevision ==
  LET p == Head(pushes)
  IN /\ Arrives("start")
     /\ streamConv' = [streamConv EXCEPT ![p.stream] = p.conv]
     /\ banner' = [banner EXCEPT ![p.conv] = 0]
     /\ streaming' = [streaming EXCEPT ![p.conv] = [stream |-> p.stream, text |-> 0]]
     /\ started' = started \cup {p.stream}
     /\ UNCHANGED <<main, requests, sends, visit, mounted, active, messages, hydrated, sending>>

onStreamStart ==
  LET p == Head(pushes)
  IN /\ Arrives("start")
     /\ streamConv' = [streamConv EXCEPT ![p.stream] = p.conv]
     /\ hydrated' = IF p.conv = hydrated.conv THEN [hydrated EXCEPT !.revision = LiveEvent] ELSE hydrated
     /\ banner' = [banner EXCEPT ![p.conv] = 0]
     /\ streaming' = [streaming EXCEPT ![p.conv] = [stream |-> p.stream, text |-> 0]]
     /\ started' = started \cup {p.stream}
     /\ UNCHANGED <<main, requests, sends, visit, mounted, active, messages, sending>>

onStreamChunk ==
  LET p == Head(pushes)
      c == streamConv[p.stream]
  IN /\ Arrives("chunk")
     /\ streaming' = IF c # None /\ streaming[c].stream = p.stream
                     THEN [streaming EXCEPT ![c].text = @ + 1] ELSE streaming
     /\ UNCHANGED <<main, requests, sends, visit, mounted, active, messages, streamConv, banner, hydrated, sending, started>>

(* onStreamEnd and onStreamError.                                           *)
onStreamEnd ==
  LET p == Head(pushes)
      c == IF p.stream = 0 THEN None ELSE streamConv[p.stream]
  IN /\ Arrives("end")
     /\ IF c = None
        THEN UNCHANGED <<streamConv, streaming, banner, messages>>
        ELSE /\ streamConv' = [streamConv EXCEPT ![p.stream] = None]
             /\ streaming' = [streaming EXCEPT ![c] = NoStream]
             /\ banner' = [banner EXCEPT ![c] = 0]
             /\ messages' = IF c = active THEN messages \cup p.msgs ELSE messages
     /\ UNCHANGED <<main, requests, sends, visit, mounted, active, hydrated, sending, started>>

onWaiting ==
  LET p == Head(pushes)
  IN /\ Arrives("waiting")
     /\ banner' = [banner EXCEPT ![p.conv] = p.stream]
     /\ UNCHANGED <<main, requests, sends, visit, mounted, active, messages, streaming, streamConv, hydrated, sending, started>>

(* Mutant: the list is applied whatever conversation is open by now. *)
MessagesLoaded_Unguarded ==
  LET p == Head(pushes)
  IN /\ Arrives("messages") /\ IsCurrent(p)
     /\ messages' = p.msgs
     /\ UNCHANGED <<main, requests, sends, visit, mounted, active, streaming, streamConv, banner, hydrated, sending, started>>

MessagesLoaded ==
  LET p == Head(pushes)
  IN /\ Arrives("messages") /\ IsCurrent(p)
     /\ messages' = IF p.conv = active THEN p.msgs ELSE messages
     /\ UNCHANGED <<main, requests, sends, visit, mounted, active, streaming, streamConv, banner, hydrated, sending, started>>

Hydrated ==
  LET p == Head(pushes)
  IN /\ Arrives("runtime") /\ IsCurrent(p)
     /\ \/ /\ p.conv # hydrated.conv \/ (p.stream # 0 /\ hydrated.revision >= p.revision)
           /\ UNCHANGED <<hydrated, streamConv, streaming>>
        \/ /\ p.conv = hydrated.conv /\ p.stream = 0
           /\ streaming' = [streaming EXCEPT ![p.conv] = NoStream]
           /\ UNCHANGED <<hydrated, streamConv>>
        \/ /\ p.conv = hydrated.conv /\ p.stream # 0 /\ hydrated.revision < p.revision
           /\ hydrated' = [hydrated EXCEPT !.revision = p.revision]
           /\ streamConv' = [streamConv EXCEPT ![p.stream] = p.conv]
           /\ streaming' = [streaming EXCEPT ![p.conv] = [stream |-> p.stream, text |-> 0]]
     /\ UNCHANGED <<main, requests, sends, visit, mounted, active, messages, banner, sending, started>>

(* Mutant: a refused message stays beside its error. *)
MessageSent_KeepsRefused ==
  LET p == Head(pushes)
  IN /\ Arrives("sent") /\ IsCurrent(p)
     /\ sending' = [n |-> 0, new |-> FALSE]
     /\ messages' = IF p.ok THEN (messages \ {Optimistic(p.n)}) \cup {User(p.n)}
                    ELSE messages \cup {Failed(p.n)}
     /\ UNCHANGED <<main, requests, sends, visit, mounted, active, streaming, streamConv, banner, hydrated, started>>

(* The rest of handleSend. A refused first message of a draft takes the     *)
(* user back to the draft, wherever he is by now.                           *)
MessageSent ==
  LET p == Head(pushes)
  IN /\ Arrives("sent") /\ IsCurrent(p)
     /\ sending' = [n |-> 0, new |-> FALSE]
     /\ \/ /\ p.ok
           /\ messages' = IF Optimistic(p.n) \in messages
                          THEN (messages \ {Optimistic(p.n)}) \cup {User(p.n)} ELSE messages
           /\ UNCHANGED active
        \/ /\ ~p.ok /\ sending.new
           /\ active' = None /\ messages' = {}
        \/ /\ ~p.ok /\ ~sending.new
           /\ messages' = (messages \ {Optimistic(p.n)}) \cup {Failed(p.n)}
           /\ UNCHANGED active
     /\ UNCHANGED <<main, requests, sends, visit, mounted, streaming, streamConv, banner, hydrated, started>>

-----------------------------------------------------------------------------
Next ==
  \/ \E c \in Conversations :
       \/ resume(c) \/ onChunk(c) \/ onWaitingForHuman(c)
       \/ RunSucceeds(c) \/ RunFails(c) \/ RunIsCancelled(c) \/ completeQueueItemAsTask(c)
       \/ handleSelectConversation(c) \/ handleSend(c)
  \/ HandleMessages \/ HandleRuntimeState \/ HandleSend \/ HandleReturnControl
  \/ \E o \in owed : ReplyToSend(o)
  \/ Mount \/ Unmount \/ handleNewConversation \/ returnBrowserControl
  \/ IsLost \/ onStreamStart \/ onStreamChunk \/ onStreamEnd \/ onWaiting
  \/ MessagesLoaded \/ Hydrated \/ MessageSent

Spec == Init /\ [][Next]_vars

-----------------------------------------------------------------------------
(* Properties.                                                              *)

Settled == mounted /\ active # None /\ requests = <<>> /\ pushes = <<>> /\ owed = {}

(* A conversation is shown as streaming only while its run goes on, or      *)
(* the event of its end is on its way: no indicator outlives its run,       *)
(* whenever the screen was opened and the stream learnt of (the hydration   *)
(* effect and the stream subscriptions of ChatScreen.tsx).                  *)
NoGhostStream ==
  \A c \in Conversations :
    streaming[c].stream # 0 =>
      \/ run[c].stream = streaming[c].stream
      \/ \E i \in 1..Len(pushes) : pushes[i].kind = "end" /\ pushes[i].stream = streaming[c].stream

(* Once everything asked for has arrived, the run of the conversation on    *)
(* the screen is shown, also one that started before the screen was opened  *)
(* or while another conversation was open.                                  *)
LiveRunIsShown ==
  Settled /\ run[active].stream # 0 => streaming[active].stream = run[active].stream

(* A stream is shown for the runs that go on, and for no other.             *)
StreamsMatchRuns == NoGhostStream /\ LiveRunIsShown

(* The text of a run whose start was seen since its conversation was        *)
(* opened is all the text sent so far, less what is on its way: no late     *)
(* reply about the run's state puts it back to the start.                   *)
TextIsWhole ==
  active # None /\ streaming[active].stream \in started
                /\ run[active].stream = streaming[active].stream =>
    streaming[active].text =
      run[active].chunks - Cardinality({i \in 1..Len(pushes) :
                                          pushes[i].kind = "chunk" /\ pushes[i].stream = run[active].stream})

(* Once everything has arrived the screen shows nothing but messages        *)
(* stored in the open conversation, and errors of sends: no message of      *)
(* another conversation, and no copy of the user's message beside the       *)
(* stored one.                                                              *)
ViewIsStored == Settled => messages \ FailedSends \subseteq stored[active]

(* A stored message, once on the screen, stays there as long as the         *)
(* conversation is open: no list of messages asked for before it was        *)
(* stored replaces the one that has it.                                     *)
ShownStays ==
  [][active # None /\ active' = active => messages \cap stored[active] \subseteq messages']_vars

(* "so we can never miss a STREAM_END that races the hydration response"    *)
(* (ChatScreen.tsx:674): the answer of a run that is stored in the open     *)
(* conversation is shown once everything has arrived.                       *)
AnswerIsShown ==
  Settled => {m \in stored[active] : m[1] = "answer"} \subseteq messages

=============================================================================
