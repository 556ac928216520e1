--------------------------- MODULE ChatViewProofs ---------------------------
(***************************************************************************)
(* Proofs about ChatView, for any conversations and any bounds.            *)
(*                                                                         *)
(* The screen is right only when everything sent to it has arrived.  The   *)
(* invariant therefore says of each thing shown that it is so, or that     *)
(* what makes it so is on its way, in the order that makes it so: Places   *)
(* follows a message through the main process, Wire says what of the       *)
(* pushes is true and which of two comes first, Screen what the shown      *)
(* knows, and Coming which reply mends what is still missing.              *)
(*                                                                         *)
(* Its parts are operators of the stored and sent values, because an       *)
(* action sends several pushes: it is shown for each in turn.              *)
(***************************************************************************)
EXTENDS ChatView, FunctionTheorems, FiniteSetTheorems, WellFoundedInduction, TLAPS

-----------------------------------------------------------------------------
(* The inductive invariant, over the values (st, qu, ru, ow, rq, P) of     *)
(* stored, queued, run, owed, requests and pushes.                         *)

Request ==
  [kind : {"messages", "runtime"}, conv : Conversations, visit : Nat]
    \union [kind : {"send"}, conv : Conversations, n : Numbers, visit : Nat]
    \union [kind : {"return"}, conv : Conversations, stream : 0..MaxSends]

PushMessage ==
  [kind : {"start", "waiting"}, conv : Conversations, stream : Numbers]
    \union [kind : {"chunk"}, stream : Numbers]
    \union [kind : {"end"}, stream : 0..MaxSends, msgs : SUBSET StoredMessages]
    \union [kind : {"messages"}, conv : Conversations, visit : Nat, msgs : SUBSET StoredMessages]
    \union [kind : {"runtime"}, conv : Conversations, visit : Nat, stream : 0..MaxSends,
            revision : 0..2]
    \union [kind : {"sent"}, n : Numbers, visit : Nat, ok : BOOLEAN]

RunEntry == [stream : 0..MaxSends, task : 0..MaxSends, waiting : BOOLEAN,
             revision : 0..2, chunks : 0..MaxChunks]

Types(st, qu, ru, ow, rq, P) == /\ st \in [Conversations -> SUBSET StoredMessages]
                                /\ qu \in [Conversations -> SUBSET Numbers]
                                /\ ru \in [Conversations -> RunEntry]
                                /\ ow \subseteq Numbers \X Nat
                                /\ rq \in Seq(Request)
                                /\ P \in Seq(PushMessage)

ScreenTypes ==
  /\ sends \in 0..MaxSends /\ visit \in Nat /\ mounted \in BOOLEAN
  /\ active \in Conversations \union {None}
  /\ messages \subseteq ShownMessages
  /\ streaming \in [Conversations -> [stream : 0..MaxSends, text : Int]]
  /\ streamConv \in [Numbers -> Conversations \union {None}]
  /\ banner \in [Conversations -> 0..MaxSends]
  /\ hydrated \in [conv : Conversations \union {None}, revision : {-1, 1, 2, LiveEvent}]
  /\ sending \in [n : 0..MaxSends, new : BOOLEAN]
  /\ started \subseteq Numbers

\* The conversation a number was sent to, and whether its turn has come there.
Home(st, n, c) == User(n) \in st[c]
Begun(st, qu, n, c) == Home(st, n, c) /\ n \notin qu[c]

\* Where a number is on its way through the main process.
Places(st, qu, ru, ow, rq, P) ==
  /\ \A c \in Conversations, n \in Numbers : Home(st, n, c) => n <= sends
  /\ \A c, d \in Conversations, n \in Numbers : Home(st, n, c) /\ Home(st, n, d) => c = d
  /\ \A c \in Conversations : \A n \in qu[c] : Home(st, n, c)
  /\ \A c \in Conversations :
       /\ ru[c].stream # 0 => /\ Begun(st, qu, ru[c].stream, c)
                              /\ ru[c].task = 0 /\ ru[c].revision \in {1, 2}
       /\ ru[c].task # 0 => Begun(st, qu, ru[c].task, c)
  /\ \A c \in Conversations, n \in Numbers :
       Answer(n) \in st[c] \/ Failure(n) \in st[c] =>
         Begun(st, qu, n, c) /\ ru[c].stream # n /\ ru[c].task # n
  /\ \A o \in ow : \E c \in Conversations : Home(st, o[1], c)
  /\ \A i \in 1..Len(rq) : rq[i].kind = "send" =>
       /\ rq[i].n <= sends
       /\ \A c \in Conversations : ~Home(st, rq[i].n, c)
       /\ \A j \in 1..Len(rq) : rq[j].kind = "send" /\ rq[j].n = rq[i].n => i = j
  /\ \A k \in 1..Len(P) : P[k].kind = "sent" /\ ~P[k].ok =>
       /\ P[k].n <= sends
       /\ \A c \in Conversations : ~Home(st, P[k].n, c)
       /\ \A i \in 1..Len(rq) : rq[i].kind = "send" => rq[i].n # P[k].n

\* The messages a push can put on the screen.
Carried(p) == IF p.kind \in {"end", "messages"} THEN p.msgs
              ELSE IF p.kind = "sent" THEN {m \in {User(p.n)} : p.ok} ELSE {}

Kept(st, m) == \E c \in Conversations : m \in st[c]

\* What a push says is so: of streams that have begun, of messages that are stored.
Truthful(st, qu, p) ==
  /\ p.kind \in {"start", "waiting", "runtime"} /\ p.stream # 0 => Begun(st, qu, p.stream, p.conv)
  /\ p.kind = "runtime" /\ p.stream # 0 => p.revision \in {1, 2}
  /\ p.kind \in {"chunk", "end"} /\ p.stream # 0 =>
       \E c \in Conversations : Begun(st, qu, p.stream, c)
  /\ \A m \in Carried(p) : Kept(st, m)
  /\ p.kind = "end" /\ p.stream # 0 =>
       \A c \in Conversations : Home(st, p.stream, c) => p.msgs \subseteq st[c]
  /\ p.kind = "messages" => p.msgs \subseteq st[p.conv]

AllTruthful(st, qu, P) == \A i \in 1..Len(P) : Truthful(st, qu, P[i])

Ends(p, n) == p.kind = "end" /\ p.stream = n
Starts(p, c, n) == p.kind = "start" /\ p.conv = c /\ p.stream = n

\* A push that makes c show another stream than n, or none.
Displaces(st, p, c, n) ==
  \/ p.kind \in {"start", "runtime"} /\ p.conv = c /\ p.stream # n
  \/ p.kind = "end" /\ p.stream # n /\ p.stream # 0 /\ Home(st, p.stream, c)

\* A stream that is announced goes on, or its end comes later.
EndsFollow(ru, P) ==
  \A i \in 1..Len(P) :
    P[i].kind \in {"start", "runtime"} /\ P[i].stream # 0 =>
      \/ ru[P[i].conv].stream = P[i].stream
      \/ \E j \in i+1..Len(P) : Ends(P[j], P[i].stream)

\* What displaces a run that goes on is followed by the start of this run.
StartsFollow(st, ru, P) ==
  \A c \in Conversations, i \in 1..Len(P) :
    ru[c].stream # 0 /\ Displaces(st, P[i], c, ru[c].stream) =>
      \E j \in i+1..Len(P) : Starts(P[j], c, ru[c].stream)

\* No end of a run that goes on is on its way.
EndsAreFinal(ru, P) ==
  \A c \in Conversations, i \in 1..Len(P) :
    ru[c].stream # 0 /\ P[i].kind = "end" => P[i].stream # ru[c].stream

Chunks(P, n) == {i \in 1..Len(P) : P[i].kind = "chunk" /\ P[i].stream = n}
Pending(P, n) == Cardinality(Chunks(P, n))

\* No chunk of a run is read before its start.
ChunksFollow(ru, P) ==
  \A c \in Conversations, i \in 1..Len(P) :
    ru[c].stream # 0 /\ Starts(P[i], c, ru[c].stream) =>
      /\ Pending(P, ru[c].stream) = ru[c].chunks
      /\ \A j \in Chunks(P, ru[c].stream) : i < j

\* A list of messages has what arrives before it.
ListsGrow(st, P) ==
  \A i \in 1..Len(P) : P[i].kind = "messages" =>
    \A j \in 1..i-1 : Carried(P[j]) \cap st[P[i].conv] \subseteq P[i].msgs

Wire(st, qu, ru, P) == /\ AllTruthful(st, qu, P)
                       /\ EndsFollow(ru, P)
                       /\ EndsAreFinal(ru, P)
                       /\ StartsFollow(st, ru, P)
                       /\ ChunksFollow(ru, P)
                       /\ ListsGrow(st, P)

\* What the screen knows is so.
Known(st, qu) ==
  /\ \A c \in Conversations : streaming[c].stream # 0 => streamConv[streaming[c].stream] = c
  /\ \A n \in Numbers : streamConv[n] # None => Begun(st, qu, n, streamConv[n])
  /\ \A n \in started : \E c \in Conversations : Begun(st, qu, n, c)
  /\ \A m \in messages \cap StoredMessages : Kept(st, m)

ListsReplace(st, P) ==
  \A i \in 1..Len(P) : P[i].kind = "messages" => messages \cap st[P[i].conv] \subseteq P[i].msgs

NoGhost(ru, P) ==
  \A c \in Conversations : streaming[c].stream # 0 =>
    \/ ru[c].stream = streaming[c].stream
    \/ \E i \in 1..Len(P) : Ends(P[i], streaming[c].stream)

\* The screen shows the run of c, or will when it reads the start of it.
Seen(ru, P, c) == \/ streaming[c].stream = ru[c].stream
                  \/ \E i \in 1..Len(P) : Starts(P[i], c, ru[c].stream)

RevisionSeen(ru, P) ==
  hydrated.conv # None /\ hydrated.revision # -1 /\ ru[hydrated.conv].stream # 0 =>
    Seen(ru, P, hydrated.conv)

RunIsComing(ru, rq, P) ==
  active # None /\ ru[active].stream # 0 =>
    \/ Seen(ru, P, active)
    \/ \E i \in 1..Len(rq) : rq[i].kind = "runtime" /\ rq[i].conv = active /\ rq[i].visit = visit
    \/ \E i \in 1..Len(P) : /\ P[i].kind = "runtime" /\ P[i].conv = active /\ P[i].visit = visit
                            /\ P[i].stream = ru[active].stream

StartedIsLive(st) ==
  \A n \in started : hydrated.conv # None /\ Home(st, n, hydrated.conv) => hydrated.revision = LiveEvent

TextFollows(ru, P) ==
  \A c \in Conversations :
    ru[c].stream # 0 /\ streaming[c].stream = ru[c].stream /\ ru[c].stream \in started =>
      streaming[c].text = ru[c].chunks - Pending(P, ru[c].stream)

\* A message of the user on its way to c, from the screen that is open.
OnItsWay(st, ow, rq, P, n, c) ==
  \/ \E i \in 1..Len(rq) : /\ rq[i].kind = "send" /\ rq[i].n = n /\ rq[i].visit = visit
                           /\ rq[i].conv = c
  \/ <<n, visit>> \in ow /\ Home(st, n, c)
  \/ \E i \in 1..Len(P) : /\ P[i].kind = "sent" /\ P[i].n = n /\ P[i].visit = visit
                          /\ P[i].ok => Home(st, n, c)

Fits(st, ow, rq, P, m, c) == \/ m \in st[c]
                             \/ m \in FailedSends
                             \/ \E n \in Numbers : m = Optimistic(n) /\ OnItsWay(st, ow, rq, P, n, c)

ListIsComing(st, ow, rq, P) ==
  active # None =>
    \/ \E i \in 1..Len(rq) : rq[i].kind = "messages" /\ rq[i].conv = active /\ rq[i].visit = visit
    \/ \E i \in 1..Len(P) : P[i].kind = "messages" /\ P[i].conv = active /\ P[i].visit = visit
    \/ \A m \in messages : Fits(st, ow, rq, P, m, active)

\* A screen that is not there shows nothing.
Blank == /\ active = None /\ messages = {} /\ started = {}
         /\ \A c \in Conversations : streaming[c].stream = 0
         /\ \A n \in Numbers : streamConv[n] = None
         /\ hydrated.conv = None /\ hydrated.revision = -1

ScreenIsOpen == /\ ~mounted => Blank
                /\ active # None => hydrated.conv = active

Screen(st, qu, ru, P) == /\ Known(st, qu)
                         /\ ListsReplace(st, P)
                         /\ NoGhost(ru, P)
                         /\ RevisionSeen(ru, P)
                         /\ StartedIsLive(st)
                         /\ TextFollows(ru, P)

Coming(st, ru, ow, rq, P) == RunIsComing(ru, rq, P) /\ ListIsComing(st, ow, rq, P)

Inv(st, qu, ru, ow, rq, P) == /\ Types(st, qu, ru, ow, rq, P)
                              /\ Places(st, qu, ru, ow, rq, P)
                              /\ Wire(st, qu, ru, P)
                              /\ Screen(st, qu, ru, P)
                              /\ Coming(st, ru, ow, rq, P)

IInv == /\ ScreenTypes
        /\ ScreenIsOpen
        /\ Inv(stored, queued, run, owed, requests, pushes)

-----------------------------------------------------------------------------
(* Facts about sequences of pushes and requests.                           *)

LEMMA PushFields ==
  ASSUME NEW p \in PushMessage
  PROVE  /\ p.kind \in {"start", "waiting", "chunk", "end", "messages", "runtime", "sent"}
         /\ p.kind \in {"start", "waiting", "messages", "runtime"} => p.conv \in Conversations
         /\ p.kind \in {"start", "waiting", "chunk"} => p.stream \in Numbers
         /\ p.kind \in {"end", "runtime"} => p.stream \in 0..MaxSends
         /\ p.kind \in {"end", "messages"} => p.msgs \subseteq StoredMessages
         /\ p.kind \in {"messages", "runtime", "sent"} => p.visit \in Nat
         /\ p.kind = "runtime" => p.revision \in 0..2
         /\ p.kind = "sent" => p.n \in Numbers /\ p.ok \in BOOLEAN
  BY DEF PushMessage

LEMMA RequestFields ==
  ASSUME NEW r \in Request
  PROVE  /\ r.kind \in {"messages", "runtime", "send", "return"}
         /\ r.conv \in Conversations
         /\ r.kind \in {"messages", "runtime", "send"} => r.visit \in Nat
         /\ r.kind = "send" => r.n \in Numbers
         /\ r.kind = "return" => r.stream \in 0..MaxSends
  BY DEF Request

LEMMA EntryFields ==
  ASSUME NEW n \in 0..MaxSends
  PROVE  /\ NoRun \in RunEntry
         /\ NewRun(n) \in RunEntry /\ NewRun(n).stream = n /\ NewRun(n).chunks = 0
         /\ NewRun(n).task = 0 /\ NewRun(n).revision = 1
         /\ [NoRun EXCEPT !.task = n] \in RunEntry
         /\ [NoRun EXCEPT !.task = n].stream = 0 /\ [NoRun EXCEPT !.task = n].task = n
         /\ [NoRun EXCEPT !.task = n].chunks = 0
<1>1. NoRun \in RunEntry /\ MaxSends \in Nat  BY BoundsAreNumbers DEF NoRun, RunEntry
<1>2. [NoRun EXCEPT !.stream = n] \in RunEntry  BY <1>1 DEF RunEntry
<1>3. NewRun(n) \in RunEntry
  <2>1. NewRun(n) = [[NoRun EXCEPT !.stream = n] EXCEPT !.revision = 1]  BY DEF NewRun, NoRun
  <2>2. \A x \in RunEntry : [x EXCEPT !.revision = 1] \in RunEntry
    <3> SUFFICES ASSUME NEW x \in RunEntry PROVE [x EXCEPT !.revision = 1] \in RunEntry  OBVIOUS
    <3> QED  BY DEF RunEntry
  <2> QED  BY <1>2, <2>1, <2>2
<1>4. NewRun(n).stream = n /\ NewRun(n).chunks = 0 /\ NewRun(n).task = 0 /\ NewRun(n).revision = 1
  BY DEF NewRun, NoRun
<1>5. [NoRun EXCEPT !.task = n] \in RunEntry  BY <1>1 DEF RunEntry
<1>6. [NoRun EXCEPT !.task = n].stream = 0 /\ [NoRun EXCEPT !.task = n].task = n
        /\ [NoRun EXCEPT !.task = n].chunks = 0
  BY DEF NoRun
<1> QED  BY <1>1, <1>3, <1>4, <1>5, <1>6

LEMMA AppendFacts ==
  ASSUME NEW T, NEW s \in Seq(T), NEW e \in T
  PROVE  /\ Append(s, e) \in Seq(T)
         /\ Len(Append(s, e)) = Len(s) + 1 /\ Len(s) \in Nat
         /\ Append(s, e)[Len(s) + 1] = e
         /\ \A i \in 1..Len(s) : Append(s, e)[i] = s[i] /\ s[i] \in T
  OBVIOUS

LEMMA TailFacts ==
  ASSUME NEW T, NEW s \in Seq(T), s # <<>>
  PROVE  /\ Tail(s) \in Seq(T)
         /\ Len(Tail(s)) = Len(s) - 1 /\ Len(s) \in Nat \ {0}
         /\ Head(s) = s[1] /\ s[1] \in T
         /\ \A i \in 1..Len(s) : s[i] \in T
         /\ \A i \in 1..Len(s) - 1 : Tail(s)[i] = s[i + 1]
  OBVIOUS

LEMMA ChunksAreFinite ==
  ASSUME NEW P \in Seq(PushMessage), NEW n
  PROVE  IsFiniteSet(Chunks(P, n)) /\ Pending(P, n) \in Nat
<1>1. Len(P) \in Nat  OBVIOUS
<1>2. IsFiniteSet(1..Len(P))  BY <1>1, FS_Interval
<1>3. Chunks(P, n) \subseteq 1..Len(P)  BY DEF Chunks
<1> QED  BY <1>2, <1>3, FS_Subset, FS_CardinalityType DEF Pending

LEMMA PendingAppend ==
  ASSUME NEW P \in Seq(PushMessage), NEW e \in PushMessage, NEW n
  PROVE  Pending(Append(P, e), n) =
           IF e.kind = "chunk" /\ e.stream = n THEN Pending(P, n) + 1 ELSE Pending(P, n)
<1>1. IsFiniteSet(Chunks(P, n))  BY ChunksAreFinite
<1>2. Len(P) + 1 \notin Chunks(P, n)  BY DEF Chunks
<1>3. Chunks(Append(P, e), n) = IF e.kind = "chunk" /\ e.stream = n
                                THEN Chunks(P, n) \union {Len(P) + 1} ELSE Chunks(P, n)
  BY AppendFacts DEF Chunks
<1> QED  BY <1>1, <1>2, <1>3, FS_AddElement DEF Pending

LEMMA PendingTail ==
  ASSUME NEW P \in Seq(PushMessage), P # <<>>, NEW n
  PROVE  Pending(Tail(P), n) =
           IF P[1].kind = "chunk" /\ P[1].stream = n THEN Pending(P, n) - 1 ELSE Pending(P, n)
<1> DEFINE S == Chunks(Tail(P), n)
           T == Chunks(P, n) \ {1}
           shift == [i \in S |-> i + 1]
<1>1. IsFiniteSet(Chunks(P, n)) /\ IsFiniteSet(S)  BY ChunksAreFinite, TailFacts
<1>2. \A i \in S : i + 1 \in T  BY TailFacts DEF Chunks
<1>3. \A j \in T : j - 1 \in S  BY TailFacts DEF Chunks
<1>4. S \subseteq Int /\ T \subseteq Int  BY TailFacts DEF Chunks
<1>5. shift \in Bijection(S, T)
  <2>1. shift \in Injection(S, T)  BY <1>2, <1>4, Fun_IsInj
  <2>2. \A t \in T : \E s \in S : shift[s] = t
    <3> SUFFICES ASSUME NEW t \in T PROVE \E s \in S : shift[s] = t  OBVIOUS
    <3>1. t - 1 \in S /\ shift[t - 1] = t  BY <1>3, <1>4
    <3> QED  BY <3>1
  <2> QED  BY <1>2, <2>1, <2>2, Fun_IsSurj DEF Bijection, Surjection, Injection
<1>6. Cardinality(S) = Cardinality(T)  BY <1>1, <1>5, FS_Bijection DEF ExistsBijection
<1>7. 1 \in Chunks(P, n) <=> P[1].kind = "chunk" /\ P[1].stream = n  BY TailFacts DEF Chunks
<1>8. Cardinality(T) = IF 1 \in Chunks(P, n) THEN Cardinality(Chunks(P, n)) - 1 ELSE Cardinality(Chunks(P, n))
  BY <1>1, FS_RemoveElement
<1> QED  BY <1>6, <1>7, <1>8 DEF Pending

-----------------------------------------------------------------------------
(* What the wire says stays so when the screen reads the first push.       *)

LEMMA WireTail ==
  ASSUME NEW st, NEW qu, NEW ru, NEW P \in Seq(PushMessage), P # <<>>, Wire(st, qu, ru, P)
  PROVE  Wire(st, qu, ru, Tail(P))
<1> DEFINE T == Tail(P)
<1>1. /\ T \in Seq(PushMessage) /\ Len(P) \in Nat \ {0} /\ Len(T) = Len(P) - 1
      /\ \A i \in 1..Len(T) : T[i] = P[i + 1] /\ i + 1 \in 1..Len(P)
      /\ \A j \in 2..Len(P) : P[j] = T[j - 1] /\ j - 1 \in 1..Len(T)
  BY TailFacts
<1> HIDE DEF T
<1>2. AllTruthful(st, qu, T)
  BY <1>1 DEF Wire, AllTruthful
<1>3. EndsFollow(ru, T)
  <2> SUFFICES ASSUME NEW i \in 1..Len(T), T[i].kind \in {"start", "runtime"}, T[i].stream # 0,
                      ru[T[i].conv].stream # T[i].stream
               PROVE  \E j \in i+1..Len(T) : Ends(T[j], T[i].stream)
    BY DEF EndsFollow
  <2>1. PICK j \in (i+1)+1..Len(P) : Ends(P[j], T[i].stream)
    BY <1>1 DEF Wire, EndsFollow
  <2>2. j - 1 \in i+1..Len(T) /\ P[j] = T[j - 1]  BY <1>1
  <2> QED  BY <2>1, <2>2
<1>4. StartsFollow(st, ru, T)
  <2> SUFFICES ASSUME NEW c \in Conversations, NEW i \in 1..Len(T), ru[c].stream # 0,
                      Displaces(st, T[i], c, ru[c].stream)
               PROVE  \E j \in i+1..Len(T) : Starts(T[j], c, ru[c].stream)
    BY DEF StartsFollow
  <2>1. PICK j \in (i+1)+1..Len(P) : Starts(P[j], c, ru[c].stream)
    BY <1>1 DEF Wire, StartsFollow
  <2>2. j - 1 \in i+1..Len(T) /\ P[j] = T[j - 1]  BY <1>1
  <2> QED  BY <2>1, <2>2
<1>5. ChunksFollow(ru, T)
  <2> SUFFICES ASSUME NEW c \in Conversations, NEW i \in 1..Len(T), ru[c].stream # 0,
                      Starts(T[i], c, ru[c].stream)
               PROVE  /\ Pending(T, ru[c].stream) = ru[c].chunks
                      /\ \A j \in Chunks(T, ru[c].stream) : i < j
    BY DEF ChunksFollow
  <2> DEFINE n == ru[c].stream
  <2>1. /\ Pending(P, n) = ru[c].chunks
        /\ \A j \in Chunks(P, n) : i + 1 < j
    BY <1>1 DEF Wire, ChunksFollow
  <2>2. 1 \notin Chunks(P, n)  BY <2>1
  <2>3. Pending(T, n) = ru[c].chunks  BY <1>1, <2>1, <2>2, PendingTail DEF Chunks, T
  <2>4. \A j \in Chunks(T, n) : i < j
    <3> SUFFICES ASSUME NEW j \in Chunks(T, n) PROVE i < j  OBVIOUS
    <3>1. j + 1 \in Chunks(P, n) /\ j \in Int  BY <1>1 DEF Chunks
    <3> QED  BY <2>1, <3>1
  <2> QED  BY <2>3, <2>4
<1>6. ListsGrow(st, T)
  <2> SUFFICES ASSUME NEW i \in 1..Len(T), T[i].kind = "messages", NEW j \in 1..i-1
               PROVE  Carried(T[j]) \cap st[T[i].conv] \subseteq T[i].msgs
    BY DEF ListsGrow
  <2>1. j + 1 \in 1..(i+1)-1 /\ T[j] = P[j + 1] /\ T[i] = P[i + 1] /\ i + 1 \in 1..Len(P)
    BY <1>1
  <2> QED  BY <2>1 DEF Wire, ListsGrow
<1>7. EndsAreFinal(ru, T)
  BY <1>1 DEF Wire, EndsAreFinal
<1> QED  BY <1>2, <1>3, <1>4, <1>5, <1>6, <1>7 DEF Wire, T

-----------------------------------------------------------------------------
(* What a push at the end leaves so.                                       *)

LEMMA AppendKeepsLists ==
  ASSUME NEW st, NEW P \in Seq(PushMessage), NEW e \in PushMessage, ListsGrow(st, P),
         e.kind # "messages" \/ (e.msgs = st[e.conv])
  PROVE  ListsGrow(st, Append(P, e))
<1> DEFINE Q == Append(P, e)
<1>2. /\ Len(P) \in Nat /\ Len(Q) = Len(P) + 1 /\ Q[Len(P) + 1] = e
      /\ \A i \in 1..Len(P) : Q[i] = P[i]
  BY AppendFacts
<1> HIDE DEF Q
<1> SUFFICES ASSUME NEW i \in 1..Len(Q), Q[i].kind = "messages", NEW j \in 1..i-1
             PROVE  Carried(Q[j]) \cap st[Q[i].conv] \subseteq Q[i].msgs
  BY DEF ListsGrow, Q
<1>3. j \in 1..Len(P) /\ Q[j] = P[j]  BY <1>2
<1>4. CASE i \in 1..Len(P)  BY <1>2, <1>3, <1>4 DEF ListsGrow
<1>5. CASE i = Len(P) + 1  BY <1>2, <1>5
<1> QED  BY <1>2, <1>4, <1>5

LEMMA AppendKeepsSeen ==
  ASSUME NEW P \in Seq(PushMessage), NEW e \in PushMessage, NEW ru, NEW ru2, NEW c,
         ru2[c].stream = ru[c].stream, Seen(ru, P, c)
  PROVE  Seen(ru2, Append(P, e), c)
BY AppendFacts DEF Seen

LEMMA AppendKeepsComing ==
  ASSUME NEW st, NEW ow, NEW rq, NEW P \in Seq(PushMessage), NEW e \in PushMessage,
         ScreenTypes, ListIsComing(st, ow, rq, P)
  PROVE  ListIsComing(st, ow, rq, Append(P, e))
<1> DEFINE Q == Append(P, e)
<1>2. /\ Len(P) \in Nat /\ Len(Q) = Len(P) + 1
      /\ \A i \in 1..Len(P) : Q[i] = P[i]
  BY AppendFacts
<1> HIDE DEF Q
<1>3. \A n \in Numbers, c \in Conversations : OnItsWay(st, ow, rq, P, n, c) => OnItsWay(st, ow, rq, Q, n, c)
  BY <1>2 DEF OnItsWay
<1>4. active # None => active \in Conversations  BY DEF ScreenTypes
<1>5. \A m : active # None /\ Fits(st, ow, rq, P, m, active) => Fits(st, ow, rq, Q, m, active)
  BY <1>3, <1>4 DEF Fits
<1> QED  BY <1>2, <1>5 DEF ListIsComing, Q

-----------------------------------------------------------------------------
(* A push at the end, of no start and no chunk, that says what is so.      *)

LEMMA PushKeepsScreen ==
  ASSUME NEW st, NEW qu, NEW ru, NEW P \in Seq(PushMessage), NEW e \in PushMessage,
         Wire(st, qu, ru, P), Screen(st, qu, ru, P),
         e.kind \notin {"start", "chunk"},
         Truthful(st, qu, e),
         e.kind = "runtime" /\ e.stream # 0 => ru[e.conv].stream = e.stream,
         \A c \in Conversations : ru[c].stream # 0 => ~Displaces(st, e, c, ru[c].stream),
         e.kind = "messages" => e.msgs = st[e.conv],
         e.kind = "end" => e.stream = 0
  PROVE  Wire(st, qu, ru, Append(P, e)) /\ Screen(st, qu, ru, Append(P, e))
<1> DEFINE Q == Append(P, e)
<1>2. /\ Q \in Seq(PushMessage) /\ Len(P) \in Nat /\ Len(Q) = Len(P) + 1 /\ Q[Len(P) + 1] = e
      /\ \A i \in 1..Len(P) : Q[i] = P[i] /\ P[i] \in PushMessage
  BY AppendFacts
<1>3. \A n : Pending(Q, n) = Pending(P, n)
  BY PendingAppend
<1>4. \A n : Chunks(Q, n) = Chunks(P, n)
  BY <1>2 DEF Chunks
<1> HIDE DEF Q
<1>7. Wire(st, qu, ru, Q)
  <2>1. AllTruthful(st, qu, Q)
    BY <1>2 DEF Wire, AllTruthful
  <2>2. EndsFollow(ru, Q)
    BY <1>2 DEF Wire, EndsFollow
  <2>3. StartsFollow(st, ru, Q)
    BY <1>2 DEF Wire, StartsFollow
  <2>4. ChunksFollow(ru, Q)
    BY <1>2, <1>3, <1>4 DEF Wire, ChunksFollow, Starts
  <2>5. ListsGrow(st, Q)
    BY AppendKeepsLists DEF Wire, Q
  <2>6. EndsAreFinal(ru, Q)
    BY <1>2 DEF Wire, EndsAreFinal
  <2> QED  BY <2>1, <2>2, <2>3, <2>4, <2>5, <2>6 DEF Wire
<1>8. Screen(st, qu, ru, Q)
  <2>1. ListsReplace(st, Q)
    <3>1. e.kind = "messages" => messages \cap st[e.conv] \subseteq e.msgs  OBVIOUS
    <3> QED  BY <1>2, <3>1 DEF Screen, ListsReplace
  <2>2. NoGhost(ru, Q)  BY <1>2 DEF Screen, NoGhost
  <2>3. RevisionSeen(ru, Q)  BY <1>2 DEF Screen, RevisionSeen, Seen
  <2>4. TextFollows(ru, Q)  BY <1>3 DEF Screen, TextFollows
  <2> QED  BY <2>1, <2>2, <2>3, <2>4 DEF Screen
<1> QED  BY <1>7, <1>8 DEF Q

LEMMA PushOther ==
  ASSUME NEW st, NEW qu, NEW ru, NEW ow, NEW rq, NEW P, NEW e \in PushMessage,
         ScreenTypes, Inv(st, qu, ru, ow, rq, P),
         e.kind \notin {"start", "chunk"},
         Truthful(st, qu, e),
         e.kind = "runtime" /\ e.stream # 0 => ru[e.conv].stream = e.stream,
         \A c \in Conversations : ru[c].stream # 0 => ~Displaces(st, e, c, ru[c].stream),
         e.kind = "messages" => e.msgs = st[e.conv],
         e.kind = "end" => e.stream = 0,
         e.kind = "sent" => e.ok
  PROVE  Inv(st, qu, ru, ow, rq, Append(P, e))
<1> DEFINE Q == Append(P, e)
<1>1. Types(st, qu, ru, ow, rq, P) /\ P \in Seq(PushMessage)  BY DEF Inv, Types
<1>2. /\ Q \in Seq(PushMessage) /\ Len(P) \in Nat /\ Len(Q) = Len(P) + 1 /\ Q[Len(P) + 1] = e
      /\ \A i \in 1..Len(P) : Q[i] = P[i] /\ P[i] \in PushMessage
  BY <1>1, AppendFacts
<1>3. Wire(st, qu, ru, Q) /\ Screen(st, qu, ru, Q)
  BY <1>1, PushKeepsScreen DEF Inv
<1> HIDE DEF Q
<1>5. Types(st, qu, ru, ow, rq, Q)  BY <1>1, <1>2 DEF Types
<1>6. Places(st, qu, ru, ow, rq, Q)
  <2>1. \A k \in 1..Len(Q) : Q[k].kind = "sent" /\ ~Q[k].ok =>
          /\ Q[k].n <= sends
          /\ \A c \in Conversations : ~Home(st, Q[k].n, c)
          /\ \A i \in 1..Len(rq) : rq[i].kind = "send" => rq[i].n # Q[k].n
    BY <1>2 DEF Inv, Places
  <2> QED  BY <2>1 DEF Inv, Places
<1>9. Coming(st, ru, ow, rq, Q)
  <2>1. RunIsComing(ru, rq, Q)  BY <1>2 DEF Inv, Coming, RunIsComing, Seen
  <2>2. ListIsComing(st, ow, rq, Q)
    BY <1>1, AppendKeepsComing DEF Inv, Coming, Q
  <2> QED  BY <2>1, <2>2 DEF Coming
<1> QED  BY <1>3, <1>5, <1>6, <1>9 DEF Inv, Q

-----------------------------------------------------------------------------
(* The steps of the main process, seen from the wire and the screen.       *)

\* Numbers have one home, and none that has begun begins again.
OneHome(st) == \A c, d \in Conversations, n \in Numbers : Home(st, n, c) /\ Home(st, n, d) => c = d
NoLessBegun(st, qu, st2, qu2) ==
  \A c \in Conversations, n \in Numbers : Begun(st, qu, n, c) => Begun(st2, qu2, n, c)

LEMMA TruthfulStays ==
  ASSUME NEW st, NEW qu, NEW st2, NEW qu2, NEW p \in PushMessage,
         OneHome(st2), NoLessBegun(st, qu, st2, qu2),
         \A c \in Conversations : st[c] \subseteq st2[c],
         Truthful(st, qu, p)
  PROVE  /\ Truthful(st2, qu2, p)
         /\ p.kind = "end" /\ p.stream # 0 =>
              \A c \in Conversations : Home(st2, p.stream, c) => Home(st, p.stream, c)
<1>1. p.kind \in {"start", "waiting", "runtime"} /\ p.stream # 0 =>
        Begun(st2, qu2, p.stream, p.conv)
  BY PushFields DEF Truthful, NoLessBegun, Numbers
<1>2. p.kind = "runtime" /\ p.stream # 0 => p.revision \in {1, 2}
  BY DEF Truthful
<1>3. p.kind \in {"chunk", "end"} /\ p.stream # 0 =>
        \E c \in Conversations : Begun(st, qu, p.stream, c) /\ Begun(st2, qu2, p.stream, c)
  BY PushFields DEF Truthful, NoLessBegun, Numbers
<1>4. \A m \in Carried(p) : Kept(st2, m)
  BY DEF Truthful, Kept
<1>5. p.kind = "end" /\ p.stream # 0 =>
        \A c \in Conversations : Home(st2, p.stream, c) => Home(st, p.stream, c)
  BY <1>3, PushFields DEF Begun, OneHome, Numbers
<1>6. p.kind = "end" /\ p.stream # 0 =>
        \A c \in Conversations : Home(st2, p.stream, c) => p.msgs \subseteq st2[c]
  BY <1>5 DEF Truthful
<1>7. p.kind = "messages" => p.msgs \subseteq st2[p.conv]
  BY PushFields DEF Truthful
<1> QED  BY <1>1, <1>2, <1>3, <1>4, <1>5, <1>6, <1>7 DEF Truthful

\* Messages are stored that were not anywhere.
LEMMA Grow ==
  ASSUME NEW st, NEW qu, NEW ru, NEW P \in Seq(PushMessage), NEW st2, NEW qu2, ScreenTypes,
         OneHome(st2), NoLessBegun(st, qu, st2, qu2),
         \A c \in Conversations : st[c] \subseteq st2[c] /\ st2[c] \subseteq StoredMessages,
         \A c \in Conversations : \A m \in st2[c] : m \in st[c] \/ ~Kept(st, m),
         Wire(st, qu, ru, P), Screen(st, qu, ru, P)
  PROVE  Wire(st2, qu2, ru, P) /\ Screen(st2, qu2, ru, P)
<1>1. \A i \in 1..Len(P) : P[i] \in PushMessage  OBVIOUS
<1>2. \A i \in 1..Len(P) : /\ Truthful(st, qu, P[i]) /\ Truthful(st2, qu2, P[i])
                           /\ P[i].kind = "end" /\ P[i].stream # 0 =>
                                \A c \in Conversations : Home(st2, P[i].stream, c) => Home(st, P[i].stream, c)
  BY <1>1, TruthfulStays DEF Wire, AllTruthful
<1>3. AllTruthful(st2, qu2, P)  BY <1>2 DEF AllTruthful
<1>4. StartsFollow(st2, ru, P)
  BY <1>2 DEF Wire, StartsFollow, Displaces
<1>5. ListsGrow(st2, P)
  <2> SUFFICES ASSUME NEW i \in 1..Len(P), P[i].kind = "messages", NEW j \in 1..i-1,
                      NEW m \in Carried(P[j]), m \in st2[P[i].conv]
               PROVE  m \in P[i].msgs
    BY DEF ListsGrow
  <2>1. j \in 1..Len(P) /\ P[i].conv \in Conversations  BY <1>1, PushFields
  <2>2. Kept(st, m)  BY <1>2, <2>1 DEF Truthful
  <2>3. m \in st[P[i].conv]  BY <2>1, <2>2
  <2> QED  BY <2>3 DEF Wire, ListsGrow
<1>6. Known(st2, qu2)
  <2>1. \A n \in Numbers : streamConv[n] # None => Begun(st2, qu2, n, streamConv[n])
    BY DEF Screen, Known, NoLessBegun, ScreenTypes
  <2>2. \A n \in started : \E c \in Conversations : Begun(st2, qu2, n, c)
    BY DEF Screen, Known, NoLessBegun, ScreenTypes
  <2>3. \A m \in messages \cap StoredMessages : Kept(st2, m)
    BY DEF Screen, Known, Kept
  <2> QED  BY <2>1, <2>2, <2>3 DEF Screen, Known
<1>7. ListsReplace(st2, P)
  <2> SUFFICES ASSUME NEW i \in 1..Len(P), P[i].kind = "messages", NEW m \in messages, m \in st2[P[i].conv]
               PROVE  m \in P[i].msgs
    BY DEF ListsReplace
  <2>1. P[i].conv \in Conversations  BY <1>1, PushFields
  <2>2. Kept(st, m)  BY <2>1 DEF Screen, Known
  <2>3. m \in st[P[i].conv]  BY <2>1, <2>2
  <2> QED  BY <2>3 DEF Screen, ListsReplace
<1>8. StartedIsLive(st2)
  <2> SUFFICES ASSUME NEW n \in started, hydrated.conv # None, Home(st2, n, hydrated.conv)
               PROVE  hydrated.revision = LiveEvent
    BY DEF StartedIsLive
  <2>1. PICK c \in Conversations : Begun(st, qu, n, c) /\ Begun(st2, qu2, n, c)
    BY DEF Screen, Known, NoLessBegun, ScreenTypes
  <2>2. hydrated.conv = c  BY <2>1 DEF ScreenTypes, OneHome, Begun
  <2> QED  BY <2>1, <2>2 DEF Begun, Screen, StartedIsLive
<1> QED  BY <1>3, <1>4, <1>5, <1>6, <1>7, <1>8 DEF Wire, Screen

LEMMA GrowComing ==
  ASSUME NEW st, NEW ru, NEW ow, NEW rq, NEW P, NEW st2, ScreenTypes,
         \A c \in Conversations : st[c] \subseteq st2[c],
         Coming(st, ru, ow, rq, P)
  PROVE  Coming(st2, ru, ow, rq, P)
<1>1. \A n \in Numbers, c \in Conversations : OnItsWay(st, ow, rq, P, n, c) => OnItsWay(st2, ow, rq, P, n, c)
  BY DEF OnItsWay, Home
<1>2. active # None => active \in Conversations  BY DEF ScreenTypes
<1>3. \A m : active # None /\ Fits(st, ow, rq, P, m, active) => Fits(st2, ow, rq, P, m, active)
  BY <1>1, <1>2 DEF Fits
<1> QED  BY <1>3 DEF Coming, ListIsComing

\* An entry changes that keeps its stream.
LEMMA SameStreams ==
  ASSUME NEW st, NEW qu, NEW ru, NEW ow, NEW rq, NEW P, NEW qu2, NEW ru2,
         ScreenTypes, Inv(st, qu, ru, ow, rq, P),
         Types(st, qu2, ru2, ow, rq, P), Places(st, qu2, ru2, ow, rq, P),
         NoLessBegun(st, qu, st, qu2),
         \A c \in Conversations : ru2[c].stream = ru[c].stream /\ (ru[c].stream # 0 => ru2[c].chunks = ru[c].chunks)
  PROVE  Inv(st, qu2, ru2, ow, rq, P)
<1>1. P \in Seq(PushMessage) /\ \A i \in 1..Len(P) : P[i] \in PushMessage
  BY DEF Inv, Types
<1>2. Wire(st, qu2, ru, P) /\ Screen(st, qu2, ru, P)
  <2>1. OneHome(st)  BY DEF Places, OneHome
  <2>2. \A c \in Conversations : st[c] \subseteq StoredMessages  BY DEF Types
  <2> QED  BY <1>1, <2>1, <2>2, Grow DEF Inv
<1>3. Wire(st, qu2, ru2, P)
  <2>1. EndsFollow(ru2, P)  BY <1>1, <1>2, PushFields DEF Wire, EndsFollow
  <2>2. StartsFollow(st, ru2, P)  BY <1>2 DEF Wire, StartsFollow
  <2>3. ChunksFollow(ru2, P)  BY <1>2 DEF Wire, ChunksFollow
  <2>4. EndsAreFinal(ru2, P)  BY <1>2 DEF Wire, EndsAreFinal
  <2> QED  BY <1>2, <2>1, <2>2, <2>3, <2>4 DEF Wire
<1>4. Screen(st, qu2, ru2, P)
  <2>1. NoGhost(ru2, P)  BY <1>2 DEF Screen, NoGhost
  <2>2. RevisionSeen(ru2, P)  BY <1>2 DEF Screen, RevisionSeen, Seen, ScreenTypes
  <2>3. TextFollows(ru2, P)  BY <1>2 DEF Screen, TextFollows
  <2> QED  BY <1>2, <2>1, <2>2, <2>3 DEF Screen
<1>5. Coming(st, ru2, ow, rq, P)
  BY DEF Inv, Coming, RunIsComing, Seen, ScreenTypes
<1> QED  BY <1>3, <1>4, <1>5 DEF Inv

\* The run of c ends, and the event of its end is sent.
LEMMA EndRun ==
  ASSUME NEW st, NEW qu, NEW ru, NEW ow, NEW rq, NEW P \in Seq(PushMessage), ScreenTypes,
         OneHome(st), Wire(st, qu, ru, P), Screen(st, qu, ru, P), Coming(st, ru, ow, rq, P),
         ru \in [Conversations -> RunEntry],
         NEW c \in Conversations, ru[c].stream # 0, Begun(st, qu, ru[c].stream, c),
         \A d \in Conversations : ru[d].stream # 0 => Begun(st, qu, ru[d].stream, d),
         NEW msg \in SUBSET StoredMessages, msg \subseteq st[c]
  PROVE  LET ru2 == [ru EXCEPT ![c] = NoRun]
             Q == Append(P, EndEvent(ru[c].stream, msg))
         IN /\ Q \in Seq(PushMessage)
            /\ Wire(st, qu, ru2, Q) /\ Screen(st, qu, ru2, Q) /\ Coming(st, ru2, ow, rq, Q)
<1> DEFINE n == ru[c].stream
           e == EndEvent(n, msg)
           ru2 == [ru EXCEPT ![c] = NoRun]
           Q == Append(P, e)
<1>0. n \in Numbers /\ n # 0  BY DEF RunEntry, Numbers
<1>1. /\ e \in PushMessage /\ e.kind = "end" /\ e.stream = n /\ e.msgs = msg
  BY DEF RunEntry, PushMessage, EndEvent
<1>2. /\ Q \in Seq(PushMessage) /\ Len(P) \in Nat /\ Len(Q) = Len(P) + 1 /\ Q[Len(P) + 1] = e
      /\ \A i \in 1..Len(P) : Q[i] = P[i] /\ P[i] \in PushMessage
  BY <1>1, AppendFacts
<1>3. /\ \A m : Pending(Q, m) = Pending(P, m)
      /\ \A m : Chunks(Q, m) = Chunks(P, m)
  BY <1>1, <1>2, PendingAppend DEF Chunks
<1>4. /\ ru2[c].stream = 0
      /\ \A d \in Conversations : d # c => ru2[d] = ru[d]
  BY DEF NoRun
<1>8. \A d \in Conversations : ru2[d].stream # 0 =>
        ru[d].stream # 0 /\ (Seen(ru, P, d) => Seen(ru2, Q, d))
  BY <1>1, <1>4, AppendKeepsSeen
<1>9. \A d \in Conversations : d # c /\ ru[d].stream # 0 => ru[d].stream # n
  BY <1>0 DEF OneHome, Begun
<1> HIDE DEF Q, ru2, e, n
<1>5. Wire(st, qu, ru2, Q)
  <2>1. Truthful(st, qu, e)
    BY <1>0, <1>1 DEF Truthful, Carried, Kept, Begun, OneHome, n
  <2>2. AllTruthful(st, qu, Q)
    BY <1>2, <2>1 DEF Wire, AllTruthful
  <2>3. EndsFollow(ru2, Q)
    <3> SUFFICES ASSUME NEW i \in 1..Len(Q), Q[i].kind \in {"start", "runtime"}, Q[i].stream # 0,
                        ru2[Q[i].conv].stream # Q[i].stream
                 PROVE  \E j \in i+1..Len(Q) : Ends(Q[j], Q[i].stream)
      BY DEF EndsFollow
    <3>1. i \in 1..Len(P) /\ Q[i] = P[i] /\ P[i].conv \in Conversations  BY <1>1, <1>2, PushFields
    <3>2. CASE ru[P[i].conv].stream = P[i].stream
      <4>1. P[i].conv = c /\ P[i].stream = n  BY <1>4, <3>1, <3>2 DEF n
      <4>2. Ends(Q[Len(P) + 1], Q[i].stream) /\ Len(P) + 1 \in i+1..Len(Q)  BY <1>1, <1>2, <3>1, <4>1 DEF Ends
      <4> QED  BY <4>2
    <3>3. CASE ru[P[i].conv].stream # P[i].stream
      <4>1. PICK j \in i+1..Len(P) : Ends(P[j], P[i].stream)  BY <3>1, <3>3 DEF Wire, EndsFollow
      <4>2. j \in i+1..Len(Q) /\ Q[j] = P[j]  BY <1>2
      <4> QED  BY <3>1, <4>1, <4>2
    <3> QED  BY <3>2, <3>3
  <2>4. StartsFollow(st, ru2, Q)
    <3> SUFFICES ASSUME NEW d \in Conversations, NEW i \in 1..Len(Q), ru2[d].stream # 0,
                        Displaces(st, Q[i], d, ru2[d].stream)
                 PROVE  \E j \in i+1..Len(Q) : Starts(Q[j], d, ru2[d].stream)
      BY DEF StartsFollow
    <3>1. d # c /\ ru2[d] = ru[d]  BY <1>4
    <3>2. ~Displaces(st, e, d, ru[d].stream)
      BY <1>0, <1>1, <3>1 DEF Displaces, OneHome, Begun, n
    <3>3. i \in 1..Len(P) /\ Q[i] = P[i]  BY <1>2, <3>1, <3>2
    <3>4. PICK j \in i+1..Len(P) : Starts(P[j], d, ru[d].stream)  BY <3>1, <3>3 DEF Wire, StartsFollow
    <3>5. j \in i+1..Len(Q) /\ Q[j] = P[j]  BY <1>2
    <3> QED  BY <3>1, <3>4, <3>5
  <2>5. ChunksFollow(ru2, Q)
    BY <1>1, <1>2, <1>3, <1>4 DEF Wire, ChunksFollow, Starts
  <2>6. ListsGrow(st, Q)
    BY <1>1, AppendKeepsLists DEF Wire, Q
  <2>7. EndsAreFinal(ru2, Q)
    BY <1>1, <1>2, <1>4, <1>9 DEF Wire, EndsAreFinal
  <2> QED  BY <2>2, <2>3, <2>4, <2>5, <2>6, <2>7 DEF Wire
<1>6. Screen(st, qu, ru2, Q)
  <2>1. ListsReplace(st, Q)  BY <1>1, <1>2 DEF Screen, ListsReplace
  <2>2. NoGhost(ru2, Q)
    <3> SUFFICES ASSUME NEW d \in Conversations, streaming[d].stream # 0, ru2[d].stream # streaming[d].stream
                 PROVE  \E i \in 1..Len(Q) : Ends(Q[i], streaming[d].stream)
      BY DEF NoGhost
    <3>1. CASE ru[d].stream = streaming[d].stream
      <4>1. streaming[d].stream = n  BY <1>4, <3>1 DEF n
      <4> QED  BY <1>1, <1>2, <4>1 DEF Ends
    <3>2. CASE ru[d].stream # streaming[d].stream
      BY <1>2, <3>2 DEF Screen, NoGhost
    <3> QED  BY <3>1, <3>2
  <2>3. RevisionSeen(ru2, Q)
    BY <1>8 DEF Screen, RevisionSeen, ScreenTypes
  <2>4. TextFollows(ru2, Q)
    BY <1>3, <1>4 DEF Screen, TextFollows
  <2> QED  BY <2>1, <2>2, <2>3, <2>4 DEF Screen
<1>7. Coming(st, ru2, ow, rq, Q)
  <2>1. RunIsComing(ru2, rq, Q)
    <3>1. SUFFICES ASSUME active # None, ru2[active].stream # 0, ~Seen(ru2, Q, active)
                   PROVE  RunIsComing(ru2, rq, Q)
      BY DEF RunIsComing
    <3>2. active \in Conversations /\ ru2[active] = ru[active] /\ ru[active].stream # 0 /\ ~Seen(ru, P, active)
      BY <1>4, <1>8, <3>1 DEF ScreenTypes
    <3> QED  BY <1>2, <3>1, <3>2 DEF Coming, RunIsComing
  <2>2. ListIsComing(st, ow, rq, Q)
    BY <1>0, <1>1, AppendKeepsComing DEF Inv, Coming, Q
  <2> QED  BY <2>1, <2>2 DEF Coming
<1> QED  BY <1>2, <1>5, <1>6, <1>7 DEF Q, ru2, e, n

\* The run of n starts in c, which no push has told of yet.
LEMMA StartRun ==
  ASSUME NEW st, NEW qu, NEW ru, NEW ow, NEW rq, NEW P, ScreenTypes, Inv(st, qu, ru, ow, rq, P),
         NEW c \in Conversations, ru[c] = NoRun, NEW n \in qu[c]
  PROVE  Inv(st, [qu EXCEPT ![c] = qu[c] \ {n}], [ru EXCEPT ![c] = NewRun(n)], ow, rq,
             Append(P, StartEvent(c, n)))
<1> DEFINE e == StartEvent(c, n)
           ru2 == [ru EXCEPT ![c] = NewRun(n)]
           qu2 == [qu EXCEPT ![c] = qu[c] \ {n}]
           Q == Append(P, e)
<1>0. /\ Types(st, qu, ru, ow, rq, P) /\ P \in Seq(PushMessage)
      /\ n \in Numbers /\ n # 0 /\ n \in 0..MaxSends
  BY DEF Inv, Types, Numbers
<1>1. /\ e \in PushMessage /\ e.kind = "start" /\ e.conv = c /\ e.stream = n /\ Carried(e) = {}
  BY <1>0 DEF PushMessage, StartEvent, Carried
<1>2. /\ Q \in Seq(PushMessage) /\ Len(P) \in Nat /\ Len(Q) = Len(P) + 1 /\ Q[Len(P) + 1] = e
      /\ \A i \in 1..Len(P) : Q[i] = P[i] /\ P[i] \in PushMessage
  BY <1>0, <1>1, AppendFacts
<1>3. /\ \A m : Pending(Q, m) = Pending(P, m)
      /\ \A m : Chunks(Q, m) = Chunks(P, m)
  BY <1>0, <1>1, <1>2, PendingAppend DEF Chunks
<1>4. /\ ru2[c].stream = n /\ ru2[c].chunks = 0 /\ ru2[c].task = 0 /\ ru2[c].revision = 1
      /\ ru2[c] \in RunEntry /\ ru[c].stream = 0
      /\ \A d \in Conversations : d # c => ru2[d] = ru[d]
  <2>1. NewRun(n) \in RunEntry /\ NewRun(n).stream = n /\ NewRun(n).chunks = 0
          /\ NewRun(n).task = 0 /\ NewRun(n).revision = 1
    BY <1>0, EntryFields
  <2>2. ru \in [Conversations -> RunEntry]  BY <1>0 DEF Types
  <2> QED  BY <2>1, <2>2 DEF NoRun
<1>5. /\ qu2 \in [Conversations -> SUBSET Numbers]
      /\ \A d \in Conversations : qu2[d] \subseteq qu[d]
      /\ n \notin qu2[c]
  BY <1>0 DEF Types
<1>t. Types(st, qu2, ru2, ow, rq, Q)  BY <1>0, <1>2, <1>4, <1>5 DEF Types
<1>6. NoLessBegun(st, qu, st, qu2)  BY <1>5 DEF NoLessBegun, Begun
<1>7. Home(st, n, c) /\ OneHome(st) /\ \A d \in Conversations : ~Begun(st, qu, n, d)
  BY <1>0 DEF Inv, Places, OneHome, Begun
<1>8. \A i \in 1..Len(P) : P[i].kind \in {"start", "waiting", "runtime", "chunk", "end"} => P[i].stream # n
  BY <1>0, <1>2, <1>7, PushFields DEF Inv, Wire, AllTruthful, Truthful
<1>9. Chunks(Q, n) = {} /\ Pending(Q, n) = 0
  <2>1. Chunks(Q, n) = {}  BY <1>3, <1>8 DEF Chunks
  <2> QED  BY <2>1, FS_EmptySet DEF Pending
<1>10. Wire(st, qu2, ru, P) /\ Screen(st, qu2, ru, P)
  <2>1. \A d \in Conversations : st[d] \subseteq StoredMessages  BY <1>0 DEF Types
  <2> QED  BY <1>0, <1>6, <1>7, <2>1, Grow DEF Inv
<1>15. \A d \in Conversations : ru2[d].stream # 0 =>
         Seen(ru2, Q, d) \/ (d # c /\ ru[d].stream # 0 /\ ~Seen(ru, P, d))
  <2>1. Seen(ru2, Q, c)  BY <1>1, <1>2, <1>4 DEF Seen, Starts
  <2>2. \A d \in Conversations : d # c /\ Seen(ru, P, d) => Seen(ru2, Q, d)
    BY <1>0, <1>1, <1>4, AppendKeepsSeen
  <2> QED  BY <1>4, <2>1, <2>2
<1> HIDE DEF Q, ru2, qu2, e
<1>11. Places(st, qu2, ru2, ow, rq, Q)
  <2>1. \A d \in Conversations : \A m \in qu2[d] : Home(st, m, d)
    BY <1>5 DEF Inv, Places
  <2>2. \A d \in Conversations :
          /\ ru2[d].stream # 0 => /\ Begun(st, qu2, ru2[d].stream, d)
                                  /\ ru2[d].task = 0 /\ ru2[d].revision \in {1, 2}
          /\ ru2[d].task # 0 => Begun(st, qu2, ru2[d].task, d)
    <3> TAKE d \in Conversations
    <3>1. CASE d = c  BY <1>4, <1>5, <1>7, <3>1 DEF Begun
    <3>2. CASE d # c
      <4>1. ru2[d] = ru[d] /\ ru[d].stream \in 0..MaxSends /\ ru[d].task \in 0..MaxSends
        BY <1>0, <1>4, <3>2 DEF Types, RunEntry
      <4> QED  BY <1>6, <4>1 DEF Inv, Places, NoLessBegun, Numbers
    <3> QED  BY <3>1, <3>2
  <2>3. \A d \in Conversations, m \in Numbers :
          Answer(m) \in st[d] \/ Failure(m) \in st[d] =>
            Begun(st, qu2, m, d) /\ ru2[d].stream # m /\ ru2[d].task # m
    <3> TAKE d \in Conversations, m \in Numbers
    <3> HAVE Answer(m) \in st[d] \/ Failure(m) \in st[d]
    <3>1. Begun(st, qu, m, d) /\ ru[d].stream # m /\ ru[d].task # m  BY DEF Inv, Places
    <3>2. Begun(st, qu2, m, d) /\ (d = c => m # n)  BY <1>6, <1>7, <3>1 DEF NoLessBegun
    <3> QED  BY <1>4, <3>1, <3>2 DEF Numbers
  <2>4. \A k \in 1..Len(Q) : Q[k].kind = "sent" /\ ~Q[k].ok =>
          /\ Q[k].n <= sends
          /\ \A d \in Conversations : ~Home(st, Q[k].n, d)
          /\ \A i \in 1..Len(rq) : rq[i].kind = "send" => rq[i].n # Q[k].n
    BY <1>1, <1>2 DEF Inv, Places
  <2> QED  BY <2>1, <2>2, <2>3, <2>4 DEF Inv, Places
<1>12. Wire(st, qu2, ru2, Q)
  <2>1. Truthful(st, qu2, e)
    BY <1>0, <1>1, <1>5, <1>7 DEF Truthful, Begun
  <2>2. AllTruthful(st, qu2, Q)
    BY <1>2, <1>10, <2>1 DEF Wire, AllTruthful
  <2>3. EndsFollow(ru2, Q)
    <3> SUFFICES ASSUME NEW i \in 1..Len(Q), Q[i].kind \in {"start", "runtime"}, Q[i].stream # 0,
                        ru2[Q[i].conv].stream # Q[i].stream
                 PROVE  \E j \in i+1..Len(Q) : Ends(Q[j], Q[i].stream)
      BY DEF EndsFollow
    <3>1. i \in 1..Len(P) /\ Q[i] = P[i] /\ P[i].conv \in Conversations  BY <1>1, <1>2, <1>4, PushFields
    <3>2. ru[P[i].conv].stream # P[i].stream  BY <1>4, <3>1
    <3>3. PICK j \in i+1..Len(P) : Ends(P[j], P[i].stream)  BY <3>1, <3>2 DEF Inv, Wire, EndsFollow
    <3>4. j \in i+1..Len(Q) /\ Q[j] = P[j]  BY <1>2
    <3> QED  BY <3>1, <3>3, <3>4
  <2>4. StartsFollow(st, ru2, Q)
    <3> SUFFICES ASSUME NEW d \in Conversations, NEW i \in 1..Len(Q), ru2[d].stream # 0,
                        Displaces(st, Q[i], d, ru2[d].stream)
                 PROVE  \E j \in i+1..Len(Q) : Starts(Q[j], d, ru2[d].stream)
      BY DEF StartsFollow
    <3>1. ~Displaces(st, e, d, ru2[d].stream)
      BY <1>1, <1>4 DEF Displaces
    <3>2. i \in 1..Len(P) /\ Q[i] = P[i]  BY <1>2, <3>1
    <3>3. CASE d = c
      <4>1. Starts(Q[Len(P) + 1], c, n) /\ Len(P) + 1 \in i+1..Len(Q)  BY <1>1, <1>2, <3>2 DEF Starts
      <4> QED  BY <1>4, <3>3, <4>1
    <3>4. CASE d # c
      <4>1. PICK j \in i+1..Len(P) : Starts(P[j], d, ru[d].stream)
        BY <1>4, <3>2, <3>4 DEF Inv, Wire, StartsFollow
      <4>2. j \in i+1..Len(Q) /\ Q[j] = P[j]  BY <1>2
      <4> QED  BY <1>4, <3>4, <4>1, <4>2
    <3> QED  BY <3>3, <3>4
  <2>5. ChunksFollow(ru2, Q)
    <3> SUFFICES ASSUME NEW d \in Conversations, NEW i \in 1..Len(Q), ru2[d].stream # 0,
                        Starts(Q[i], d, ru2[d].stream)
                 PROVE  /\ Pending(Q, ru2[d].stream) = ru2[d].chunks
                        /\ \A j \in Chunks(Q, ru2[d].stream) : i < j
      BY DEF ChunksFollow
    <3>1. CASE d = c  BY <1>4, <1>9, <3>1
    <3>2. CASE d # c
      <4>1. i \in 1..Len(P) /\ Q[i] = P[i]  BY <1>1, <1>2, <3>2 DEF Starts
      <4> QED  BY <1>3, <1>4, <3>2, <4>1 DEF Inv, Wire, ChunksFollow
    <3> QED  BY <3>1, <3>2
  <2>6. ListsGrow(st, Q)
    BY <1>0, <1>1, AppendKeepsLists DEF Inv, Wire, Q
  <2>7. EndsAreFinal(ru2, Q)
    BY <1>1, <1>2, <1>4, <1>8 DEF Inv, Wire, EndsAreFinal
  <2> QED  BY <2>2, <2>3, <2>4, <2>5, <2>6, <2>7 DEF Wire
<1>13. Screen(st, qu2, ru2, Q)
  <2>1. ListsReplace(st, Q)  BY <1>1, <1>2, <1>10 DEF Screen, ListsReplace
  <2>2. NoGhost(ru2, Q)
    BY <1>2, <1>4, <1>10 DEF Screen, NoGhost
  <2>3. RevisionSeen(ru2, Q)
    BY <1>10, <1>15 DEF Screen, RevisionSeen, ScreenTypes
  <2>4. TextFollows(ru2, Q)
    <3>1. n \notin started  BY <1>0, <1>7 DEF Inv, Screen, Known
    <3> QED  BY <1>3, <1>4, <1>10, <3>1 DEF Screen, TextFollows
  <2> QED  BY <1>10, <2>1, <2>2, <2>3, <2>4 DEF Screen
<1>14. Coming(st, ru2, ow, rq, Q)
  <2>1. RunIsComing(ru2, rq, Q)
    <3>1. SUFFICES ASSUME active # None, ru2[active].stream # 0, ~Seen(ru2, Q, active)
                   PROVE  RunIsComing(ru2, rq, Q)
      BY DEF RunIsComing
    <3>2. active \in Conversations /\ ru2[active] = ru[active] /\ ru[active].stream # 0 /\ ~Seen(ru, P, active)
      BY <1>4, <1>15, <3>1 DEF ScreenTypes
    <3> QED  BY <1>2, <3>1, <3>2 DEF Inv, Coming, RunIsComing
  <2>2. ListIsComing(st, ow, rq, Q)
    BY <1>0, <1>1, AppendKeepsComing DEF Inv, Coming, Q
  <2> QED  BY <2>1, <2>2 DEF Coming
<1> QED  BY <1>t, <1>11, <1>12, <1>13, <1>14 DEF Inv, Q, ru2, qu2, e

\* The run of c sends a chunk.
LEMMA ChunkRun ==
  ASSUME NEW st, NEW qu, NEW ru, NEW ow, NEW rq, NEW P, ScreenTypes, Inv(st, qu, ru, ow, rq, P),
         NEW c \in Conversations, ru[c].stream # 0, ru[c].chunks < MaxChunks
  PROVE  Inv(st, qu, [ru EXCEPT ![c].chunks = @ + 1], ow, rq, Append(P, ChunkEvent(ru[c].stream)))
<1> DEFINE n == ru[c].stream
           e == ChunkEvent(n)
           ru2 == [ru EXCEPT ![c].chunks = @ + 1]
           Q == Append(P, e)
<1>0. /\ Types(st, qu, ru, ow, rq, P) /\ P \in Seq(PushMessage)
      /\ ru \in [Conversations -> RunEntry] /\ MaxChunks \in Nat
      /\ n \in Numbers /\ n # 0
  BY BoundsAreNumbers DEF Inv, Types, Numbers, RunEntry
<1>1. /\ e \in PushMessage /\ e.kind = "chunk" /\ e.stream = n /\ Carried(e) = {}
  BY <1>0 DEF PushMessage, ChunkEvent, Carried
<1>2. /\ Q \in Seq(PushMessage) /\ Len(P) \in Nat /\ Len(Q) = Len(P) + 1 /\ Q[Len(P) + 1] = e
      /\ \A i \in 1..Len(P) : Q[i] = P[i] /\ P[i] \in PushMessage
  BY <1>0, <1>1, AppendFacts
<1>3. /\ \A m : m # n => Pending(Q, m) = Pending(P, m) /\ Chunks(Q, m) = Chunks(P, m)
      /\ Pending(Q, n) = Pending(P, n) + 1 /\ Pending(P, n) \in Nat
      /\ Chunks(Q, n) = Chunks(P, n) \union {Len(P) + 1}
  <2>1. /\ \A m : m # n => Chunks(Q, m) = Chunks(P, m)
        /\ Chunks(Q, n) = Chunks(P, n) \union {Len(P) + 1}
    BY <1>1, <1>2 DEF Chunks
  <2>2. \A m : Pending(Q, m) = IF m = n THEN Pending(P, m) + 1 ELSE Pending(P, m)
    BY <1>0, <1>1, PendingAppend
  <2>3. Pending(P, n) \in Nat  BY <1>0, ChunksAreFinite
  <2> QED  BY <2>1, <2>2, <2>3
<1>4. /\ ru2 \in [Conversations -> RunEntry]
      /\ \A d \in Conversations :
           /\ ru2[d].stream = ru[d].stream /\ ru2[d].task = ru[d].task /\ ru2[d].revision = ru[d].revision
           /\ d # c => ru2[d] = ru[d]
      /\ ru2[c].chunks = ru[c].chunks + 1 /\ ru[c].chunks \in Nat
  <2>1. ru[c] \in RunEntry /\ ru[c].chunks + 1 \in 0..MaxChunks  BY <1>0 DEF RunEntry
  <2>2. [ru[c] EXCEPT !.chunks = @ + 1] \in RunEntry  BY <2>1 DEF RunEntry
  <2> QED  BY <1>0, <2>1, <2>2 DEF RunEntry
<1>5. Begun(st, qu, n, c) /\ \A d \in Conversations : d # c => ru[d].stream # n
  <2>1. \A d \in Conversations : ru[d].stream # 0 => Begun(st, qu, ru[d].stream, d)  BY DEF Inv, Places
  <2>2. \A d \in Conversations : Home(st, n, d) => d = c  BY <1>0, <2>1 DEF Inv, Places, Begun
  <2> QED  BY <1>0, <2>1, <2>2 DEF Begun
<1> HIDE DEF Q, ru2, e, n
<1>6. Types(st, qu, ru2, ow, rq, Q)  BY <1>0, <1>2, <1>4 DEF Types
<1>7. Places(st, qu, ru2, ow, rq, Q)
  <2>1. \A k \in 1..Len(Q) : Q[k].kind = "sent" /\ ~Q[k].ok =>
          /\ Q[k].n <= sends
          /\ \A d \in Conversations : ~Home(st, Q[k].n, d)
          /\ \A i \in 1..Len(rq) : rq[i].kind = "send" => rq[i].n # Q[k].n
    BY <1>1, <1>2 DEF Inv, Places
  <2> QED  BY <1>4, <2>1 DEF Inv, Places
<1>8. Wire(st, qu, ru2, Q)
  <2>1. Truthful(st, qu, e)  BY <1>0, <1>1, <1>5 DEF Truthful
  <2>2. AllTruthful(st, qu, Q)  BY <1>2, <2>1 DEF Inv, Wire, AllTruthful
  <2>3. EndsFollow(ru2, Q)
    <3> SUFFICES ASSUME NEW i \in 1..Len(Q), Q[i].kind \in {"start", "runtime"}, Q[i].stream # 0,
                        ru2[Q[i].conv].stream # Q[i].stream
                 PROVE  \E j \in i+1..Len(Q) : Ends(Q[j], Q[i].stream)
      BY DEF EndsFollow
    <3>1. i \in 1..Len(P) /\ Q[i] = P[i] /\ P[i].conv \in Conversations  BY <1>1, <1>2, PushFields
    <3>2. ru[P[i].conv].stream # P[i].stream  BY <1>4, <3>1
    <3>3. PICK j \in i+1..Len(P) : Ends(P[j], P[i].stream)  BY <3>1, <3>2 DEF Inv, Wire, EndsFollow
    <3>4. j \in i+1..Len(Q) /\ Q[j] = P[j]  BY <1>2
    <3> QED  BY <3>1, <3>3, <3>4
  <2>4. StartsFollow(st, ru2, Q)
    <3> SUFFICES ASSUME NEW d \in Conversations, NEW i \in 1..Len(Q), ru2[d].stream # 0,
                        Displaces(st, Q[i], d, ru2[d].stream)
                 PROVE  \E j \in i+1..Len(Q) : Starts(Q[j], d, ru2[d].stream)
      BY DEF StartsFollow
    <3>1. i \in 1..Len(P) /\ Q[i] = P[i]  BY <1>1, <1>2 DEF Displaces
    <3>2. PICK j \in i+1..Len(P) : Starts(P[j], d, ru[d].stream)
      BY <1>4, <3>1 DEF Inv, Wire, StartsFollow
    <3>3. j \in i+1..Len(Q) /\ Q[j] = P[j]  BY <1>2
    <3> QED  BY <1>4, <3>2, <3>3
  <2>5. ChunksFollow(ru2, Q)
    <3> SUFFICES ASSUME NEW d \in Conversations, NEW i \in 1..Len(Q), ru2[d].stream # 0,
                        Starts(Q[i], d, ru2[d].stream)
                 PROVE  /\ Pending(Q, ru2[d].stream) = ru2[d].chunks
                        /\ \A j \in Chunks(Q, ru2[d].stream) : i < j
      BY DEF ChunksFollow
    <3>1. i \in 1..Len(P) /\ Q[i] = P[i]  BY <1>1, <1>2 DEF Starts
    <3>2. /\ Pending(P, ru[d].stream) = ru[d].chunks
          /\ \A j \in Chunks(P, ru[d].stream) : i < j
      BY <1>4, <3>1 DEF Inv, Wire, ChunksFollow
    <3>3. CASE d = c  BY <1>2, <1>3, <1>4, <3>1, <3>2, <3>3 DEF n
    <3>4. CASE d # c  BY <1>3, <1>4, <1>5, <3>2, <3>4
    <3> QED  BY <3>3, <3>4
  <2>6. ListsGrow(st, Q)  BY <1>0, <1>1, AppendKeepsLists DEF Inv, Wire, Q
  <2>7. EndsAreFinal(ru2, Q)  BY <1>1, <1>2, <1>4 DEF Inv, Wire, EndsAreFinal
  <2> QED  BY <2>2, <2>3, <2>4, <2>5, <2>6, <2>7 DEF Wire
<1>9. \A d \in Conversations : Seen(ru, P, d) => Seen(ru2, Q, d)
  BY <1>0, <1>1, <1>4, AppendKeepsSeen DEF Q
<1>10. Screen(st, qu, ru2, Q)
  <2>1. ListsReplace(st, Q)  BY <1>1, <1>2 DEF Inv, Screen, ListsReplace
  <2>2. NoGhost(ru2, Q)  BY <1>2, <1>4 DEF Inv, Screen, NoGhost
  <2>3. RevisionSeen(ru2, Q)  BY <1>4, <1>9 DEF Inv, Screen, RevisionSeen, ScreenTypes
  <2>4. TextFollows(ru2, Q)
    <3> SUFFICES ASSUME NEW d \in Conversations, ru2[d].stream # 0, streaming[d].stream = ru2[d].stream,
                        ru2[d].stream \in started
                 PROVE  streaming[d].text = ru2[d].chunks - Pending(Q, ru2[d].stream)
      BY DEF TextFollows
    <3>1. streaming[d].text = ru[d].chunks - Pending(P, ru[d].stream)  BY <1>4 DEF Inv, Screen, TextFollows
    <3>2. CASE d = c
      <4>1. streaming[d].text = ru[c].chunks - Pending(P, n)  BY <3>1, <3>2 DEF n
      <4>2. ru2[d].chunks = ru[c].chunks + 1 /\ Pending(Q, ru2[d].stream) = Pending(P, n) + 1
        BY <1>3, <1>4, <3>2 DEF n
      <4> QED  BY <1>3, <1>4, <4>1, <4>2
    <3>3. CASE d # c  BY <1>3, <1>4, <1>5, <3>1, <3>3
    <3> QED  BY <3>2, <3>3
  <2> QED  BY <2>1, <2>2, <2>3, <2>4 DEF Inv, Screen
<1>11. Coming(st, ru2, ow, rq, Q)
  <2>1. RunIsComing(ru2, rq, Q)
    <3>1. SUFFICES ASSUME active # None, ru2[active].stream # 0, ~Seen(ru2, Q, active)
                   PROVE  RunIsComing(ru2, rq, Q)
      BY DEF RunIsComing
    <3>2. /\ active \in Conversations /\ ru2[active].stream = ru[active].stream
          /\ ru[active].stream # 0 /\ ~Seen(ru, P, active)
      BY <1>4, <1>9, <3>1 DEF ScreenTypes
    <3> QED  BY <1>2, <3>1, <3>2 DEF Inv, Coming, RunIsComing
  <2>2. ListIsComing(st, ow, rq, Q)
    BY <1>0, <1>1, AppendKeepsComing DEF Inv, Coming, Q
  <2> QED  BY <2>1, <2>2 DEF Coming
<1> QED  BY <1>6, <1>7, <1>8, <1>10, <1>11 DEF Inv, Q, ru2, e, n

-----------------------------------------------------------------------------
(* What the main process does with the queue.                              *)

LEMMA LeastNumber ==
  ASSUME NEW S \in SUBSET Nat, S # {}
  PROVE  \E n \in S : \A m \in S : n <= m
<1>1. PICK n \in S : \A m \in S : <<m, n>> \notin OpToRel(<, Nat)
  BY NatLessThanWellFounded, WFMin
<1>2. \A m \in S : ~ (m < n)
  BY <1>1 DEF OpToRel
<1> QED  BY <1>2

LEMMA MinIsIn ==
  ASSUME NEW q \in SUBSET Numbers, q # {}
  PROVE  Min(q) \in q
<1>1. q \subseteq Nat  BY DEF Numbers
<1>2. \E x \in q : \A y \in q : x <= y  BY <1>1, LeastNumber
<1> QED  BY <1>2 DEF Min

\* The outcome of n is stored in its conversation.
LEMMA OutcomePlaces ==
  ASSUME NEW st, NEW qu, NEW ru, NEW ow, NEW rq, NEW P,
         st \in [Conversations -> SUBSET StoredMessages], Places(st, qu, ru, ow, rq, P),
         NEW c \in Conversations, NEW n \in Numbers, Begun(st, qu, n, c),
         ru[c].stream # n, ru[c].task # n,
         NEW msg \in SUBSET {Answer(n), Failure(n)}
  PROVE  LET st2 == [st EXCEPT ![c] = st[c] \union msg]
         IN /\ st2 \in [Conversations -> SUBSET StoredMessages]
            /\ \A d \in Conversations, m \in Numbers : Home(st2, m, d) <=> Home(st, m, d)
            /\ Places(st2, qu, ru, ow, rq, P)
<1> DEFINE st2 == [st EXCEPT ![c] = st[c] \union msg]
<1>1. msg \subseteq StoredMessages  BY DEF StoredMessages
<1>2. st2 \in [Conversations -> SUBSET StoredMessages]  BY <1>1
<1>3. \A m : User(m) \notin msg  BY DEF User, Answer, Failure
<1>4. \A d \in Conversations : \A m : Home(st2, m, d) <=> Home(st, m, d)
  BY <1>3 DEF Home
<1>5. \A d \in Conversations : \A m : Begun(st2, qu, m, d) <=> Begun(st, qu, m, d)
  BY <1>4 DEF Begun
<1>6. \A d \in Conversations, m \in Numbers : Answer(m) \in st2[d] \/ Failure(m) \in st2[d] =>
        (Answer(m) \in st[d] \/ Failure(m) \in st[d]) \/ (d = c /\ m = n)
  BY DEF Answer, Failure
<1>7. \A d \in Conversations, m \in Numbers : Answer(m) \in st2[d] \/ Failure(m) \in st2[d] =>
        Begun(st2, qu, m, d) /\ ru[d].stream # m /\ ru[d].task # m
  BY <1>5, <1>6 DEF Places
<1> HIDE DEF st2
<1>8. Places(st2, qu, ru, ow, rq, P)
  <2>1. \A d \in Conversations : \A m \in qu[d] : Home(st2, m, d)  BY <1>4 DEF Places
  <2>2. \A d \in Conversations :
          /\ ru[d].stream # 0 => /\ Begun(st2, qu, ru[d].stream, d)
                                 /\ ru[d].task = 0 /\ ru[d].revision \in {1, 2}
          /\ ru[d].task # 0 => Begun(st2, qu, ru[d].task, d)
    BY <1>5 DEF Places
  <2>3. \A o \in ow : \E d \in Conversations : Home(st2, o[1], d)  BY <1>4 DEF Places
  <2>4. \A i \in 1..Len(rq) : rq[i].kind = "send" =>
          /\ rq[i].n <= sends
          /\ \A d \in Conversations : ~Home(st2, rq[i].n, d)
          /\ \A j \in 1..Len(rq) : rq[j].kind = "send" /\ rq[j].n = rq[i].n => i = j
    BY <1>4 DEF Places
  <2>5. \A k \in 1..Len(P) : P[k].kind = "sent" /\ ~P[k].ok =>
          /\ P[k].n <= sends
          /\ \A d \in Conversations : ~Home(st2, P[k].n, d)
          /\ \A i \in 1..Len(rq) : rq[i].kind = "send" => rq[i].n # P[k].n
    BY <1>4 DEF Places
  <2>6. /\ \A d \in Conversations, m \in Numbers : Home(st2, m, d) => m <= sends
        /\ \A d, b \in Conversations, m \in Numbers : Home(st2, m, d) /\ Home(st2, m, b) => d = b
    BY <1>4 DEF Places
  <2> QED  BY <1>7, <2>1, <2>2, <2>3, <2>4, <2>5, <2>6 DEF Places
<1> QED  BY <1>2, <1>4, <1>8 DEF st2

\* The messages of a run that goes on, or that has not begun, are nowhere.
LEMMA OutcomeIsFresh ==
  ASSUME NEW st, NEW qu, NEW ru, NEW ow, NEW rq, NEW P, Places(st, qu, ru, ow, rq, P),
         NEW c \in Conversations, NEW n \in Numbers, Home(st, n, c),
         n \in qu[c] \/ ru[c].stream = n \/ ru[c].task = n
  PROVE  ~Kept(st, Answer(n)) /\ ~Kept(st, Failure(n))
<1> SUFFICES ASSUME NEW d \in Conversations, Answer(n) \in st[d] \/ Failure(n) \in st[d]
             PROVE  FALSE
  BY DEF Kept
<1>1. Begun(st, qu, n, d) /\ ru[d].stream # n /\ ru[d].task # n  BY DEF Places
<1>2. d = c  BY <1>1 DEF Places, Begun
<1> QED  BY <1>1, <1>2 DEF Begun

LEMMA GrowByOutcome ==
  ASSUME NEW st, NEW qu, NEW ru, NEW ow, NEW rq, NEW P \in Seq(PushMessage), ScreenTypes,
         st \in [Conversations -> SUBSET StoredMessages], OneHome(st),
         NEW c \in Conversations, NEW n \in Numbers,
         ~Kept(st, Answer(n)) /\ ~Kept(st, Failure(n)),
         NEW msg \in SUBSET {Answer(n), Failure(n)},
         Wire(st, qu, ru, P), Screen(st, qu, ru, P), Coming(st, ru, ow, rq, P)
  PROVE  LET st2 == [st EXCEPT ![c] = st[c] \union msg]
         IN Wire(st2, qu, ru, P) /\ Screen(st2, qu, ru, P) /\ Coming(st2, ru, ow, rq, P)
<1> DEFINE st2 == [st EXCEPT ![c] = st[c] \union msg]
<1>1. msg \subseteq StoredMessages  BY DEF StoredMessages
<1>2. \A m : User(m) \notin msg  BY DEF User, Answer, Failure
<1>3. \A d \in Conversations : \A m : Home(st2, m, d) <=> Home(st, m, d)
  BY <1>2 DEF Home
<1>4. \A d \in Conversations : st[d] \subseteq st2[d] /\ st2[d] \subseteq StoredMessages
  BY <1>1
<1>5. \A d \in Conversations : \A m \in st2[d] : m \in st[d] \/ ~Kept(st, m)
  OBVIOUS
<1> HIDE DEF st2
<1>6. OneHome(st2) /\ NoLessBegun(st, qu, st2, qu)
  BY <1>3 DEF OneHome, NoLessBegun, Begun
<1>7. Wire(st2, qu, ru, P) /\ Screen(st2, qu, ru, P)
  BY <1>4, <1>5, <1>6, Grow
<1>8. Coming(st2, ru, ow, rq, P)
  BY <1>4, GrowComing
<1> QED  BY <1>7, <1>8 DEF st2

LEMMA TakenByTask ==
  ASSUME NEW st, NEW qu, NEW ru, NEW ow, NEW rq, NEW P, ScreenTypes, Inv(st, qu, ru, ow, rq, P),
         NEW c \in Conversations, ru[c] = NoRun, NEW n \in qu[c], NEW t \in {0, n}
  PROVE  Inv(st, [qu EXCEPT ![c] = qu[c] \ {n}], [ru EXCEPT ![c] = [NoRun EXCEPT !.task = t]], ow, rq, P)
<1> DEFINE r == [NoRun EXCEPT !.task = t]
           ru2 == [ru EXCEPT ![c] = r]
           qu2 == [qu EXCEPT ![c] = qu[c] \ {n}]
<1>0. /\ Types(st, qu, ru, ow, rq, P)
      /\ n \in Numbers /\ n # 0 /\ t \in 0..MaxSends
  BY BoundsAreNumbers DEF Inv, Types, Numbers
<1>1. r \in RunEntry /\ r.stream = 0 /\ r.task = t /\ r.chunks = 0
  BY <1>0, EntryFields
<1>2. NoRun.stream = 0 /\ NoRun.chunks = 0  BY DEF NoRun
<1> HIDE DEF r
<1>3. /\ ru2 \in [Conversations -> RunEntry] /\ ru2[c] = r
      /\ \A d \in Conversations : ru2[d].stream = ru[d].stream /\ (ru[d].stream # 0 => ru2[d].chunks = ru[d].chunks)
      /\ \A d \in Conversations : d # c => ru2[d] = ru[d]
  <2>1. ru \in [Conversations -> RunEntry]  BY <1>0 DEF Types
  <2> QED  BY <1>1, <1>2, <2>1
<1>5. /\ qu2 \in [Conversations -> SUBSET Numbers]
      /\ \A d \in Conversations : qu2[d] \subseteq qu[d]
      /\ n \notin qu2[c]
  BY <1>0 DEF Types
<1>6. NoLessBegun(st, qu, st, qu2)  BY <1>5 DEF NoLessBegun, Begun
<1>7. Home(st, n, c) /\ \A d \in Conversations : ~Begun(st, qu, n, d)
  BY <1>0 DEF Inv, Places, Begun
<1> HIDE DEF ru2, qu2
<1>8. Types(st, qu2, ru2, ow, rq, P)  BY <1>0, <1>3, <1>5 DEF Types
<1>9. Places(st, qu2, ru2, ow, rq, P)
  <2>1. \A d \in Conversations : \A m \in qu2[d] : Home(st, m, d)
    BY <1>5 DEF Inv, Places
  <2>2. \A d \in Conversations :
          /\ ru2[d].stream # 0 => /\ Begun(st, qu2, ru2[d].stream, d)
                                  /\ ru2[d].task = 0 /\ ru2[d].revision \in {1, 2}
          /\ ru2[d].task # 0 => Begun(st, qu2, ru2[d].task, d)
    <3> TAKE d \in Conversations
    <3>1. CASE d = c  BY <1>1, <1>3, <1>5, <1>7, <3>1 DEF Begun
    <3>2. CASE d # c
      <4>1. ru2[d] = ru[d] /\ ru[d].stream \in 0..MaxSends /\ ru[d].task \in 0..MaxSends
        BY <1>0, <1>3, <3>2 DEF Types, RunEntry
      <4> QED  BY <1>6, <4>1 DEF Inv, Places, NoLessBegun, Numbers
    <3> QED  BY <3>1, <3>2
  <2>3. \A d \in Conversations, m \in Numbers :
          Answer(m) \in st[d] \/ Failure(m) \in st[d] =>
            Begun(st, qu2, m, d) /\ ru2[d].stream # m /\ ru2[d].task # m
    <3> TAKE d \in Conversations, m \in Numbers
    <3> HAVE Answer(m) \in st[d] \/ Failure(m) \in st[d]
    <3>1. Begun(st, qu, m, d) /\ ru[d].stream # m /\ ru[d].task # m  BY DEF Inv, Places
    <3>2. Begun(st, qu2, m, d) /\ m # n /\ m # 0  BY <1>6, <1>7, <3>1 DEF NoLessBegun, Numbers
    <3> QED  BY <1>1, <1>3, <3>1, <3>2
  <2> QED  BY <2>1, <2>2, <2>3 DEF Inv, Places
<1>10. Inv(st, qu2, ru2, ow, rq, P)  BY <1>3, <1>6, <1>8, <1>9, SameStreams
<1> QED  BY <1>10 DEF ru2, qu2, r

LEMMA ItemFails ==
  ASSUME NEW st, NEW qu, NEW ru, NEW ow, NEW rq, NEW P, ScreenTypes, Inv(st, qu, ru, ow, rq, P),
         NEW c \in Conversations, ru[c] = NoRun, NEW n \in qu[c]
  PROVE  Inv([st EXCEPT ![c] = st[c] \union {Failure(n)}], [qu EXCEPT ![c] = qu[c] \ {n}], ru, ow, rq,
             Append(P, EndEvent(0, {Failure(n)})))
<1> DEFINE qu2 == [qu EXCEPT ![c] = qu[c] \ {n}]
           st2 == [st EXCEPT ![c] = st[c] \union {Failure(n)}]
           e == EndEvent(0, {Failure(n)})
<1>1. Types(st, qu, ru, ow, rq, P) /\ n \in Numbers /\ n # 0  BY DEF Inv, Types, Numbers
<1>2. [ru EXCEPT ![c] = [NoRun EXCEPT !.task = 0]] = ru
  <2>1. [NoRun EXCEPT !.task = 0] = NoRun  BY DEF NoRun
  <2>2. ru \in [Conversations -> RunEntry]  BY <1>1 DEF Types
  <2> QED  BY <2>1, <2>2
<1>3. Inv(st, qu2, ru, ow, rq, P)
  <2>1. Inv(st, qu2, [ru EXCEPT ![c] = [NoRun EXCEPT !.task = 0]], ow, rq, P)  BY TakenByTask
  <2> QED  BY <1>2, <2>1
<1>4. Begun(st, qu2, n, c) /\ Home(st, n, c) /\ ru[c].stream # n /\ ru[c].task # n
  BY <1>1 DEF Inv, Places, Begun, Types, NoRun
<1>5. ~Kept(st, Failure(n)) /\ ~Kept(st, Answer(n))
  BY <1>1, <1>4, OutcomeIsFresh DEF Inv
<1> HIDE DEF qu2
<1>6. /\ st2 \in [Conversations -> SUBSET StoredMessages]
      /\ Places(st2, qu2, ru, ow, rq, P)
  BY <1>1, <1>3, <1>4, OutcomePlaces DEF Inv, Types
<1>7. Wire(st2, qu2, ru, P) /\ Screen(st2, qu2, ru, P) /\ Coming(st2, ru, ow, rq, P)
  <2>1. OneHome(st)  BY <1>3 DEF Inv, Places, OneHome
  <2> QED  BY <1>1, <1>3, <1>5, <2>1, GrowByOutcome DEF Inv, Types
<1>8. Inv(st2, qu2, ru, ow, rq, P)  BY <1>3, <1>6, <1>7 DEF Inv, Types
<1>9. /\ e \in PushMessage /\ e.kind = "end" /\ e.stream = 0 /\ e.msgs = {Failure(n)}
      /\ Failure(n) \in st2[c]
  <2>1. Failure(n) \in StoredMessages /\ 0 \in 0..MaxSends  BY <1>1, BoundsAreNumbers DEF StoredMessages
  <2>2. Failure(n) \in st2[c]  BY <1>1 DEF Types
  <2> QED  BY <2>1, <2>2 DEF EndEvent, PushMessage
<1> HIDE DEF st2, e
<1>10. Truthful(st2, qu2, e)  BY <1>9 DEF Truthful, Carried, Kept
<1>11. \A d \in Conversations : ~Displaces(st2, e, d, ru[d].stream)  BY <1>9 DEF Displaces
<1> QED  BY <1>8, <1>9, <1>10, <1>11, PushOther DEF qu2, st2, e

LEMMA ProcessNextKeeps ==
  ASSUME NEW c \in Conversations, NEW st, NEW q, NEW es \in Seq(PushMessage), NEW ow, NEW rq,
         ScreenTypes, processNext(c, st, q, es),
         Types(stored, queued, run, owed, requests, pushes),
         Inv([stored EXCEPT ![c] = st], [queued EXCEPT ![c] = q], [run EXCEPT ![c] = NoRun], ow, rq,
             pushes \o es)
  PROVE  Inv(stored', queued', run', ow, rq, pushes')
<1> DEFINE S == [stored EXCEPT ![c] = st]
           Q == [queued EXCEPT ![c] = q]
           R == [run EXCEPT ![c] = NoRun]
           P == pushes \o es
           n == Min(q)
<1>1. /\ stored \in [Conversations -> SUBSET StoredMessages]
      /\ queued \in [Conversations -> SUBSET Numbers]
      /\ run \in [Conversations -> RunEntry] /\ pushes \in Seq(PushMessage)
  BY DEF Types
<1>2. S[c] = st /\ Q[c] = q /\ R[c] = NoRun /\ q \in SUBSET Numbers
  <2>1. Q \in [Conversations -> SUBSET Numbers]  BY DEF Inv, Types
  <2> QED  BY <1>1, <2>1
<1>3. \A x : [S EXCEPT ![c] = x] = [stored EXCEPT ![c] = x]  BY <1>1
<1>4. \A x : [Q EXCEPT ![c] = x] = [queued EXCEPT ![c] = x]  BY <1>1
<1>5. \A x : [R EXCEPT ![c] = x] = [run EXCEPT ![c] = x]  BY <1>1
<1>6. \A e \in PushMessage : pushes \o Append(es, e) = Append(P, e)
  BY <1>1
<1>7. CASE /\ run' = R /\ queued' = Q /\ stored' = S /\ pushes' = P
  BY <1>7
<1>8. CASE /\ q # {} /\ queued' = [queued EXCEPT ![c] = q \ {n}]
           /\ \/ /\ run' = [run EXCEPT ![c] = NewRun(n)]
                 /\ stored' = S /\ pushes' = pushes \o Append(es, StartEvent(c, n))
              \/ /\ \E task \in {0, n} : run' = [run EXCEPT ![c] = [NoRun EXCEPT !.task = task]]
                 /\ stored' = S /\ pushes' = P
              \/ /\ run' = R
                 /\ stored' = [stored EXCEPT ![c] = st \union {Failure(n)}]
                 /\ pushes' = pushes \o Append(es, EndEvent(0, {Failure(n)}))
  <2>1. n \in q  BY <1>2, <1>8, MinIsIn
  <2>2. queued' = [Q EXCEPT ![c] = Q[c] \ {n}]  BY <1>2, <1>4, <1>8
  <2>3. n \in Numbers  BY <1>2, <2>1
  <2>4. StartEvent(c, n) \in PushMessage /\ EndEvent(0, {Failure(n)}) \in PushMessage
    <3>1. Failure(n) \in StoredMessages /\ 0 \in 0..MaxSends  BY <2>3, BoundsAreNumbers DEF StoredMessages
    <3> QED  BY <2>3, <3>1 DEF StartEvent, EndEvent, PushMessage
  <2> HIDE DEF S, Q, R, P, n
  <2>5. CASE /\ run' = [run EXCEPT ![c] = NewRun(n)]
             /\ stored' = S /\ pushes' = pushes \o Append(es, StartEvent(c, n))
    <3>1. Inv(S, [Q EXCEPT ![c] = Q[c] \ {n}], [R EXCEPT ![c] = NewRun(n)], ow, rq,
              Append(P, StartEvent(c, n)))
      BY <1>2, <2>1, StartRun DEF S, Q, R, P
    <3> QED  BY <1>5, <1>6, <2>2, <2>4, <2>5, <3>1
  <2>6. ASSUME NEW task \in {0, n}, run' = [run EXCEPT ![c] = [NoRun EXCEPT !.task = task]],
               stored' = S, pushes' = P
        PROVE  Inv(stored', queued', run', ow, rq, pushes')
    <3>1. Inv(S, Q, R, ow, rq, P) /\ n \in Q[c] /\ R[c] = NoRun
      BY <1>2, <2>1 DEF S, Q, R, P
    <3>2. Inv(S, [Q EXCEPT ![c] = Q[c] \ {n}], [R EXCEPT ![c] = [NoRun EXCEPT !.task = task]], ow, rq, P)
      BY <3>1, <2>6, TakenByTask
    <3>3. [R EXCEPT ![c] = [NoRun EXCEPT !.task = task]] = run'
      BY <1>5, <2>6
    <3> QED  BY <2>2, <2>6, <3>2, <3>3
  <2>7. CASE /\ run' = R
             /\ stored' = [stored EXCEPT ![c] = st \union {Failure(n)}]
             /\ pushes' = pushes \o Append(es, EndEvent(0, {Failure(n)}))
    <3>1. Inv([S EXCEPT ![c] = S[c] \union {Failure(n)}], [Q EXCEPT ![c] = Q[c] \ {n}], R, ow, rq,
              Append(P, EndEvent(0, {Failure(n)})))
      BY <1>2, <2>1, ItemFails DEF S, Q, R, P
    <3> QED  BY <1>2, <1>3, <1>6, <2>2, <2>4, <2>7, <3>1
  <2> QED  BY <1>8, <2>5, <2>6, <2>7
<1> QED  BY <1>7, <1>8 DEF processNext, Push

-----------------------------------------------------------------------------
(* The actions of the main process keep the invariant.                     *)

LEMMA PrimedWire ==
  ASSUME Wire(stored', queued', run', pushes')
  PROVE  Wire(stored, queued, run, pushes)'
BY DEF Wire, AllTruthful, EndsFollow, EndsAreFinal, StartsFollow, ChunksFollow, ListsGrow, Truthful, Carried,
       Kept, Ends, Starts, Displaces, Chunks, Pending, Home, Begun

LEMMA PrimedComing ==
  ASSUME Coming(stored', run', owed', requests', pushes'),
         visit' = visit, active' = active, messages' = messages, streaming' = streaming
  PROVE  Coming(stored, run, owed, requests, pushes)'
BY DEF Coming, RunIsComing, ListIsComing, Seen, Fits, OnItsWay, Home, Starts

LEMMA SameScreen ==
  ASSUME ScreenTypes, ScreenIsOpen, UNCHANGED <<sends, visit, mounted, shown>>,
         Inv(stored', queued', run', owed', requests', pushes')
  PROVE  IInv'
<1>1. /\ sends' = sends /\ visit' = visit /\ mounted' = mounted /\ active' = active
      /\ messages' = messages /\ streaming' = streaming /\ streamConv' = streamConv
      /\ banner' = banner /\ hydrated' = hydrated /\ sending' = sending /\ started' = started
  BY DEF shown
<1>2. ScreenTypes'  BY <1>1 DEF ScreenTypes
<1>3. ScreenIsOpen'  BY <1>1 DEF ScreenIsOpen, Blank
<1>4. Types(stored, queued, run, owed, requests, pushes)'  BY DEF Inv, Types
<1>5. Places(stored, queued, run, owed, requests, pushes)'
  BY <1>1 DEF Inv, Places, Home, Begun
<1>6. Wire(stored, queued, run, pushes)'  BY PrimedWire DEF Inv
<1>7. Screen(stored, queued, run, pushes)'
  BY <1>1 DEF Inv, Screen, Known, ListsReplace, NoGhost, RevisionSeen, StartedIsLive, TextFollows,
              Seen, Kept, Ends, Starts, Chunks, Pending, Home, Begun
<1>8. Coming(stored, run, owed, requests, pushes)'  BY <1>1, PrimedComing DEF Inv
<1> QED  BY <1>2, <1>3, <1>4, <1>5, <1>6, <1>7, <1>8 DEF IInv, Inv

LEMMA RunEnds ==
  ASSUME NEW st, NEW qu, NEW ru, NEW ow, NEW rq, NEW P, ScreenTypes, Inv(st, qu, ru, ow, rq, P),
         NEW c \in Conversations, ru[c].stream # 0,
         NEW msg \in SUBSET {Answer(ru[c].stream), Failure(ru[c].stream)}
  PROVE  Inv([st EXCEPT ![c] = st[c] \union msg], qu, [ru EXCEPT ![c] = NoRun], ow, rq,
             Append(P, EndEvent(ru[c].stream, msg)))
<1> DEFINE n == ru[c].stream
           ru2 == [ru EXCEPT ![c] = NoRun]
           st2 == [st EXCEPT ![c] = st[c] \union msg]
           e == EndEvent(n, msg)
           Q == Append(P, e)
<1>1. Types(st, qu, ru, ow, rq, P) /\ P \in Seq(PushMessage) /\ ru \in [Conversations -> RunEntry]
  BY DEF Inv, Types
<1>2. n \in Numbers /\ n # 0 /\ n \in 0..MaxSends /\ Begun(st, qu, n, c) /\ Home(st, n, c)
  BY <1>1 DEF Inv, Places, Begun, Numbers, RunEntry
<1>3. msg \in SUBSET StoredMessages  BY <1>2 DEF StoredMessages
<1>4. /\ e \in PushMessage /\ e.kind = "end"
  BY <1>2, <1>3 DEF EndEvent, PushMessage
<1>5. /\ Q \in Seq(PushMessage) /\ Len(P) \in Nat /\ Len(Q) = Len(P) + 1 /\ Q[Len(P) + 1] = e
      /\ \A i \in 1..Len(P) : Q[i] = P[i] /\ P[i] \in PushMessage
  BY <1>1, <1>4, AppendFacts
<1>6. /\ ru2 \in [Conversations -> RunEntry] /\ ru2[c] = NoRun
      /\ \A d \in Conversations : d # c => ru2[d] = ru[d]
      /\ NoRun.stream = 0 /\ NoRun.task = 0
  BY <1>1, <1>2, EntryFields DEF NoRun
<1>7. OneHome(st)  BY DEF Inv, Places, OneHome
<1> HIDE DEF n, e, Q, ru2
<1>8. Places(st, qu, ru2, ow, rq, Q)
  <2>1. \A k \in 1..Len(Q) : Q[k].kind = "sent" /\ ~Q[k].ok =>
          /\ Q[k].n <= sends
          /\ \A d \in Conversations : ~Home(st, Q[k].n, d)
          /\ \A i \in 1..Len(rq) : rq[i].kind = "send" => rq[i].n # Q[k].n
    BY <1>4, <1>5 DEF Inv, Places
  <2>2. \A d \in Conversations :
          /\ ru2[d].stream # 0 => /\ Begun(st, qu, ru2[d].stream, d)
                                  /\ ru2[d].task = 0 /\ ru2[d].revision \in {1, 2}
          /\ ru2[d].task # 0 => Begun(st, qu, ru2[d].task, d)
    BY <1>6 DEF Inv, Places
  <2>3. \A d \in Conversations, m \in Numbers :
          Answer(m) \in st[d] \/ Failure(m) \in st[d] =>
            Begun(st, qu, m, d) /\ ru2[d].stream # m /\ ru2[d].task # m
    BY <1>6 DEF Inv, Places, Numbers
  <2> QED  BY <2>1, <2>2, <2>3 DEF Inv, Places
<1>9. /\ st2 \in [Conversations -> SUBSET StoredMessages]
      /\ \A d \in Conversations, m \in Numbers : Home(st2, m, d) <=> Home(st, m, d)
      /\ Places(st2, qu, ru2, ow, rq, Q)
  <2>1. ru2[c].stream # n /\ ru2[c].task # n  BY <1>2, <1>6
  <2> QED  BY <1>1, <1>2, <1>8, <2>1, OutcomePlaces DEF Types, n
<1>10. ~Kept(st, Answer(n)) /\ ~Kept(st, Failure(n))
  BY <1>2, OutcomeIsFresh DEF Inv, n
<1>11. Wire(st2, qu, ru, P) /\ Screen(st2, qu, ru, P) /\ Coming(st2, ru, ow, rq, P)
  BY <1>1, <1>2, <1>7, <1>10, GrowByOutcome DEF Inv, Types, n
<1>12. msg \subseteq st2[c] /\ Begun(st2, qu, n, c) /\ OneHome(st2)
  BY <1>1, <1>2, <1>9 DEF Types, Begun, Places, OneHome
<1> HIDE DEF st2
<1>13. Wire(st2, qu, ru2, Q) /\ Screen(st2, qu, ru2, Q) /\ Coming(st2, ru2, ow, rq, Q)
  <2>1. \A d \in Conversations : ru[d].stream # 0 => Begun(st2, qu, ru[d].stream, d)
    BY <1>1, <1>9 DEF Inv, Places, Begun, RunEntry, Numbers
  <2> QED  BY <1>1, <1>2, <1>3, <1>11, <1>12, <2>1, EndRun DEF n, ru2, Q, e
<1>14. Types(st2, qu, ru2, ow, rq, Q)  BY <1>1, <1>5, <1>6, <1>9 DEF Types
<1> QED  BY <1>9, <1>13, <1>14 DEF Inv, st2, ru2, Q, e, n

LEMMA TaskEnds ==
  ASSUME NEW st, NEW qu, NEW ru, NEW ow, NEW rq, NEW P, ScreenTypes, Inv(st, qu, ru, ow, rq, P),
         NEW c \in Conversations, ru[c].task # 0
  PROVE  Inv([st EXCEPT ![c] = st[c] \union {Answer(ru[c].task)}], qu, [ru EXCEPT ![c] = NoRun], ow, rq,
             Append(P, EndEvent(0, {Answer(ru[c].task)})))
<1> DEFINE n == ru[c].task
           ru2 == [ru EXCEPT ![c] = NoRun]
           st2 == [st EXCEPT ![c] = st[c] \union {Answer(n)}]
           e == EndEvent(0, {Answer(n)})
<1>1. Types(st, qu, ru, ow, rq, P) /\ P \in Seq(PushMessage) /\ ru \in [Conversations -> RunEntry]
  BY DEF Inv, Types
<1>2. n \in Numbers /\ n # 0 /\ n \in 0..MaxSends /\ Begun(st, qu, n, c) /\ Home(st, n, c)
  BY <1>1 DEF Inv, Places, Begun, Numbers, RunEntry
<1>3. ru[c].stream = 0  BY <1>2 DEF Inv, Places
<1>4. /\ ru2 \in [Conversations -> RunEntry] /\ ru2[c] = NoRun
      /\ \A d \in Conversations : d # c => ru2[d] = ru[d]
      /\ NoRun.stream = 0 /\ NoRun.task = 0
  BY <1>1, <1>2, EntryFields DEF NoRun
<1>5. ~Kept(st, Answer(n)) /\ ~Kept(st, Failure(n))
  BY <1>2, OutcomeIsFresh DEF Inv, n
<1> HIDE DEF n, ru2
<1>6. Inv(st, qu, ru2, ow, rq, P)
  <2>1. Types(st, qu, ru2, ow, rq, P)  BY <1>1, <1>4 DEF Types
  <2>2. \A d \in Conversations :
          /\ ru2[d].stream # 0 => /\ Begun(st, qu, ru2[d].stream, d)
                                  /\ ru2[d].task = 0 /\ ru2[d].revision \in {1, 2}
          /\ ru2[d].task # 0 => Begun(st, qu, ru2[d].task, d)
    BY <1>4 DEF Inv, Places
  <2>3. \A d \in Conversations, m \in Numbers :
          Answer(m) \in st[d] \/ Failure(m) \in st[d] =>
            Begun(st, qu, m, d) /\ ru2[d].stream # m /\ ru2[d].task # m
    BY <1>4 DEF Inv, Places, Numbers
  <2>4. Places(st, qu, ru2, ow, rq, P)  BY <2>2, <2>3 DEF Inv, Places
  <2>5. NoLessBegun(st, qu, st, qu)  BY DEF NoLessBegun
  <2>6. \A d \in Conversations : ru2[d].stream = ru[d].stream /\ (ru[d].stream # 0 => ru2[d].chunks = ru[d].chunks)
    BY <1>3, <1>4
  <2> QED  BY <2>1, <2>4, <2>5, <2>6, SameStreams
<1>7. /\ st2 \in [Conversations -> SUBSET StoredMessages]
      /\ Places(st2, qu, ru2, ow, rq, P)
  <2>1. ru2[c].stream # n /\ ru2[c].task # n  BY <1>2, <1>4
  <2> QED  BY <1>1, <1>2, <1>6, <2>1, OutcomePlaces DEF Inv, Types
<1>8. Wire(st2, qu, ru2, P) /\ Screen(st2, qu, ru2, P) /\ Coming(st2, ru2, ow, rq, P)
  <2>1. OneHome(st)  BY DEF Inv, Places, OneHome
  <2> QED  BY <1>1, <1>2, <1>5, <1>6, <2>1, GrowByOutcome DEF Inv, Types
<1>9. Inv(st2, qu, ru2, ow, rq, P)  BY <1>6, <1>7, <1>8 DEF Inv, Types
<1>10. /\ e \in PushMessage /\ e.kind = "end" /\ e.stream = 0 /\ e.msgs = {Answer(n)}
       /\ Answer(n) \in st2[c]
  <2>1. Answer(n) \in StoredMessages /\ 0 \in 0..MaxSends  BY <1>2, BoundsAreNumbers DEF StoredMessages
  <2>2. Answer(n) \in st2[c]  BY <1>1 DEF Types
  <2> QED  BY <2>1, <2>2 DEF EndEvent, PushMessage
<1> HIDE DEF st2, e
<1>11. Truthful(st2, qu, e)  BY <1>10 DEF Truthful, Carried, Kept
<1>12. \A d \in Conversations : ~Displaces(st2, e, d, ru2[d].stream)  BY <1>10 DEF Displaces
<1>13. Inv(st2, qu, ru2, ow, rq, Append(P, e))  BY <1>9, <1>10, <1>11, <1>12, PushOther
<1> QED  BY <1>13 DEF st2, e, ru2, n

\* The first request is answered: what was to come with it comes another way.
LEMMA Answered ==
  ASSUME NEW st, NEW ru, NEW ow, NEW rq \in Seq(Request), rq # <<>>, NEW P, ScreenTypes,
         NEW st2, NEW ow2, NEW Q,
         \A c \in Conversations : st[c] \subseteq st2[c],
         ow \subseteq ow2,
         \A i \in 1..Len(P) : \E j \in 1..Len(Q) : Q[j] = P[i],
         rq[1].kind = "runtime" /\ ru[rq[1].conv].stream # 0 =>
           \E i \in 1..Len(Q) : /\ Q[i].kind = "runtime" /\ Q[i].conv = rq[1].conv
                                /\ Q[i].visit = rq[1].visit /\ Q[i].stream = ru[rq[1].conv].stream,
         rq[1].kind = "messages" =>
           \E i \in 1..Len(Q) : /\ Q[i].kind = "messages" /\ Q[i].conv = rq[1].conv
                                /\ Q[i].visit = rq[1].visit,
         rq[1].kind = "send" /\ rq[1].visit = visit =>
           OnItsWay(st2, ow2, Tail(rq), Q, rq[1].n, rq[1].conv),
         Coming(st, ru, ow, rq, P)
  PROVE  Coming(st2, ru, ow2, Tail(rq), Q)
<1> DEFINE T == Tail(rq)
<1>1. /\ Len(rq) \in Nat \ {0} /\ Len(T) = Len(rq) - 1
      /\ \A i \in 1..Len(T) : T[i] = rq[i + 1]
      /\ \A i \in 2..Len(rq) : i - 1 \in 1..Len(T) /\ T[i - 1] = rq[i]
  BY TailFacts
<1>2. active # None => active \in Conversations  BY DEF ScreenTypes
<1> HIDE DEF T
<1>3. RunIsComing(ru, T, Q)
  <2> SUFFICES ASSUME active # None, ru[active].stream # 0
               PROVE  \/ Seen(ru, Q, active)
                      \/ \E i \in 1..Len(T) : T[i].kind = "runtime" /\ T[i].conv = active /\ T[i].visit = visit
                      \/ \E i \in 1..Len(Q) : /\ Q[i].kind = "runtime" /\ Q[i].conv = active /\ Q[i].visit = visit
                                              /\ Q[i].stream = ru[active].stream
    BY DEF RunIsComing
  <2>1. CASE Seen(ru, P, active)  BY <2>1 DEF Seen
  <2>2. ASSUME NEW i \in 1..Len(rq), rq[i].kind = "runtime", rq[i].conv = active, rq[i].visit = visit
        PROVE  \/ \E k \in 1..Len(T) : T[k].kind = "runtime" /\ T[k].conv = active /\ T[k].visit = visit
               \/ \E k \in 1..Len(Q) : /\ Q[k].kind = "runtime" /\ Q[k].conv = active /\ Q[k].visit = visit
                                       /\ Q[k].stream = ru[active].stream
    <3>1. CASE i = 1  BY <2>2, <3>1
    <3>2. CASE i # 1
      <4>1. i - 1 \in 1..Len(T) /\ T[i - 1] = rq[i]  BY <1>1, <3>2
      <4> QED  BY <2>2, <4>1
    <3> QED  BY <3>1, <3>2
  <2>3. ASSUME NEW i \in 1..Len(P), P[i].kind = "runtime", P[i].conv = active, P[i].visit = visit,
               P[i].stream = ru[active].stream
        PROVE  \E k \in 1..Len(Q) : /\ Q[k].kind = "runtime" /\ Q[k].conv = active /\ Q[k].visit = visit
                                    /\ Q[k].stream = ru[active].stream
    BY <2>3
  <2> QED  BY <2>1, <2>2, <2>3 DEF Coming, RunIsComing
<1>4. \A n \in Numbers, c \in Conversations : OnItsWay(st, ow, rq, P, n, c) => OnItsWay(st2, ow2, T, Q, n, c)
  <2> SUFFICES ASSUME NEW n \in Numbers, NEW c \in Conversations, OnItsWay(st, ow, rq, P, n, c)
               PROVE  OnItsWay(st2, ow2, T, Q, n, c)
    OBVIOUS
  <2>1. ASSUME NEW i \in 1..Len(rq), rq[i].kind = "send", rq[i].n = n, rq[i].visit = visit, rq[i].conv = c
        PROVE  OnItsWay(st2, ow2, T, Q, n, c)
    <3>1. CASE i = 1  BY <2>1, <3>1 DEF T
    <3>2. CASE i # 1
      <4>1. i - 1 \in 1..Len(T) /\ T[i - 1] = rq[i]  BY <1>1, <3>2
      <4> QED  BY <2>1, <4>1 DEF OnItsWay
    <3> QED  BY <3>1, <3>2
  <2>2. ASSUME <<n, visit>> \in ow, Home(st, n, c)
        PROVE  OnItsWay(st2, ow2, T, Q, n, c)
    BY <2>2 DEF OnItsWay, Home
  <2>3. ASSUME NEW i \in 1..Len(P), P[i].kind = "sent", P[i].n = n, P[i].visit = visit,
               P[i].ok => Home(st, n, c)
        PROVE  OnItsWay(st2, ow2, T, Q, n, c)
    <3>1. PICK k \in 1..Len(Q) : Q[k] = P[i]
      BY <2>3
    <3>2. Home(st, n, c) => Home(st2, n, c)
      BY DEF Home
    <3> QED  BY <2>3, <3>1, <3>2 DEF OnItsWay
  <2> QED  BY <2>1, <2>2, <2>3 DEF OnItsWay
<1>5. \A m : active # None /\ Fits(st, ow, rq, P, m, active) => Fits(st2, ow2, T, Q, m, active)
  BY <1>2, <1>4 DEF Fits
<1>6. ListIsComing(st2, ow2, T, Q)
  <2> SUFFICES ASSUME active # None
               PROVE  \/ \E i \in 1..Len(T) : T[i].kind = "messages" /\ T[i].conv = active /\ T[i].visit = visit
                      \/ \E i \in 1..Len(Q) : Q[i].kind = "messages" /\ Q[i].conv = active /\ Q[i].visit = visit
                      \/ \A m \in messages : Fits(st2, ow2, T, Q, m, active)
    BY DEF ListIsComing
  <2>1. ASSUME NEW i \in 1..Len(rq), rq[i].kind = "messages", rq[i].conv = active, rq[i].visit = visit
        PROVE  \/ \E k \in 1..Len(T) : T[k].kind = "messages" /\ T[k].conv = active /\ T[k].visit = visit
               \/ \E k \in 1..Len(Q) : Q[k].kind = "messages" /\ Q[k].conv = active /\ Q[k].visit = visit
    <3>1. CASE i = 1  BY <2>1, <3>1
    <3>2. CASE i # 1
      <4>1. i - 1 \in 1..Len(T) /\ T[i - 1] = rq[i]  BY <1>1, <3>2
      <4> QED  BY <2>1, <4>1
    <3> QED  BY <3>1, <3>2
  <2>2. ASSUME NEW i \in 1..Len(P), P[i].kind = "messages", P[i].conv = active, P[i].visit = visit
        PROVE  \E k \in 1..Len(Q) : Q[k].kind = "messages" /\ Q[k].conv = active /\ Q[k].visit = visit
    BY <2>2
  <2>3. CASE \A m \in messages : Fits(st, ow, rq, P, m, active)  BY <1>5, <2>3
  <2> QED  BY <2>1, <2>2, <2>3 DEF Coming, ListIsComing
<1> QED  BY <1>3, <1>6 DEF Coming, T

\* A request that is answered, or that needs no answer, leaves its place.
LEMMA RequestLeaves ==
  ASSUME NEW st, NEW qu, NEW ru, NEW ow, NEW rq, rq # <<>>, NEW P, ScreenTypes,
         Inv(st, qu, ru, ow, rq, P), Coming(st, ru, ow, Tail(rq), P)
  PROVE  Inv(st, qu, ru, ow, Tail(rq), P)
<1> DEFINE T == Tail(rq)
<1>0. Types(st, qu, ru, ow, rq, P) /\ rq \in Seq(Request)  BY DEF Inv, Types
<1>1. /\ T \in Seq(Request) /\ Len(rq) \in Nat \ {0} /\ Len(T) = Len(rq) - 1
      /\ \A i \in 1..Len(T) : T[i] = rq[i + 1] /\ i + 1 \in 1..Len(rq)
  BY <1>0, TailFacts
<1> HIDE DEF T
<1>2. Types(st, qu, ru, ow, T, P)  BY <1>0, <1>1 DEF Types
<1>3. Places(st, qu, ru, ow, T, P)
  <2>1. \A i \in 1..Len(T) : T[i].kind = "send" =>
          /\ T[i].n <= sends
          /\ \A c \in Conversations : ~Home(st, T[i].n, c)
          /\ \A j \in 1..Len(T) : T[j].kind = "send" /\ T[j].n = T[i].n => i = j
    <3> SUFFICES ASSUME NEW i \in 1..Len(T), T[i].kind = "send"
                 PROVE  /\ T[i].n <= sends
                        /\ \A c \in Conversations : ~Home(st, T[i].n, c)
                        /\ \A j \in 1..Len(T) : T[j].kind = "send" /\ T[j].n = T[i].n => i = j
      OBVIOUS
    <3>1. rq[i + 1].kind = "send" /\ i + 1 \in 1..Len(rq) /\ T[i] = rq[i + 1]  BY <1>1
    <3>2. /\ T[i].n <= sends
          /\ \A c \in Conversations : ~Home(st, T[i].n, c)
          /\ \A j \in 1..Len(rq) : rq[j].kind = "send" /\ rq[j].n = T[i].n => i + 1 = j
      BY <3>1 DEF Inv, Places
    <3> QED  BY <1>1, <3>2
  <2>2. \A k \in 1..Len(P) : P[k].kind = "sent" /\ ~P[k].ok =>
          /\ P[k].n <= sends
          /\ \A c \in Conversations : ~Home(st, P[k].n, c)
          /\ \A i \in 1..Len(T) : T[i].kind = "send" => T[i].n # P[k].n
    BY <1>1 DEF Inv, Places
  <2> QED  BY <2>1, <2>2 DEF Inv, Places
<1> QED  BY <1>2, <1>3 DEF Inv, T

LEMMA PushOne ==
  ASSUME NEW e \in PushMessage, Types(stored, queued, run, owed, requests, pushes)
  PROVE  /\ pushes \o <<e>> = Append(pushes, e)
         /\ Append(pushes, e) \in Seq(PushMessage) /\ <<e>> \in Seq(PushMessage)
         /\ pushes \o <<>> = pushes
  BY DEF Types

LEMMA SameQueue ==
  ASSUME NEW c \in Conversations, Types(stored, queued, run, owed, requests, pushes)
  PROVE  /\ [stored EXCEPT ![c] = stored[c]] = stored
         /\ [queued EXCEPT ![c] = queued[c]] = queued
         /\ run[c] = NoRun => [run EXCEPT ![c] = NoRun] = run
  BY DEF Types

LEMMA ResumeStep ==
  ASSUME NEW c \in Conversations, IInv, resume(c)
  PROVE  IInv'
<1>1. ScreenTypes /\ Inv(stored, queued, run, owed, requests, pushes)
      /\ Types(stored, queued, run, owed, requests, pushes)
  BY DEF IInv, Inv
<1>2. run[c] = NoRun /\ processNext(c, stored[c], queued[c], <<>>) /\ owed' = owed /\ requests' = requests
  BY DEF resume, Idle
<1>3. Inv([stored EXCEPT ![c] = stored[c]], [queued EXCEPT ![c] = queued[c]], [run EXCEPT ![c] = NoRun],
          owed, requests, pushes \o <<>>)
  <2>1. pushes \o <<>> = pushes  BY <1>1 DEF Types
  <2> QED  BY <1>1, <1>2, <2>1, SameQueue
<1>4. <<>> \in Seq(PushMessage)  OBVIOUS
<1>5. Inv(stored', queued', run', owed', requests', pushes')
  BY <1>1, <1>2, <1>3, <1>4, ProcessNextKeeps
<1> QED  BY <1>5, SameScreen DEF IInv, resume

LEMMA ChunkStep ==
  ASSUME NEW c \in Conversations, IInv, onChunk(c)
  PROVE  IInv'
<1>1. ScreenTypes /\ Inv(stored, queued, run, owed, requests, pushes)
      /\ Types(stored, queued, run, owed, requests, pushes) /\ run[c] \in RunEntry
  BY DEF IInv, Inv, Types
<1>2. ChunkEvent(run[c].stream) \in PushMessage
  BY <1>1 DEF onChunk, ChunkEvent, PushMessage, RunEntry, Numbers
<1>3. Inv(stored, queued, [run EXCEPT ![c].chunks = @ + 1], owed, requests,
          Append(pushes, ChunkEvent(run[c].stream)))
  BY <1>1, ChunkRun DEF onChunk
<1>4. Inv(stored', queued', run', owed', requests', pushes')
  <2>1. pushes' = Append(pushes, ChunkEvent(run[c].stream))  BY <1>1, <1>2, PushOne DEF onChunk, Push
  <2> QED  BY <1>3, <2>1 DEF onChunk
<1> QED  BY <1>4, SameScreen DEF IInv, onChunk

LEMMA WaitingStep ==
  ASSUME NEW c \in Conversations, IInv, onWaitingForHuman(c)
  PROVE  IInv'
<1> DEFINE n == run[c].stream
           e == WaitingEvent(c, n)
           ru2 == [run EXCEPT ![c].waiting = TRUE, ![c].revision = 2]
<1>1. ScreenTypes /\ Inv(stored, queued, run, owed, requests, pushes)
      /\ Types(stored, queued, run, owed, requests, pushes)
      /\ run \in [Conversations -> RunEntry] /\ run[c] \in RunEntry /\ n # 0 /\ n \in Numbers
      /\ Begun(stored, queued, n, c)
  BY DEF IInv, Inv, Types, RunEntry, Numbers, onWaitingForHuman, Places
<1>2. e \in PushMessage /\ e.kind = "waiting" /\ e.conv = c /\ e.stream = n
  BY <1>1 DEF WaitingEvent, PushMessage
<1>3. /\ ru2 \in [Conversations -> RunEntry]
      /\ \A d \in Conversations : /\ ru2[d].stream = run[d].stream /\ ru2[d].chunks = run[d].chunks
                                  /\ ru2[d].task = run[d].task
                                  /\ (ru2[d].revision = run[d].revision \/ ru2[d].revision = 2)
  <2>1. [run[c] EXCEPT !.waiting = TRUE] \in RunEntry  BY <1>1 DEF RunEntry
  <2>2. \A x \in RunEntry : [x EXCEPT !.revision = 2] \in RunEntry
    <3> SUFFICES ASSUME NEW x \in RunEntry PROVE [x EXCEPT !.revision = 2] \in RunEntry  OBVIOUS
    <3> QED  BY DEF RunEntry
  <2>3. ru2 = [run EXCEPT ![c] = [[run[c] EXCEPT !.waiting = TRUE] EXCEPT !.revision = 2]]
    BY <1>1
  <2>4. ru2 \in [Conversations -> RunEntry]  BY <1>1, <2>1, <2>2, <2>3
  <2> QED  BY <1>1, <2>3, <2>4 DEF RunEntry
<1> HIDE DEF ru2, e
<1>4. Inv(stored, queued, ru2, owed, requests, pushes)
  <2>1. Types(stored, queued, ru2, owed, requests, pushes)  BY <1>1, <1>3 DEF Types
  <2>2. Places(stored, queued, ru2, owed, requests, pushes)  BY <1>1, <1>3 DEF Inv, Places
  <2>3. NoLessBegun(stored, queued, stored, queued)  BY DEF NoLessBegun
  <2> QED  BY <1>1, <1>3, <2>1, <2>2, <2>3, SameStreams
<1>5. Inv(stored, queued, ru2, owed, requests, Append(pushes, e))
  <2>1. Truthful(stored, queued, e)  BY <1>1, <1>2 DEF Truthful, Carried
  <2>2. \A d \in Conversations : ~Displaces(stored, e, d, ru2[d].stream)  BY <1>2 DEF Displaces
  <2> QED  BY <1>1, <1>2, <1>4, <2>1, <2>2, PushOther
<1>6. Inv(stored', queued', run', owed', requests', pushes')
  <2>1. pushes' = Append(pushes, e)  BY <1>1, <1>2, PushOne DEF onWaitingForHuman, Push, e
  <2> QED  BY <1>5, <2>1 DEF onWaitingForHuman, ru2
<1> QED  BY <1>6, SameScreen DEF IInv, onWaitingForHuman

LEMMA EndThenNext ==
  ASSUME NEW c \in Conversations, NEW e \in PushMessage, NEW msg, IInv,
         Inv([stored EXCEPT ![c] = stored[c] \union msg], queued, [run EXCEPT ![c] = NoRun],
             owed, requests, Append(pushes, e)),
         processNext(c, stored[c] \union msg, queued[c], <<e>>),
         UNCHANGED <<owed, requests, sends, visit, mounted, shown>>
  PROVE  IInv'
<1>1. ScreenTypes /\ Types(stored, queued, run, owed, requests, pushes)  BY DEF IInv, Inv
<1>2. Inv([stored EXCEPT ![c] = stored[c] \union msg], [queued EXCEPT ![c] = queued[c]],
          [run EXCEPT ![c] = NoRun], owed, requests, pushes \o <<e>>)
  BY <1>1, PushOne, SameQueue
<1>3. <<e>> \in Seq(PushMessage)  OBVIOUS
<1>4. Inv(stored', queued', run', owed', requests', pushes')
  BY <1>1, <1>2, <1>3, ProcessNextKeeps
<1> QED  BY <1>4, SameScreen DEF IInv

LEMMA StopsStep ==
  ASSUME NEW c \in Conversations, IInv, run[c].stream # 0,
         NEW msg \in SUBSET {Answer(run[c].stream), Failure(run[c].stream)}, RunStops(c, msg)
  PROVE  IInv'
<1> DEFINE e == EndEvent(run[c].stream, msg)
<1>1. ScreenTypes /\ Inv(stored, queued, run, owed, requests, pushes)
      /\ Types(stored, queued, run, owed, requests, pushes) /\ run[c] \in RunEntry
  BY DEF IInv, Inv, Types
<1>2. e \in PushMessage
  <2>1. run[c].stream \in Numbers  BY <1>1 DEF RunEntry, Numbers
  <2>2. msg \subseteq StoredMessages  BY <2>1 DEF StoredMessages
  <2> QED  BY <1>1, <2>2 DEF EndEvent, PushMessage, RunEntry
<1>3. Inv([stored EXCEPT ![c] = stored[c] \union msg], queued, [run EXCEPT ![c] = NoRun],
          owed, requests, Append(pushes, e))
  BY <1>1, RunEnds
<1>4. Inv(stored', queued', run', owed', requests', pushes')
  <2>1. pushes' = Append(pushes, e)  BY <1>1, <1>2, PushOne DEF RunStops, Push
  <2> QED  BY <1>3, <2>1 DEF RunStops
<1> QED  BY <1>4, SameScreen DEF IInv, RunStops

LEMMA SucceedsStep ==
  ASSUME NEW c \in Conversations, IInv, RunSucceeds(c)
  PROVE  IInv'
<1> DEFINE msg == {Answer(run[c].stream)}
           e == EndEvent(run[c].stream, msg)
<1>1. ScreenTypes /\ Inv(stored, queued, run, owed, requests, pushes)
      /\ run[c] \in RunEntry /\ run[c].stream # 0
  BY DEF IInv, Inv, Types, RunSucceeds
<1>2. e \in PushMessage
  <2>1. run[c].stream \in Numbers  BY <1>1 DEF RunEntry, Numbers
  <2> QED  BY <1>1, <2>1 DEF EndEvent, PushMessage, StoredMessages, RunEntry
<1>3. Inv([stored EXCEPT ![c] = stored[c] \union msg], queued, [run EXCEPT ![c] = NoRun],
          owed, requests, Append(pushes, e))
  BY <1>1, RunEnds
<1>4. CASE run[c].revision = 2 /\ RunStops(c, msg)
  BY <1>1, <1>4, StopsStep
<1> QED  BY <1>2, <1>3, <1>4, EndThenNext DEF RunSucceeds

LEMMA TaskStep ==
  ASSUME NEW c \in Conversations, IInv, completeQueueItemAsTask(c)
  PROVE  IInv'
<1> DEFINE msg == {Answer(run[c].task)}
           e == EndEvent(0, msg)
<1>1. ScreenTypes /\ Inv(stored, queued, run, owed, requests, pushes)
      /\ run[c] \in RunEntry /\ run[c].task # 0
  BY DEF IInv, Inv, Types, completeQueueItemAsTask
<1>2. e \in PushMessage
  <2>1. run[c].task \in Numbers  BY <1>1 DEF RunEntry, Numbers
  <2>2. 0 \in 0..MaxSends  BY BoundsAreNumbers
  <2> QED  BY <2>1, <2>2 DEF EndEvent, PushMessage, StoredMessages
<1>3. Inv([stored EXCEPT ![c] = stored[c] \union msg], queued, [run EXCEPT ![c] = NoRun],
          owed, requests, Append(pushes, e))
  BY <1>1, TaskEnds
<1> QED  BY <1>2, <1>3, EndThenNext DEF completeQueueItemAsTask

\* The first request and its fields.
LEMMA FirstRequest ==
  ASSUME NEW kind, IInv, Handling(kind)
  PROVE  /\ ScreenTypes /\ Inv(stored, queued, run, owed, requests, pushes)
         /\ Types(stored, queued, run, owed, requests, pushes)
         /\ requests \in Seq(Request) /\ pushes \in Seq(PushMessage)
         /\ requests # <<>> /\ Head(requests) = requests[1] /\ requests[1] \in Request
         /\ requests[1].kind = kind /\ requests[1].conv \in Conversations
         /\ Len(requests) \in Nat \ {0} /\ requests' = Tail(requests)
<1>1. ScreenTypes /\ Inv(stored, queued, run, owed, requests, pushes)
      /\ Types(stored, queued, run, owed, requests, pushes)
  BY DEF IInv, Inv
<1>2. requests \in Seq(Request) /\ pushes \in Seq(PushMessage) /\ requests # <<>>
  BY <1>1 DEF Types, Handling
<1>3. Head(requests) = requests[1] /\ requests[1] \in Request /\ Len(requests) \in Nat \ {0}
  BY <1>2, TailFacts
<1> QED  BY <1>1, <1>2, <1>3, RequestFields DEF Handling

LEMMA Replied ==
  ASSUME NEW e \in PushMessage, IInv, requests # <<>>,
         Inv(stored, queued, run, owed, requests, Append(pushes, e)),
         requests[1].kind \notin {"send"},
         requests[1].kind = "runtime" =>
           /\ e.kind = "runtime" /\ e.conv = requests[1].conv /\ e.visit = requests[1].visit
           /\ run[requests[1].conv].stream # 0 => e.stream = run[requests[1].conv].stream,
         requests[1].kind = "messages" =>
           e.kind = "messages" /\ e.conv = requests[1].conv /\ e.visit = requests[1].visit
  PROVE  Inv(stored, queued, run, owed, Tail(requests), Append(pushes, e))
<1> DEFINE Q == Append(pushes, e)
<1>1. ScreenTypes /\ requests \in Seq(Request) /\ pushes \in Seq(PushMessage)
  BY DEF IInv, Inv, Types
<1>2. /\ Len(pushes) \in Nat /\ Len(Q) = Len(pushes) + 1 /\ Q[Len(pushes) + 1] = e
      /\ \A i \in 1..Len(pushes) : Q[i] = pushes[i]
  BY <1>1, AppendFacts
<1> HIDE DEF Q
<1>3. /\ Len(pushes) + 1 \in 1..Len(Q)
      /\ \A i \in 1..Len(pushes) : \E j \in 1..Len(Q) : Q[j] = pushes[i]
  BY <1>2
<1>4. Coming(stored, run, owed, requests, pushes)  BY DEF IInv, Inv
<1>5. Coming(stored, run, owed, Tail(requests), Q)
  BY <1>1, <1>2, <1>3, <1>4, Answered
<1> QED  BY <1>1, <1>5, RequestLeaves DEF Q

LEMMA MessagesRequestStep ==
  ASSUME IInv, HandleMessages
  PROVE  IInv'
<1> DEFINE r == requests[1]
           e == MessagesReply(r.conv, r.visit)
<1>1. /\ ScreenTypes /\ Inv(stored, queued, run, owed, requests, pushes)
      /\ Types(stored, queued, run, owed, requests, pushes)
      /\ requests # <<>> /\ Head(requests) = r /\ r \in Request /\ r.kind = "messages"
      /\ r.conv \in Conversations /\ r.visit \in Nat /\ requests' = Tail(requests)
  BY FirstRequest, RequestFields DEF HandleMessages
<1>2. /\ e \in PushMessage /\ e.kind = "messages" /\ e.conv = r.conv /\ e.visit = r.visit
      /\ e.msgs = stored[e.conv]
  BY <1>1 DEF MessagesReply, PushMessage, Types
<1>3. pushes' = Append(pushes, e)  BY <1>1, <1>2, PushOne DEF HandleMessages, Push
<1> HIDE DEF e
<1>4. Inv(stored, queued, run, owed, requests, Append(pushes, e))
  <2>1. Truthful(stored, queued, e)  BY <1>1, <1>2 DEF Truthful, Carried, Kept
  <2>2. \A d \in Conversations : ~Displaces(stored, e, d, run[d].stream)  BY <1>2 DEF Displaces
  <2> QED  BY <1>1, <1>2, <2>1, <2>2, PushOther
<1>5. Inv(stored, queued, run, owed, Tail(requests), Append(pushes, e))
  BY <1>1, <1>2, <1>4, Replied
<1>6. Inv(stored', queued', run', owed', requests', pushes')
  BY <1>1, <1>3, <1>5 DEF HandleMessages, main
<1> QED  BY <1>6, SameScreen DEF IInv, HandleMessages

LEMMA RuntimeRequestStep ==
  ASSUME IInv, HandleRuntimeState
  PROVE  IInv'
<1> DEFINE r == requests[1]
           e == getRuntimeState(r.conv, r.visit)
<1>1. /\ ScreenTypes /\ Inv(stored, queued, run, owed, requests, pushes)
      /\ Types(stored, queued, run, owed, requests, pushes)
      /\ requests # <<>> /\ Head(requests) = r /\ r \in Request /\ r.kind = "runtime"
      /\ r.conv \in Conversations /\ r.visit \in Nat /\ requests' = Tail(requests)
  BY FirstRequest, RequestFields DEF HandleRuntimeState
<1>2. /\ run[r.conv] \in RunEntry
      /\ run[r.conv].stream # 0 => /\ Begun(stored, queued, run[r.conv].stream, r.conv)
                                   /\ run[r.conv].task = 0 /\ run[r.conv].revision \in {1, 2}
  BY <1>1 DEF Inv, Types, Places
<1>3. /\ e \in PushMessage /\ e.kind = "runtime" /\ e.conv = r.conv /\ e.visit = r.visit
      /\ e.stream = run[r.conv].stream /\ e.revision = run[r.conv].revision
  <2>1. RuntimeReply(r.conv, r.visit) \in PushMessage
    BY <1>1, <1>2 DEF RuntimeReply, PushMessage, RunEntry
  <2>2. [RuntimeReply(r.conv, r.visit) EXCEPT !.stream = 0] =
          [kind |-> "runtime", conv |-> r.conv, visit |-> r.visit, stream |-> 0,
           revision |-> run[r.conv].revision]
    BY DEF RuntimeReply
  <2>3. [RuntimeReply(r.conv, r.visit) EXCEPT !.stream = 0] \in PushMessage
    BY <1>1, <1>2, <2>2, BoundsAreNumbers DEF PushMessage, RunEntry
  <2>4. CASE run[r.conv].task # 0  BY <1>2, <2>2, <2>3, <2>4 DEF getRuntimeState
  <2>5. CASE run[r.conv].task = 0  BY <2>1, <2>5 DEF getRuntimeState, RuntimeReply
  <2> QED  BY <2>4, <2>5
<1>4. pushes' = Append(pushes, e)  BY <1>1, <1>3, PushOne DEF HandleRuntimeState, Push
<1> HIDE DEF e
<1>5. Inv(stored, queued, run, owed, requests, Append(pushes, e))
  <2>1. Truthful(stored, queued, e)  BY <1>2, <1>3 DEF Truthful, Carried
  <2>2. \A d \in Conversations : ~Displaces(stored, e, d, run[d].stream)  BY <1>3 DEF Displaces
  <2> QED  BY <1>1, <1>3, <2>1, <2>2, PushOther
<1>6. Inv(stored, queued, run, owed, Tail(requests), Append(pushes, e))
  BY <1>1, <1>3, <1>5, Replied
<1>7. Inv(stored', queued', run', owed', requests', pushes')
  BY <1>1, <1>4, <1>6 DEF HandleRuntimeState, main
<1> QED  BY <1>7, SameScreen DEF IInv, HandleRuntimeState

LEMMA ReturnControlStep ==
  ASSUME IInv, HandleReturnControl
  PROVE  IInv'
<1> DEFINE r == requests[1]
           c == r.conv
           ru2 == IF run[c].stream = r.stream THEN [run EXCEPT ![c].waiting = FALSE] ELSE run
<1>1. /\ ScreenTypes /\ Inv(stored, queued, run, owed, requests, pushes)
      /\ Types(stored, queued, run, owed, requests, pushes)
      /\ requests \in Seq(Request)
      /\ requests # <<>> /\ Head(requests) = r /\ r \in Request /\ r.kind = "return"
      /\ c \in Conversations /\ requests' = Tail(requests)
  BY FirstRequest DEF HandleReturnControl
<1>2. run' = ru2  BY <1>1 DEF HandleReturnControl
<1>3. /\ ru2 \in [Conversations -> RunEntry]
      /\ \A d \in Conversations : /\ ru2[d].stream = run[d].stream /\ ru2[d].chunks = run[d].chunks
                                  /\ ru2[d].task = run[d].task /\ ru2[d].revision = run[d].revision
  <2>1. run \in [Conversations -> RunEntry]  BY <1>1 DEF Types
  <2>2. [run[c] EXCEPT !.waiting = FALSE] \in RunEntry  BY <1>1, <2>1 DEF RunEntry
  <2> QED  BY <1>1, <2>1, <2>2 DEF RunEntry
<1> HIDE DEF ru2
<1>4. Inv(stored, queued, ru2, owed, requests, pushes)
  <2>1. Types(stored, queued, ru2, owed, requests, pushes)  BY <1>1, <1>3 DEF Types
  <2>2. Places(stored, queued, ru2, owed, requests, pushes)  BY <1>1, <1>3 DEF Inv, Places
  <2>3. NoLessBegun(stored, queued, stored, queued)  BY DEF NoLessBegun
  <2> QED  BY <1>1, <1>3, <2>1, <2>2, <2>3, SameStreams
<1>5. Coming(stored, ru2, owed, Tail(requests), pushes)
  <2>1. Coming(stored, ru2, owed, requests, pushes)  BY <1>4 DEF Inv
  <2> QED  BY <1>1, <2>1, Answered
<1>6. Inv(stored', queued', run', owed', requests', pushes')
  BY <1>1, <1>2, <1>4, <1>5, RequestLeaves DEF HandleReturnControl
<1> QED  BY <1>6, SameScreen DEF IInv, HandleReturnControl

\* The message is refused.
LEMMA Refused ==
  ASSUME IInv, Handling("send")
  PROVE  LET r == requests[1]
         IN Inv(stored, queued, run, owed, Tail(requests), Append(pushes, SentReply(r.n, r.visit, FALSE)))
<1> DEFINE r == requests[1]
           e == SentReply(r.n, r.visit, FALSE)
           Q == Append(pushes, e)
           T == Tail(requests)
<1>1. /\ ScreenTypes /\ Inv(stored, queued, run, owed, requests, pushes)
      /\ Types(stored, queued, run, owed, requests, pushes)
      /\ requests \in Seq(Request) /\ pushes \in Seq(PushMessage)
      /\ requests # <<>> /\ r \in Request /\ r.kind = "send"
      /\ r.conv \in Conversations /\ r.visit \in Nat /\ r.n \in Numbers
  BY FirstRequest, RequestFields
<1>2. /\ e \in PushMessage /\ e.kind = "sent" /\ e.n = r.n /\ e.visit = r.visit /\ e.ok = FALSE
      /\ Carried(e) = {}
  BY <1>1 DEF SentReply, PushMessage, Carried
<1> HIDE DEF e
<1>3. /\ Q \in Seq(PushMessage) /\ Len(pushes) \in Nat /\ Len(Q) = Len(pushes) + 1
      /\ Q[Len(pushes) + 1] = e /\ Len(pushes) + 1 \in 1..Len(Q)
      /\ \A i \in 1..Len(pushes) : Q[i] = pushes[i] /\ pushes[i] \in PushMessage
      /\ \A i \in 1..Len(pushes) : \E j \in 1..Len(Q) : Q[j] = pushes[i]
  <2>1. /\ Q \in Seq(PushMessage) /\ Len(pushes) \in Nat /\ Len(Q) = Len(pushes) + 1
        /\ Q[Len(pushes) + 1] = e
        /\ \A i \in 1..Len(pushes) : Q[i] = pushes[i] /\ pushes[i] \in PushMessage
    BY <1>1, <1>2, AppendFacts
  <2> HIDE DEF Q
  <2> QED  BY <2>1
<1>4. /\ T \in Seq(Request) /\ Len(requests) \in Nat \ {0} /\ Len(T) = Len(requests) - 1
      /\ \A i \in 1..Len(T) : T[i] = requests[i + 1] /\ i + 1 \in 1..Len(requests)
  BY <1>1, TailFacts
<1> HIDE DEF Q, T
<1>5. Wire(stored, queued, run, Q) /\ Screen(stored, queued, run, Q)
  <2>1. Truthful(stored, queued, e)  BY <1>2 DEF Truthful
  <2>2. \A d \in Conversations : ~Displaces(stored, e, d, run[d].stream)  BY <1>2 DEF Displaces
  <2> QED  BY <1>1, <1>2, <2>1, <2>2, PushKeepsScreen DEF Inv, Q
<1>6. Coming(stored, run, owed, T, Q)
  <2>1. OnItsWay(stored, owed, T, Q, r.n, r.conv) \/ r.visit # visit  BY <1>2, <1>3 DEF OnItsWay
  <2>2. Coming(stored, run, owed, requests, pushes)  BY <1>1 DEF Inv
  <2> QED  BY <1>1, <1>3, <2>1, <2>2, Answered DEF T
<1>7. Places(stored, queued, run, owed, T, Q)
  <2>1. \A i \in 1..Len(T) : T[i].kind = "send" =>
          /\ T[i].n <= sends
          /\ \A c \in Conversations : ~Home(stored, T[i].n, c)
          /\ \A j \in 1..Len(T) : T[j].kind = "send" /\ T[j].n = T[i].n => i = j
          /\ T[i].n # r.n
    <3> SUFFICES ASSUME NEW i \in 1..Len(T), T[i].kind = "send"
                 PROVE  /\ T[i].n <= sends
                        /\ \A c \in Conversations : ~Home(stored, T[i].n, c)
                        /\ \A j \in 1..Len(T) : T[j].kind = "send" /\ T[j].n = T[i].n => i = j
                        /\ T[i].n # r.n
      OBVIOUS
    <3>1. requests[i + 1].kind = "send" /\ i + 1 \in 1..Len(requests) /\ T[i] = requests[i + 1]  BY <1>4
    <3>2. /\ T[i].n <= sends
          /\ \A c \in Conversations : ~Home(stored, T[i].n, c)
          /\ \A j \in 1..Len(requests) : requests[j].kind = "send" /\ requests[j].n = T[i].n => i + 1 = j
      BY <1>1, <3>1 DEF Inv, Places
    <3>3. \A j \in 1..Len(T) : T[j].kind = "send" /\ T[j].n = T[i].n => i = j
      <4> SUFFICES ASSUME NEW j \in 1..Len(T), T[j].kind = "send", T[j].n = T[i].n PROVE i = j  OBVIOUS
      <4>1. i + 1 = j + 1  BY <1>4, <3>2
      <4> QED  BY <1>4, <4>1
    <3>4. T[i].n # r.n
      <4>1. 1 \in 1..Len(requests) /\ i + 1 # 1  BY <1>4
      <4> QED  BY <1>1, <3>2, <4>1
    <3> QED  BY <3>2, <3>3, <3>4
  <2>2. r.n <= sends /\ \A c \in Conversations : ~Home(stored, r.n, c)
    BY <1>1, <1>4 DEF Inv, Places
  <2>3. \A k \in 1..Len(Q) : Q[k].kind = "sent" /\ ~Q[k].ok =>
          /\ Q[k].n <= sends
          /\ \A c \in Conversations : ~Home(stored, Q[k].n, c)
          /\ \A i \in 1..Len(T) : T[i].kind = "send" => T[i].n # Q[k].n
    <3> SUFFICES ASSUME NEW k \in 1..Len(Q), Q[k].kind = "sent", ~Q[k].ok
                 PROVE  /\ Q[k].n <= sends
                        /\ \A c \in Conversations : ~Home(stored, Q[k].n, c)
                        /\ \A i \in 1..Len(T) : T[i].kind = "send" => T[i].n # Q[k].n
      OBVIOUS
    <3>1. CASE k = Len(pushes) + 1  BY <1>2, <1>3, <2>1, <2>2, <3>1
    <3>2. CASE k \in 1..Len(pushes)
      <4>1. Q[k] = pushes[k]  BY <1>3, <3>2
      <4>2. /\ Q[k].n <= sends
            /\ \A c \in Conversations : ~Home(stored, Q[k].n, c)
            /\ \A i \in 1..Len(requests) : requests[i].kind = "send" => requests[i].n # Q[k].n
        BY <1>1, <3>2, <4>1 DEF Inv, Places
      <4> QED  BY <1>4, <4>2
    <3> QED  BY <1>3, <3>1, <3>2
  <2> QED  BY <1>1, <2>1, <2>3 DEF Inv, Places
<1>8. Types(stored, queued, run, owed, T, Q)  BY <1>1, <1>3, <1>4 DEF Types
<1> QED  BY <1>5, <1>6, <1>7, <1>8 DEF Inv, Q, T, e

\* The message is stored, queued and owed a reply.
LEMMA Enqueued ==
  ASSUME IInv, Handling("send")
  PROVE  LET r == requests[1]
         IN Inv([stored EXCEPT ![r.conv] = stored[r.conv] \union {User(r.n)}],
                [queued EXCEPT ![r.conv] = queued[r.conv] \union {r.n}], run,
                owed \union {<<r.n, r.visit>>}, Tail(requests), pushes)
<1> DEFINE r == requests[1]
           c == r.conv
           n == r.n
           st2 == [stored EXCEPT ![c] = stored[c] \union {User(n)}]
           qu2 == [queued EXCEPT ![c] = queued[c] \union {n}]
           ow2 == owed \union {<<n, r.visit>>}
           T == Tail(requests)
<1>1. /\ ScreenTypes /\ Inv(stored, queued, run, owed, requests, pushes)
      /\ Types(stored, queued, run, owed, requests, pushes)
      /\ requests \in Seq(Request) /\ pushes \in Seq(PushMessage)
      /\ requests # <<>> /\ r \in Request /\ r.kind = "send"
      /\ c \in Conversations /\ r.visit \in Nat /\ n \in Numbers
  BY FirstRequest, RequestFields
<1>2. /\ T \in Seq(Request) /\ Len(requests) \in Nat \ {0} /\ Len(T) = Len(requests) - 1
      /\ \A i \in 1..Len(T) : T[i] = requests[i + 1] /\ i + 1 \in 1..Len(requests)
  BY <1>1, TailFacts
<1>3. n <= sends /\ \A d \in Conversations : ~Home(stored, n, d)
  BY <1>1, <1>2 DEF Inv, Places
<1>4. /\ stored \in [Conversations -> SUBSET StoredMessages]
      /\ queued \in [Conversations -> SUBSET Numbers] /\ run \in [Conversations -> RunEntry]
      /\ owed \subseteq Numbers \X Nat /\ User(n) \in StoredMessages
  BY <1>1 DEF Types, StoredMessages
<1>5. /\ st2 \in [Conversations -> SUBSET StoredMessages]
      /\ qu2 \in [Conversations -> SUBSET Numbers]
      /\ ow2 \subseteq Numbers \X Nat
      /\ \A d \in Conversations : stored[d] \subseteq st2[d]
      /\ \A d \in Conversations : \A m \in st2[d] : m \in stored[d] \/ (m = User(n) /\ d = c)
      /\ \A d \in Conversations : \A m \in qu2[d] : m \in queued[d] \/ (m = n /\ d = c)
      /\ User(n) \in st2[c]
  BY <1>1, <1>4
<1> HIDE DEF st2, qu2, ow2, T, n, c
<1>6. \A d \in Conversations, m \in Numbers : Home(st2, m, d) <=> Home(stored, m, d) \/ (m = n /\ d = c)
  BY <1>1, <1>5 DEF Home, User
<1>7. \A d \in Conversations, m \in Numbers : Begun(stored, queued, m, d) => m # n /\ Begun(st2, qu2, m, d)
  <2> SUFFICES ASSUME NEW d \in Conversations, NEW m \in Numbers, Begun(stored, queued, m, d)
               PROVE  m # n /\ Begun(st2, qu2, m, d)
    OBVIOUS
  <2>1. m # n  BY <1>3 DEF Begun
  <2> QED  BY <1>5, <1>6, <2>1 DEF Begun
<1>8. OneHome(st2) /\ NoLessBegun(stored, queued, st2, qu2)
  BY <1>1, <1>3, <1>6, <1>7 DEF OneHome, NoLessBegun, Inv, Places
<1>9. Types(st2, qu2, run, ow2, T, pushes)  BY <1>1, <1>2, <1>5 DEF Types
<1>10. Places(st2, qu2, run, ow2, T, pushes)
  <2>1. \A d \in Conversations, m \in Numbers : Home(st2, m, d) => m <= sends
    BY <1>1, <1>3, <1>6 DEF Inv, Places
  <2>2. \A d \in Conversations : \A m \in qu2[d] : Home(st2, m, d)
    BY <1>1, <1>4, <1>5, <1>6 DEF Inv, Places
  <2>3. \A d \in Conversations :
          /\ run[d].stream # 0 => /\ Begun(st2, qu2, run[d].stream, d)
                                  /\ run[d].task = 0 /\ run[d].revision \in {1, 2}
          /\ run[d].task # 0 => Begun(st2, qu2, run[d].task, d)
    BY <1>1, <1>4, <1>7 DEF Inv, Places, RunEntry, Numbers
  <2>4. \A d \in Conversations, m \in Numbers :
          Answer(m) \in st2[d] \/ Failure(m) \in st2[d] =>
            Begun(st2, qu2, m, d) /\ run[d].stream # m /\ run[d].task # m
    <3>1. \A m : Answer(m) # User(n) /\ Failure(m) # User(n)  BY DEF Answer, Failure, User
    <3> QED  BY <1>1, <1>5, <1>7, <3>1 DEF Inv, Places
  <2>5. \A o \in ow2 : \E d \in Conversations : Home(st2, o[1], d)
    <3> SUFFICES ASSUME NEW o \in ow2 PROVE \E d \in Conversations : Home(st2, o[1], d)  OBVIOUS
    <3>1. CASE o \in owed
      <4>1. PICK d \in Conversations : Home(stored, o[1], d)  BY <1>1, <3>1 DEF Inv, Places
      <4>2. Home(st2, o[1], d)  BY <1>5, <4>1 DEF Home
      <4> QED  BY <4>2
    <3>2. CASE o \notin owed
      <4>1. o[1] = n  BY <3>2 DEF ow2
      <4> QED  BY <1>1, <1>5, <4>1 DEF Home
    <3> QED  BY <3>1, <3>2
  <2>6. \A i \in 1..Len(T) : T[i].kind = "send" =>
          /\ T[i].n <= sends
          /\ \A d \in Conversations : ~Home(st2, T[i].n, d)
          /\ \A j \in 1..Len(T) : T[j].kind = "send" /\ T[j].n = T[i].n => i = j
    <3> SUFFICES ASSUME NEW i \in 1..Len(T), T[i].kind = "send"
                 PROVE  /\ T[i].n <= sends
                        /\ \A d \in Conversations : ~Home(st2, T[i].n, d)
                        /\ \A j \in 1..Len(T) : T[j].kind = "send" /\ T[j].n = T[i].n => i = j
      OBVIOUS
    <3>1. requests[i + 1].kind = "send" /\ i + 1 \in 1..Len(requests) /\ T[i] = requests[i + 1]
      BY <1>2
    <3>2. /\ T[i].n <= sends
          /\ \A d \in Conversations : ~Home(stored, T[i].n, d)
          /\ \A j \in 1..Len(requests) : requests[j].kind = "send" /\ requests[j].n = T[i].n => i + 1 = j
      BY <1>1, <3>1 DEF Inv, Places
    <3>3. T[i].n # n /\ T[i].n \in Numbers
      <4>1. requests[i + 1] \in Request  BY <1>1, <3>1
      <4> QED  BY <1>1, <1>2, <3>1, <3>2, <4>1, RequestFields DEF n
    <3> QED  BY <1>2, <1>6, <3>2, <3>3
  <2>7. \A k \in 1..Len(pushes) : pushes[k].kind = "sent" /\ ~pushes[k].ok =>
          /\ pushes[k].n <= sends
          /\ \A d \in Conversations : ~Home(st2, pushes[k].n, d)
          /\ \A i \in 1..Len(T) : T[i].kind = "send" => T[i].n # pushes[k].n
    <3> SUFFICES ASSUME NEW k \in 1..Len(pushes), pushes[k].kind = "sent", ~pushes[k].ok
                 PROVE  /\ pushes[k].n <= sends
                        /\ \A d \in Conversations : ~Home(st2, pushes[k].n, d)
                        /\ \A i \in 1..Len(T) : T[i].kind = "send" => T[i].n # pushes[k].n
      OBVIOUS
    <3>1. /\ pushes[k].n <= sends
          /\ \A d \in Conversations : ~Home(stored, pushes[k].n, d)
          /\ \A i \in 1..Len(requests) : requests[i].kind = "send" => requests[i].n # pushes[k].n
      BY <1>1 DEF Inv, Places
    <3>2. pushes[k].n # n  BY <1>1, <1>2, <3>1 DEF n
    <3>3. pushes[k].n \in Numbers
      <4>1. pushes[k] \in PushMessage  BY <1>1
      <4> QED  BY <4>1, PushFields
    <3> QED  BY <1>2, <1>6, <3>1, <3>2, <3>3
  <2> QED  BY <1>8, <2>1, <2>2, <2>3, <2>4, <2>5, <2>6, <2>7 DEF Places, OneHome
<1>11. Wire(st2, qu2, run, pushes) /\ Screen(st2, qu2, run, pushes)
  <2>1. ~Kept(stored, User(n))  BY <1>3 DEF Kept, Home
  <2>2. \A d \in Conversations : \A m \in st2[d] : m \in stored[d] \/ ~Kept(stored, m)
    BY <1>5, <2>1
  <2>3. \A d \in Conversations : stored[d] \subseteq st2[d] /\ st2[d] \subseteq StoredMessages
    BY <1>5
  <2> QED  BY <1>1, <1>8, <2>2, <2>3, Grow DEF Inv
<1>12. Coming(st2, run, ow2, T, pushes)
  <2>1. owed \subseteq ow2 /\ <<n, r.visit>> \in ow2  BY DEF ow2
  <2>2. r.visit = visit => OnItsWay(st2, ow2, T, pushes, n, c)  BY <1>5, <2>1 DEF OnItsWay, Home
  <2>3. \A i \in 1..Len(pushes) : \E j \in 1..Len(pushes) : pushes[j] = pushes[i]  OBVIOUS
  <2>4. Coming(stored, run, owed, requests, pushes)  BY <1>1 DEF Inv
  <2> QED  BY <1>1, <1>5, <2>1, <2>2, <2>3, <2>4, Answered DEF T, n, c
<1> QED  BY <1>9, <1>10, <1>11, <1>12 DEF Inv, st2, qu2, ow2, T, n, c

LEMMA SendRequestStep ==
  ASSUME IInv, HandleSend
  PROVE  IInv'
<1> DEFINE r == requests[1]
           c == r.conv
           e == SentReply(r.n, r.visit, FALSE)
           st == stored[c] \union {User(r.n)}
           q == queued[c] \union {r.n}
           ow2 == owed \union {<<r.n, r.visit>>}
<1>1. /\ ScreenTypes /\ Types(stored, queued, run, owed, requests, pushes)
      /\ requests # <<>> /\ Head(requests) = r /\ r \in Request /\ r.kind = "send"
      /\ c \in Conversations /\ r.visit \in Nat /\ r.n \in Numbers /\ requests' = Tail(requests)
  BY FirstRequest, RequestFields DEF HandleSend
<1>2. Handling("send") /\ UNCHANGED <<sends, visit, mounted, shown>>  BY DEF HandleSend
<1>3. CASE Push(<<e>>) /\ UNCHANGED main
  <2>1. e \in PushMessage  BY <1>1 DEF SentReply, PushMessage
  <2>2. pushes' = Append(pushes, e)  BY <1>1, <1>3, <2>1, PushOne DEF Push
  <2>3. Inv(stored', queued', run', owed', requests', pushes')
    BY <1>1, <1>2, <1>3, <2>2, Refused DEF main
  <2> QED  BY <1>2, <2>3, SameScreen DEF IInv
<1>4. CASE owed' = ow2 /\ Idle(c) /\ processNext(c, st, q, <<>>)
  <2>1. [run EXCEPT ![c] = NoRun] = run /\ pushes \o <<>> = pushes  BY <1>1, <1>4 DEF Types, Idle
  <2>2. Inv([stored EXCEPT ![c] = st], [queued EXCEPT ![c] = q], [run EXCEPT ![c] = NoRun], ow2,
            Tail(requests), pushes \o <<>>)
    BY <1>2, <2>1, Enqueued
  <2>3. <<>> \in Seq(PushMessage)  OBVIOUS
  <2> HIDE DEF st, q, ow2
  <2>4. Inv(stored', queued', run', ow2, Tail(requests), pushes')
    BY <1>1, <1>4, <2>2, <2>3, ProcessNextKeeps
  <2> QED  BY <1>1, <1>2, <1>4, <2>4, SameScreen DEF IInv
<1>5. CASE /\ owed' = ow2 /\ stored' = [stored EXCEPT ![c] = st]
           /\ queued' = [queued EXCEPT ![c] = q] /\ UNCHANGED <<run, pushes>>
  <2>1. Inv(stored', queued', run', owed', requests', pushes')
    BY <1>1, <1>2, <1>5, Enqueued
  <2> QED  BY <1>2, <2>1, SameScreen DEF IInv
<1> QED  BY <1>1, <1>3, <1>4, <1>5 DEF HandleSend

LEMMA ReplyStep ==
  ASSUME NEW o \in owed, IInv, ReplyToSend(o)
  PROVE  IInv'
<1> DEFINE e == SentReply(o[1], o[2], TRUE)
           ow2 == owed \ {o}
           Q == Append(pushes, e)
<1>1. ScreenTypes /\ Inv(stored, queued, run, owed, requests, pushes)
      /\ Types(stored, queued, run, owed, requests, pushes)
      /\ o[1] \in Numbers /\ o[2] \in Nat /\ o = <<o[1], o[2]>>
  BY DEF IInv, Inv, Types
<1>2. /\ e \in PushMessage /\ e.kind = "sent" /\ e.n = o[1] /\ e.visit = o[2] /\ e.ok = TRUE
      /\ Carried(e) = {User(o[1])}
  BY <1>1 DEF SentReply, PushMessage, Carried
<1>3. pushes' = Q  BY <1>1, <1>2, PushOne DEF ReplyToSend, Push
<1> HIDE DEF e
<1>4. /\ Len(pushes) \in Nat /\ Len(Q) = Len(pushes) + 1 /\ Q[Len(pushes) + 1] = e
  BY <1>1, <1>2, AppendFacts DEF Types
<1> HIDE DEF Q
<1>5. Inv(stored, queued, run, owed, requests, Q)
  <2>1. Kept(stored, User(o[1]))  BY <1>1 DEF Inv, Places, Kept, Home
  <2>2. Truthful(stored, queued, e)  BY <1>2, <2>1 DEF Truthful
  <2>3. \A d \in Conversations : ~Displaces(stored, e, d, run[d].stream)  BY <1>2 DEF Displaces
  <2> QED  BY <1>1, <1>2, <2>2, <2>3, PushOther DEF Q
<1>6. Inv(stored, queued, run, ow2, requests, Q)
  <2>1. Types(stored, queued, run, ow2, requests, Q)  BY <1>5 DEF Inv, Types
  <2>2. Places(stored, queued, run, ow2, requests, Q)  BY <1>5 DEF Inv, Places
  <2>3. \A n \in Numbers, c \in Conversations :
          OnItsWay(stored, owed, requests, Q, n, c) => OnItsWay(stored, ow2, requests, Q, n, c)
    <3> SUFFICES ASSUME NEW n \in Numbers, NEW c \in Conversations, <<n, visit>> \in owed, Home(stored, n, c)
                 PROVE  OnItsWay(stored, ow2, requests, Q, n, c)
      BY DEF OnItsWay
    <3>1. CASE <<n, visit>> \in ow2  BY <3>1 DEF OnItsWay
    <3>2. CASE <<n, visit>> = o
      <4>1. o[1] = n /\ o[2] = visit  BY <3>2
      <4>2. Len(pushes) + 1 \in 1..Len(Q)  BY <1>4
      <4> QED  BY <1>2, <1>4, <4>1, <4>2 DEF OnItsWay
    <3> QED  BY <3>1, <3>2
  <2>4. \A m : active # None /\ Fits(stored, owed, requests, Q, m, active) =>
                 Fits(stored, ow2, requests, Q, m, active)
    BY <1>1, <2>3 DEF Fits, ScreenTypes
  <2>5. Coming(stored, run, ow2, requests, Q)  BY <1>5, <2>4 DEF Inv, Coming, ListIsComing
  <2> QED  BY <1>5, <2>1, <2>2, <2>5 DEF Inv
<1>7. Inv(stored', queued', run', owed', requests', pushes')  BY <1>3, <1>6 DEF ReplyToSend
<1> QED  BY <1>7, SameScreen DEF IInv, ReplyToSend

-----------------------------------------------------------------------------
(* The actions of the user keep the invariant.                             *)

LEMMA SameWire ==
  ASSUME UNCHANGED <<main, pushes>>, Wire(stored, queued, run, pushes)
  PROVE  Wire(stored, queued, run, pushes)'
<1>1. Wire(stored', queued', run', pushes')  BY DEF main
<1> QED  BY <1>1, PrimedWire

\* Requests are added to those under way.
LEMMA MoreRequests ==
  ASSUME NEW st, NEW ru, NEW ow, NEW rq, NEW P, NEW rq2, ScreenTypes,
         \A i \in 1..Len(rq) : i \in 1..Len(rq2) /\ rq2[i] = rq[i],
         Coming(st, ru, ow, rq, P)
  PROVE  Coming(st, ru, ow, rq2, P)
<1>1. \A n \in Numbers, c \in Conversations : OnItsWay(st, ow, rq, P, n, c) => OnItsWay(st, ow, rq2, P, n, c)
  BY DEF OnItsWay
<1>2. \A m : active # None /\ Fits(st, ow, rq, P, m, active) => Fits(st, ow, rq2, P, m, active)
  BY <1>1 DEF Fits, ScreenTypes
<1>3. RunIsComing(ru, rq2, P)  BY DEF Coming, RunIsComing
<1>4. ListIsComing(st, ow, rq2, P)  BY <1>2 DEF Coming, ListIsComing
<1> QED  BY <1>3, <1>4 DEF Coming

\* Requests are added; the one that sends a message is the first of them, and its number is new.
LEMMA AskedPlaces ==
  ASSUME UNCHANGED <<main, pushes>>, ScreenTypes, Inv(stored, queued, run, owed, requests, pushes),
         sends' \in Nat, sends <= sends', requests' \in Seq(Request),
         Len(requests) <= Len(requests'),
         \A i \in 1..Len(requests) : requests'[i] = requests[i],
         \A i \in Len(requests)+1..Len(requests') : requests'[i].kind = "send" =>
            i = Len(requests) + 1 /\ requests'[i].n = sends + 1 /\ sends' = sends + 1
  PROVE  /\ Types(stored, queued, run, owed, requests, pushes)'
         /\ Places(stored, queued, run, owed, requests, pushes)'
         /\ Wire(stored, queued, run, pushes)'
<1>1. /\ Types(stored, queued, run, owed, requests, pushes)
      /\ Places(stored, queued, run, owed, requests, pushes)
      /\ Wire(stored, queued, run, pushes)
  BY DEF Inv
<1>2. /\ stored' = stored /\ queued' = queued /\ run' = run /\ owed' = owed /\ pushes' = pushes
      /\ sends \in Nat /\ Len(requests) \in Nat /\ Len(requests') \in Nat
  BY <1>1 DEF main, ScreenTypes, Types
<1>3. Types(stored, queued, run, owed, requests, pushes)'  BY <1>1, <1>2 DEF Types
<1>4. \A c \in Conversations, n \in Numbers : Home(stored, n, c) => n <= sends /\ n # sends + 1
  BY <1>1, <1>2 DEF Places, Numbers
<1>5. \A i \in 1..Len(requests') : requests'[i].kind = "send" =>
        /\ requests'[i].n <= sends'
        /\ \A c \in Conversations : ~Home(stored, requests'[i].n, c)
        /\ \A j \in 1..Len(requests') : requests'[j].kind = "send" /\ requests'[j].n = requests'[i].n => i = j
  <2> SUFFICES ASSUME NEW i \in 1..Len(requests'), requests'[i].kind = "send"
               PROVE  /\ requests'[i].n <= sends'
                      /\ \A c \in Conversations : ~Home(stored, requests'[i].n, c)
                      /\ \A j \in 1..Len(requests') :
                           requests'[j].kind = "send" /\ requests'[j].n = requests'[i].n => i = j
    OBVIOUS
  <2>0. \A j \in 1..Len(requests') : requests'[j].kind = "send" => requests'[j].n \in Numbers
    <3> SUFFICES ASSUME NEW j \in 1..Len(requests'), requests'[j].kind = "send"
                 PROVE  requests'[j].n \in Numbers
      OBVIOUS
    <3>1. requests'[j] \in Request  OBVIOUS
    <3> QED  BY <3>1, RequestFields
  <2>1. \A j \in 1..Len(requests) : requests[j].kind = "send" =>
          /\ requests'[j] = requests[j] /\ requests[j].n <= sends /\ requests[j].n \in Numbers
          /\ \A c \in Conversations : ~Home(stored, requests[j].n, c)
          /\ \A k \in 1..Len(requests) : requests[k].kind = "send" /\ requests[k].n = requests[j].n => j = k
    BY <1>1, <1>2, <2>0 DEF Places
  <2>2. \A j \in 1..Len(requests') : j \in 1..Len(requests) \/ j \in Len(requests)+1..Len(requests')
    BY <1>2
  <2>3. CASE i \in 1..Len(requests)
    <3>1. \A j \in Len(requests)+1..Len(requests') : requests'[j].kind = "send" => requests'[j].n # requests'[i].n
      BY <1>2, <2>1, <2>3 DEF Numbers
    <3> QED  BY <1>2, <2>1, <2>2, <2>3, <3>1 DEF Numbers
  <2>4. CASE i \in Len(requests)+1..Len(requests')
    <3>1. requests'[i].n = sends + 1 /\ sends' = sends + 1 /\ i = Len(requests) + 1  BY <2>4
    <3>2. \A j \in 1..Len(requests) : requests'[j].kind = "send" => requests'[j].n # requests'[i].n
      BY <1>2, <2>1, <3>1 DEF Numbers
    <3>3. \A c \in Conversations : ~Home(stored, requests'[i].n, c)
      BY <1>4, <2>0, <3>1
    <3> QED  BY <1>2, <2>2, <3>1, <3>2, <3>3
  <2> QED  BY <2>2, <2>3, <2>4
<1>6. \A k \in 1..Len(pushes) : pushes[k].kind = "sent" /\ ~pushes[k].ok =>
        /\ pushes[k].n <= sends'
        /\ \A c \in Conversations : ~Home(stored, pushes[k].n, c)
        /\ \A i \in 1..Len(requests') : requests'[i].kind = "send" => requests'[i].n # pushes[k].n
  <2> SUFFICES ASSUME NEW k \in 1..Len(pushes), pushes[k].kind = "sent", ~pushes[k].ok
               PROVE  /\ pushes[k].n <= sends'
                      /\ \A c \in Conversations : ~Home(stored, pushes[k].n, c)
                      /\ \A i \in 1..Len(requests') : requests'[i].kind = "send" => requests'[i].n # pushes[k].n
    OBVIOUS
  <2>1. pushes[k].n \in Numbers
    <3>1. pushes[k] \in PushMessage  BY <1>1 DEF Types
    <3> QED  BY <3>1, PushFields
  <2>2. /\ pushes[k].n <= sends
        /\ \A c \in Conversations : ~Home(stored, pushes[k].n, c)
        /\ \A i \in 1..Len(requests) : requests[i].kind = "send" => requests[i].n # pushes[k].n
    BY <1>1 DEF Places
  <2>3. \A i \in 1..Len(requests') : i \in 1..Len(requests) \/ i \in Len(requests)+1..Len(requests')
    BY <1>2
  <2>4. \A i \in 1..Len(requests') : requests'[i].kind = "send" => requests'[i].n # pushes[k].n
    <3> SUFFICES ASSUME NEW i \in 1..Len(requests'), requests'[i].kind = "send"
                 PROVE  requests'[i].n # pushes[k].n
      OBVIOUS
    <3>1. CASE i \in 1..Len(requests)  BY <2>2, <3>1
    <3>2. CASE i \in Len(requests)+1..Len(requests')  BY <1>2, <2>1, <2>2, <3>2 DEF Numbers
    <3> QED  BY <2>3, <3>1, <3>2
  <2>5. pushes[k].n <= sends'  BY <1>2, <2>1, <2>2 DEF Numbers
  <2> QED  BY <2>2, <2>4, <2>5
<1>7. Places(stored, queued, run, owed, requests, pushes)'
  BY <1>1, <1>2, <1>4, <1>5, <1>6 DEF Places, Home, Begun, Numbers
<1>8. Wire(stored, queued, run, pushes)'  BY <1>1, SameWire
<1> QED  BY <1>3, <1>7, <1>8

\* The screen does not change but in what it may ask.
LEMMA MountStep ==
  ASSUME IInv, Mount
  PROVE  IInv'
<1>1. ScreenTypes /\ ScreenIsOpen /\ Inv(stored, queued, run, owed, requests, pushes)  BY DEF IInv
<1>2. /\ UNCHANGED <<main, pushes>> /\ requests' = requests /\ sends' = sends
      /\ mounted' = TRUE /\ visit' = visit + 1
      /\ active' = active /\ messages' = messages /\ streaming' = streaming /\ streamConv' = streamConv
      /\ banner' = banner /\ hydrated' = hydrated /\ sending' = sending /\ started' = started
  BY DEF Mount, shown
<1>3. Blank  BY <1>1 DEF Mount, ScreenIsOpen
<1>4. ScreenTypes' /\ ScreenIsOpen'  BY <1>1, <1>2 DEF ScreenTypes, ScreenIsOpen
<1>5. /\ Types(stored, queued, run, owed, requests, pushes)'
      /\ Places(stored, queued, run, owed, requests, pushes)'
      /\ Wire(stored, queued, run, pushes)'
  <2>1. requests \in Seq(Request) /\ sends \in Nat  BY <1>1 DEF Inv, Types, ScreenTypes
  <2> QED  BY <1>1, <1>2, <2>1, AskedPlaces
<1>6. Screen(stored, queued, run, pushes)'
  BY <1>2, <1>3 DEF Blank, Screen, Known, ListsReplace, NoGhost, RevisionSeen, StartedIsLive, TextFollows
<1>7. Coming(stored, run, owed, requests, pushes)'
  BY <1>2, <1>3 DEF Blank, Coming, RunIsComing, ListIsComing
<1> QED  BY <1>4, <1>5, <1>6, <1>7 DEF IInv, Inv

LEMMA UnmountStep ==
  ASSUME IInv, Unmount
  PROVE  IInv'
<1>1. ScreenTypes /\ Inv(stored, queued, run, owed, requests, pushes)  BY DEF IInv
<1>2. /\ UNCHANGED <<main, pushes>> /\ requests' = requests /\ sends' = sends
      /\ mounted' = FALSE /\ visit' = visit /\ EmptyScreen
  BY DEF Unmount
<1>3. Blank'  BY <1>2 DEF Blank, EmptyScreen, NoStream
<1>4. ScreenTypes' /\ ScreenIsOpen'
  <2>1. 0 \in 0..MaxSends /\ [stream |-> 0, text |-> 0] \in [stream : 0..MaxSends, text : Int]
    BY BoundsAreNumbers
  <2> QED  BY <1>1, <1>2, <1>3, <2>1 DEF ScreenTypes, ScreenIsOpen, EmptyScreen, NoStream, Blank
<1>5. /\ Types(stored, queued, run, owed, requests, pushes)'
      /\ Places(stored, queued, run, owed, requests, pushes)'
      /\ Wire(stored, queued, run, pushes)'
  <2>1. requests \in Seq(Request) /\ sends \in Nat  BY <1>1 DEF Inv, Types, ScreenTypes
  <2> QED  BY <1>1, <1>2, <2>1, AskedPlaces
<1>6. Screen(stored, queued, run, pushes)'
  BY <1>3 DEF Blank, Screen, Known, ListsReplace, NoGhost, RevisionSeen, StartedIsLive, TextFollows
<1>7. Coming(stored, run, owed, requests, pushes)'
  BY <1>3 DEF Blank, Coming, RunIsComing, ListIsComing
<1> QED  BY <1>4, <1>5, <1>6, <1>7 DEF IInv, Inv

LEMMA NewStep ==
  ASSUME IInv, handleNewConversation
  PROVE  IInv'
<1>1. ScreenTypes /\ ScreenIsOpen /\ Inv(stored, queued, run, owed, requests, pushes)  BY DEF IInv
<1>2. /\ UNCHANGED <<main, pushes>> /\ requests' = requests /\ sends' = sends
      /\ mounted' = mounted /\ mounted /\ visit' = visit
      /\ active' = None /\ messages' = {} /\ streaming' = streaming /\ streamConv' = streamConv
      /\ banner' = banner /\ hydrated' = hydrated /\ sending' = sending /\ started' = started
      /\ stored' = stored /\ queued' = queued /\ run' = run /\ pushes' = pushes
  BY DEF handleNewConversation, main
<1>3. ScreenTypes' /\ ScreenIsOpen'  BY <1>1, <1>2 DEF ScreenTypes, ScreenIsOpen
<1>4. /\ Types(stored, queued, run, owed, requests, pushes)'
      /\ Places(stored, queued, run, owed, requests, pushes)'
      /\ Wire(stored, queued, run, pushes)'
  <2>1. requests \in Seq(Request) /\ sends \in Nat  BY <1>1 DEF Inv, Types, ScreenTypes
  <2> QED  BY <1>1, <1>2, <2>1, AskedPlaces
<1>5. Screen(stored, queued, run, pushes)'
  BY <1>1, <1>2 DEF Inv, Screen, Known, ListsReplace, NoGhost, RevisionSeen, StartedIsLive, TextFollows,
                    Seen, Ends, Starts, Chunks, Pending, Home, Begun
<1>6. Coming(stored, run, owed, requests, pushes)'
  BY <1>2 DEF Coming, RunIsComing, ListIsComing
<1> QED  BY <1>3, <1>4, <1>5, <1>6 DEF IInv, Inv

LEMMA AskFacts ==
  ASSUME NEW rs \in Seq(Request), Types(stored, queued, run, owed, requests, pushes), Ask(rs)
  PROVE  /\ requests' \in Seq(Request) /\ Len(requests) \in Nat
         /\ Len(requests') = Len(requests) + Len(rs) /\ Len(rs) \in Nat
         /\ \A i \in 1..Len(requests) : requests'[i] = requests[i]
         /\ \A i \in 1..Len(rs) : requests'[Len(requests) + i] = rs[i]
  BY DEF Ask, Types

LEMMA SelectStep ==
  ASSUME NEW c \in Conversations, IInv, handleSelectConversation(c)
  PROVE  IInv'
<1> DEFINE rs == <<MessagesRequest(c), RuntimeRequest(c)>>
<1>1. ScreenTypes /\ ScreenIsOpen /\ Inv(stored, queued, run, owed, requests, pushes)
      /\ Types(stored, queued, run, owed, requests, pushes)
  BY DEF IInv, Inv
<1>2. /\ UNCHANGED <<main, pushes>> /\ Ask(rs) /\ sends' = sends
      /\ mounted' = mounted /\ mounted /\ visit' = visit
      /\ active' = c /\ messages' = messages /\ streaming' = streaming /\ streamConv' = streamConv
      /\ banner' = banner /\ hydrated' = [conv |-> c, revision |-> -1] /\ sending' = sending /\ started' = {}
      /\ stored' = stored /\ queued' = queued /\ run' = run /\ pushes' = pushes /\ c # None
  BY NoneIsNoConversation DEF handleSelectConversation, hydrate, MayAsk, main
<1>3. /\ rs \in Seq(Request) /\ Len(rs) = 2
      /\ rs[1].kind = "messages" /\ rs[1].conv = c /\ rs[1].visit = visit
      /\ rs[2].kind = "runtime" /\ rs[2].conv = c /\ rs[2].visit = visit
  BY <1>1 DEF MessagesRequest, RuntimeRequest, Request, ScreenTypes
<1> HIDE DEF rs
<1>4. /\ requests' \in Seq(Request) /\ Len(requests) \in Nat /\ Len(requests') = Len(requests) + 2
      /\ \A i \in 1..Len(requests) : requests'[i] = requests[i]
      /\ requests'[Len(requests) + 1] = rs[1] /\ requests'[Len(requests) + 2] = rs[2]
  <2>1. /\ requests' \in Seq(Request) /\ Len(requests) \in Nat /\ Len(requests') = Len(requests) + 2
        /\ \A i \in 1..Len(requests) : requests'[i] = requests[i]
        /\ \A i \in 1..2 : requests'[Len(requests) + i] = rs[i]
    BY <1>1, <1>2, <1>3, AskFacts
  <2> QED  BY <2>1
<1>5. ScreenTypes' /\ ScreenIsOpen'
  BY <1>1, <1>2 DEF ScreenTypes, ScreenIsOpen, LiveEvent
<1>6. /\ Types(stored, queued, run, owed, requests, pushes)'
      /\ Places(stored, queued, run, owed, requests, pushes)'
      /\ Wire(stored, queued, run, pushes)'
  <2>1. \A i \in Len(requests)+1..Len(requests') : requests'[i].kind # "send"
    BY <1>3, <1>4
  <2>2. sends \in Nat  BY <1>1 DEF ScreenTypes
  <2> QED  BY <1>1, <1>2, <1>4, <2>1, <2>2, AskedPlaces
<1>7. Screen(stored, queued, run, pushes)'
  BY <1>1, <1>2 DEF Inv, Screen, Known, ListsReplace, NoGhost, RevisionSeen, StartedIsLive, TextFollows,
                    Kept, Ends, Home, Begun
<1>8. Coming(stored, run, owed, requests, pushes)'
  <2>1. Len(requests) + 1 \in 1..Len(requests') /\ Len(requests) + 2 \in 1..Len(requests')  BY <1>4
  <2>2. RunIsComing(run, requests, pushes)'
    BY <1>2, <1>3, <1>4, <2>1 DEF RunIsComing
  <2>3. ListIsComing(stored, owed, requests, pushes)'
    BY <1>2, <1>3, <1>4, <2>1 DEF ListIsComing
  <2> QED  BY <2>2, <2>3 DEF Coming
<1> QED  BY <1>5, <1>6, <1>7, <1>8 DEF IInv, Inv

LEMMA ReturnStep ==
  ASSUME IInv, returnBrowserControl
  PROVE  IInv'
<1> DEFINE rs == <<ReturnRequest(active)>>
<1>1. ScreenTypes /\ ScreenIsOpen /\ Inv(stored, queued, run, owed, requests, pushes)
      /\ Types(stored, queued, run, owed, requests, pushes)
  BY DEF IInv, Inv
<1>2. /\ UNCHANGED <<main, pushes>> /\ Ask(rs) /\ sends' = sends
      /\ mounted' = mounted /\ mounted /\ visit' = visit
      /\ active' = active /\ messages' = messages /\ streaming' = streaming /\ streamConv' = streamConv
      /\ banner' = [banner EXCEPT ![active] = 0] /\ hydrated' = hydrated /\ sending' = sending /\ started' = started
      /\ stored' = stored /\ queued' = queued /\ run' = run /\ pushes' = pushes /\ owed' = owed
      /\ active \in Conversations
  BY <1>1 DEF returnBrowserControl, MayAsk, BannerIsVisible, main, ScreenTypes
<1>3. rs \in Seq(Request) /\ Len(rs) = 1 /\ rs[1].kind = "return"
  BY <1>1, <1>2 DEF ReturnRequest, Request, ScreenTypes
<1> HIDE DEF rs
<1>4. /\ requests' \in Seq(Request) /\ Len(requests) \in Nat /\ Len(requests') = Len(requests) + 1
      /\ \A i \in 1..Len(requests) : requests'[i] = requests[i]
      /\ requests'[Len(requests) + 1] = rs[1]
  BY <1>1, <1>2, <1>3, AskFacts
<1>5. ScreenTypes' /\ ScreenIsOpen'
  <2>1. 0 \in 0..MaxSends  BY BoundsAreNumbers
  <2>2. banner' \in [Conversations -> 0..MaxSends]  BY <1>1, <1>2, <2>1 DEF ScreenTypes
  <2> QED  BY <1>1, <1>2, <2>2 DEF ScreenTypes, ScreenIsOpen, Blank
<1>6. /\ Types(stored, queued, run, owed, requests, pushes)'
      /\ Places(stored, queued, run, owed, requests, pushes)'
      /\ Wire(stored, queued, run, pushes)'
  <2>1. \A i \in Len(requests)+1..Len(requests') : requests'[i].kind # "send"
    BY <1>3, <1>4
  <2>2. sends \in Nat  BY <1>1 DEF ScreenTypes
  <2> QED  BY <1>1, <1>2, <1>4, <2>1, <2>2, AskedPlaces
<1>7. Screen(stored, queued, run, pushes)'
  BY <1>1, <1>2 DEF Inv, Screen, Known, ListsReplace, NoGhost, RevisionSeen, StartedIsLive, TextFollows,
                    Seen, Kept, Ends, Starts, Chunks, Pending, Home, Begun
<1>8. Coming(stored, run, owed, requests, pushes)'
  <2>1. \A i \in 1..Len(requests) : i \in 1..Len(requests') /\ requests'[i] = requests[i]  BY <1>4
  <2>2. Coming(stored, run, owed, requests', pushes)  BY <1>1, <2>1, MoreRequests DEF Inv
  <2>3. Coming(stored', run', owed', requests', pushes')  BY <1>2, <2>2
  <2> QED  BY <1>2, <2>3, PrimedComing
<1> QED  BY <1>5, <1>6, <1>7, <1>8 DEF IInv, Inv

LEMMA SendStep ==
  ASSUME NEW c \in Conversations, IInv, handleSend(c)
  PROVE  IInv'
<1> DEFINE n == sends + 1
           opened == active = None
<1>1. ScreenTypes /\ ScreenIsOpen /\ Inv(stored, queued, run, owed, requests, pushes)
      /\ Types(stored, queued, run, owed, requests, pushes)
  BY DEF IInv, Inv
<1>2. /\ UNCHANGED <<main, pushes>> /\ sends' = n /\ n \in Numbers /\ n \in 0..MaxSends
      /\ mounted' = mounted /\ mounted /\ visit' = visit /\ visit \in Nat
      /\ messages' = messages \union {Optimistic(n)} /\ streaming' = streaming /\ streamConv' = streamConv
      /\ banner' = banner /\ sending' = [n |-> n, new |-> active = None]
      /\ stored' = stored /\ queued' = queued /\ run' = run /\ pushes' = pushes /\ owed' = owed
      /\ c # None /\ active' = c
  BY <1>1, BoundsAreNumbers, NoneIsNoConversation
     DEF handleSend, hydrate, MayAsk, main, ScreenTypes, Numbers
<1>3. \/ /\ active = None /\ hydrated' = [conv |-> c, revision |-> -1] /\ started' = {}
         /\ Ask(<<SendRequest(c, n), MessagesRequest(c), RuntimeRequest(c)>>)
      \/ /\ active = c /\ hydrated' = hydrated /\ started' = started
         /\ Ask(<<SendRequest(c, n)>>)
  BY NoneIsNoConversation DEF handleSend, hydrate
<1>4. /\ SendRequest(c, n) \in Request /\ MessagesRequest(c) \in Request /\ RuntimeRequest(c) \in Request
  BY <1>2 DEF MessagesRequest, RuntimeRequest, SendRequest, Request
<1>5. /\ requests' \in Seq(Request) /\ Len(requests) \in Nat
      /\ \A i \in 1..Len(requests) : requests'[i] = requests[i]
      /\ requests'[Len(requests) + 1] = SendRequest(c, n)
      /\ \/ /\ active = None /\ Len(requests') = Len(requests) + 3
            /\ requests'[Len(requests) + 2] = MessagesRequest(c)
            /\ requests'[Len(requests) + 3] = RuntimeRequest(c)
         \/ /\ active = c /\ Len(requests') = Len(requests) + 1
  <2>1. CASE active = None /\ Ask(<<SendRequest(c, n), MessagesRequest(c), RuntimeRequest(c)>>)
    <3> DEFINE rs == <<SendRequest(c, n), MessagesRequest(c), RuntimeRequest(c)>>
    <3>1. rs \in Seq(Request) /\ Len(rs) = 3 /\ rs[1] = SendRequest(c, n)
          /\ rs[2] = MessagesRequest(c) /\ rs[3] = RuntimeRequest(c)
      BY <1>4
    <3> HIDE DEF rs
    <3>2. /\ requests' \in Seq(Request) /\ Len(requests) \in Nat /\ Len(requests') = Len(requests) + 3
          /\ \A i \in 1..Len(requests) : requests'[i] = requests[i]
          /\ \A i \in 1..3 : requests'[Len(requests) + i] = rs[i]
      <4>1. Ask(rs)  BY <2>1 DEF rs
      <4> QED  BY <1>1, <3>1, <4>1, AskFacts
    <3> QED  BY <2>1, <3>1, <3>2
  <2>2. CASE active = c /\ Ask(<<SendRequest(c, n)>>)
    <3> DEFINE rs == <<SendRequest(c, n)>>
    <3>1. rs \in Seq(Request) /\ Len(rs) = 1 /\ rs[1] = SendRequest(c, n)
      BY <1>4
    <3> HIDE DEF rs
    <3>2. /\ requests' \in Seq(Request) /\ Len(requests) \in Nat /\ Len(requests') = Len(requests) + 1
          /\ \A i \in 1..Len(requests) : requests'[i] = requests[i]
          /\ \A i \in 1..1 : requests'[Len(requests) + i] = rs[i]
      <4>1. Ask(rs)  BY <2>2 DEF rs
      <4> QED  BY <1>1, <3>1, <4>1, AskFacts
    <3> QED  BY <2>2, <3>1, <3>2
  <2> QED  BY <1>3, <2>1, <2>2
<1>6. /\ SendRequest(c, n).kind = "send" /\ SendRequest(c, n).n = n /\ SendRequest(c, n).conv = c
      /\ SendRequest(c, n).visit = visit
      /\ MessagesRequest(c).kind = "messages" /\ MessagesRequest(c).conv = c /\ MessagesRequest(c).visit = visit
      /\ RuntimeRequest(c).kind = "runtime" /\ RuntimeRequest(c).conv = c /\ RuntimeRequest(c).visit = visit
  BY DEF SendRequest, MessagesRequest, RuntimeRequest
<1> HIDE DEF n
<1>7. ScreenTypes' /\ ScreenIsOpen'
  <2>1. Optimistic(n) \in ShownMessages  BY <1>2 DEF ShownMessages
  <2>2. hydrated' \in [conv : Conversations \union {None}, revision : {-1, 1, 2, LiveEvent}]
    BY <1>1, <1>3 DEF ScreenTypes
  <2>3. hydrated'.conv = c  BY <1>1, <1>2, <1>3 DEF ScreenIsOpen
  <2>4. sending' \in [n : 0..MaxSends, new : BOOLEAN]  BY <1>2
  <2>5. started' \subseteq Numbers /\ messages' \subseteq ShownMessages
    BY <1>1, <1>2, <1>3, <2>1 DEF ScreenTypes
  <2> QED  BY <1>1, <1>2, <2>2, <2>3, <2>4, <2>5 DEF ScreenTypes, ScreenIsOpen
<1>8. /\ Types(stored, queued, run, owed, requests, pushes)'
      /\ Places(stored, queued, run, owed, requests, pushes)'
      /\ Wire(stored, queued, run, pushes)'
  <2>1. \A i \in Len(requests)+1..Len(requests') : requests'[i].kind = "send" =>
           i = Len(requests) + 1 /\ requests'[i].n = sends + 1
    BY <1>5, <1>6 DEF n
  <2>2. sends \in Nat /\ sends' = sends + 1  BY <1>1, <1>2 DEF ScreenTypes, n
  <2>3. Len(requests) <= Len(requests')  BY <1>5
  <2> QED  BY <1>1, <1>2, <1>5, <2>1, <2>2, <2>3, AskedPlaces
<1>9. messages' \cap StoredMessages = messages \cap StoredMessages
  <2>1. Optimistic(n) \notin StoredMessages
    BY DEF StoredMessages, Optimistic, User, Answer, Failure, Old
  <2> QED  BY <1>2, <2>1
<1>10. Screen(stored, queued, run, pushes)'
  <2>1. started' \subseteq started  BY <1>3
  <2>2. Known(stored, queued)'
    BY <1>1, <1>2, <1>9, <2>1 DEF Inv, Screen, Known, Kept, Home, Begun
  <2>3. ListsReplace(stored, pushes)'
    <3> SUFFICES ASSUME NEW i \in 1..Len(pushes), pushes[i].kind = "messages",
                        NEW m \in messages', m \in stored[pushes[i].conv]
                 PROVE  m \in pushes[i].msgs
      BY <1>2 DEF ListsReplace
    <3>1. pushes[i].conv \in Conversations
      <4>1. pushes[i] \in PushMessage  BY <1>1 DEF Types
      <4> QED  BY <4>1, PushFields
    <3>2. m \in messages  BY <1>1, <1>9, <3>1 DEF Types
    <3> QED  BY <1>1, <3>2 DEF Inv, Screen, ListsReplace
  <2>4. NoGhost(run, pushes)'
    BY <1>1, <1>2 DEF Inv, Screen, NoGhost, Ends
  <2>5. RevisionSeen(run, pushes)'
    BY <1>1, <1>2, <1>3 DEF Inv, Screen, RevisionSeen, Seen, Starts
  <2>6. StartedIsLive(stored)'
    BY <1>1, <1>2, <1>3 DEF Inv, Screen, StartedIsLive, Home
  <2>7. TextFollows(run, pushes)'
    BY <1>1, <1>2, <2>1 DEF Inv, Screen, TextFollows, Chunks, Pending
  <2> QED  BY <2>2, <2>3, <2>4, <2>5, <2>6, <2>7 DEF Screen
<1>11. Coming(stored, run, owed, requests, pushes)'
  <2>1. \A i \in 1..Len(requests) : i \in 1..Len(requests') /\ requests'[i] = requests[i]  BY <1>5
  <2>2. Coming(stored, run, owed, requests', pushes)  BY <1>1, <2>1, MoreRequests DEF Inv
  <2>3. RunIsComing(run, requests, pushes)'
    <3>1. CASE active = None
      <4>1. Len(requests) + 3 \in 1..Len(requests') /\ requests'[Len(requests) + 3] = RuntimeRequest(c)
        BY <1>2, <1>5, <3>1
      <4> QED  BY <1>2, <1>6, <4>1 DEF RunIsComing
    <3>2. CASE active = c
      BY <1>2, <2>2, <3>2 DEF Coming, RunIsComing, Seen, Starts
    <3> QED  BY <1>3, <3>1, <3>2
  <2>4. ListIsComing(stored, owed, requests, pushes)'
    <3>1. CASE active = None
      <4>1. Len(requests) + 2 \in 1..Len(requests') /\ requests'[Len(requests) + 2] = MessagesRequest(c)
        BY <1>2, <1>5, <3>1
      <4> QED  BY <1>2, <1>6, <4>1 DEF ListIsComing
    <3>2. CASE active = c
      <4>1. Len(requests) + 1 \in 1..Len(requests')  BY <1>5, <2>1
      <4>2. OnItsWay(stored, owed, requests', pushes, n, c)  BY <1>5, <1>6, <4>1 DEF OnItsWay
      <4>3. Fits(stored, owed, requests', pushes, Optimistic(n), c)  BY <1>2, <4>2 DEF Fits
      <4>4. \/ \E i \in 1..Len(requests') : requests'[i].kind = "messages" /\ requests'[i].conv = c /\ requests'[i].visit = visit
            \/ \E i \in 1..Len(pushes) : pushes[i].kind = "messages" /\ pushes[i].conv = c /\ pushes[i].visit = visit
            \/ \A m \in messages' : Fits(stored, owed, requests', pushes, m, c)
        BY <1>2, <2>2, <3>2, <4>3 DEF Coming, ListIsComing
      <4>5. \A m \in messages' : Fits(stored, owed, requests', pushes, m, c) =>
                                 Fits(stored, owed, requests, pushes, m, active)'
        BY <1>2 DEF Fits, OnItsWay, Home
      <4> QED  BY <1>2, <4>4, <4>5 DEF ListIsComing
    <3> QED  BY <1>3, <3>1, <3>2
  <2> QED  BY <2>3, <2>4 DEF Coming
<1> QED  BY <1>7, <1>8, <1>10, <1>11 DEF IInv, Inv

-----------------------------------------------------------------------------
(* What arrives at the screen keeps the invariant.                         *)

LEMMA FirstPush ==
  ASSUME IInv, pushes # <<>>, pushes' = Tail(pushes), UNCHANGED <<main, requests, sends>>
  PROVE  /\ ScreenTypes /\ ScreenIsOpen /\ Inv(stored, queued, run, owed, requests, pushes)
         /\ stored \in [Conversations -> SUBSET StoredMessages] /\ run \in [Conversations -> RunEntry]
         /\ stored' = stored /\ queued' = queued /\ run' = run /\ owed' = owed /\ requests' = requests
         /\ Head(pushes) = pushes[1] /\ pushes[1] \in PushMessage /\ Truthful(stored, queued, pushes[1])
         /\ pushes \in Seq(PushMessage) /\ pushes' \in Seq(PushMessage)
         /\ Len(pushes) \in Nat \ {0} /\ Len(pushes') = Len(pushes) - 1
         /\ \A i \in 1..Len(pushes') : pushes'[i] = pushes[i + 1] /\ i + 1 \in 2..Len(pushes)
         /\ \A i \in 1..Len(pushes) : pushes[i] \in PushMessage
         /\ \A i \in 2..Len(pushes) : i - 1 \in 1..Len(pushes') /\ pushes'[i - 1] = pushes[i]
         /\ Types(stored, queued, run, owed, requests, pushes)'
         /\ Places(stored, queued, run, owed, requests, pushes)'
         /\ Wire(stored, queued, run, pushes)'
<1>1. /\ ScreenTypes /\ ScreenIsOpen /\ Inv(stored, queued, run, owed, requests, pushes)
      /\ Types(stored, queued, run, owed, requests, pushes)
      /\ stored \in [Conversations -> SUBSET StoredMessages] /\ run \in [Conversations -> RunEntry]
      /\ pushes \in Seq(PushMessage)
  BY DEF IInv, Inv, Types
<1>2. /\ stored' = stored /\ queued' = queued /\ run' = run /\ owed' = owed /\ requests' = requests
      /\ sends' = sends
  BY DEF main
<1>3. /\ pushes' \in Seq(PushMessage) /\ Len(pushes') = Len(pushes) - 1 /\ Len(pushes) \in Nat \ {0}
      /\ Head(pushes) = pushes[1] /\ pushes[1] \in PushMessage
      /\ \A i \in 1..Len(pushes) : pushes[i] \in PushMessage
      /\ \A i \in 1..Len(pushes) - 1 : pushes'[i] = pushes[i + 1]
  BY <1>1, TailFacts
<1>4. \A i \in 1..Len(pushes') : pushes'[i] = pushes[i + 1] /\ i + 1 \in 2..Len(pushes)  BY <1>3
<1>5. \A i \in 2..Len(pushes) : i - 1 \in 1..Len(pushes') /\ pushes'[i - 1] = pushes[i]
  <2> SUFFICES ASSUME NEW i \in 2..Len(pushes)
               PROVE  i - 1 \in 1..Len(pushes') /\ pushes'[i - 1] = pushes[i]
    OBVIOUS
  <2>1. i - 1 \in 1..Len(pushes) - 1 /\ (i - 1) + 1 = i  BY <1>3
  <2> QED  BY <1>3, <2>1
<1>6. Types(stored, queued, run, owed, requests, pushes)'  BY <1>1, <1>2, <1>3 DEF Types
<1>7. Wire(stored, queued, run, pushes)'
  <2>1. Wire(stored', queued', run', pushes')  BY <1>1, <1>2, WireTail DEF Inv
  <2> QED  BY <2>1, PrimedWire
<1>8. Places(stored, queued, run, owed, requests, pushes)'
  <2>1. \A k \in 1..Len(pushes') : pushes'[k].kind = "sent" /\ ~pushes'[k].ok =>
          /\ pushes'[k].n <= sends
          /\ \A c \in Conversations : ~Home(stored, pushes'[k].n, c)
          /\ \A i \in 1..Len(requests) : requests[i].kind = "send" => requests[i].n # pushes'[k].n
    BY <1>1, <1>3, <1>4 DEF Inv, Places
  <2>2. Places(stored', queued', run', owed', requests', pushes')
    BY <1>1, <1>2, <2>1 DEF Inv, Places
  <2> QED  BY <1>2, <2>2 DEF Places, Home, Begun
<1>9. Truthful(stored, queued, pushes[1])  BY <1>1, <1>3 DEF Inv, Wire, AllTruthful
<1> QED  BY <1>1, <1>2, <1>3, <1>4, <1>5, <1>6, <1>7, <1>8, <1>9

\* What is seen or fits does so still when another push is read.
LEMMA SeenStays ==
  ASSUME NEW ru, NEW P \in Seq(PushMessage), P # <<>>, NEW c, Seen(ru, P, c),
         ~Starts(P[1], c, ru[c].stream)
  PROVE  Seen(ru, Tail(P), c)
<1>1. \A i \in 1..Len(P) : i # 1 => i - 1 \in 1..Len(Tail(P)) /\ Tail(P)[i - 1] = P[i]
  BY TailFacts
<1> QED  BY <1>1 DEF Seen

LEMMA FitsStays ==
  ASSUME NEW st, NEW ow, NEW rq, NEW P \in Seq(PushMessage), P # <<>>, NEW m, NEW c,
         Fits(st, ow, rq, P, m, c),
         P[1].kind = "sent" /\ P[1].visit = visit => m # Optimistic(P[1].n)
  PROVE  Fits(st, ow, rq, Tail(P), m, c)
<1>1. \A i \in 1..Len(P) : i # 1 => i - 1 \in 1..Len(Tail(P)) /\ Tail(P)[i - 1] = P[i]
  BY TailFacts
<1> SUFFICES ASSUME NEW n \in Numbers, m = Optimistic(n), OnItsWay(st, ow, rq, P, n, c)
             PROVE  OnItsWay(st, ow, rq, Tail(P), n, c)
  BY DEF Fits
<1>2. ASSUME NEW i \in 1..Len(P), P[i].kind = "sent", P[i].n = n, P[i].visit = visit,
             P[i].ok => Home(st, n, c)
      PROVE  OnItsWay(st, ow, rq, Tail(P), n, c)
  <2>1. i # 1  BY <1>2
  <2> QED  BY <1>1, <1>2, <2>1 DEF OnItsWay
<1> QED  BY <1>2 DEF OnItsWay

LEMMA Arrived ==
  ASSUME IInv, pushes # <<>>, pushes' = Tail(pushes), UNCHANGED <<main, requests, sends>>,
         visit' = visit, active' = active,
         active # None /\ run[active].stream # 0 /\
             (\/ Seen(run, pushes, active)
              \/ /\ pushes[1].kind = "runtime" /\ pushes[1].conv = active /\ pushes[1].visit = visit
                 /\ pushes[1].stream = run[active].stream) =>
           Seen(run, pushes, active)',
         active # None /\
             (\/ pushes[1].kind = "messages" /\ pushes[1].conv = active /\ pushes[1].visit = visit
              \/ \A m \in messages : Fits(stored, owed, requests, pushes, m, active)) =>
           \A m \in messages' : Fits(stored, owed, requests, Tail(pushes), m, active)
  PROVE  Coming(stored, run, owed, requests, pushes)'
<1>1. /\ stored' = stored /\ run' = run /\ owed' = owed /\ requests' = requests
      /\ Len(pushes) \in Nat \ {0}
      /\ \A i \in 2..Len(pushes) : i - 1 \in 1..Len(pushes') /\ pushes'[i - 1] = pushes[i]
      /\ Coming(stored, run, owed, requests, pushes)
  BY FirstPush DEF Inv
<1>2. \A i \in 1..Len(pushes) : i = 1 \/ i \in 2..Len(pushes)  BY <1>1
<1>3. RunIsComing(run, requests, pushes)'
  <2> SUFFICES ASSUME active # None, run[active].stream # 0, ~Seen(run, pushes, active)'
               PROVE  \/ \E i \in 1..Len(requests) : requests[i].kind = "runtime" /\ requests[i].conv = active /\ requests[i].visit = visit
                      \/ \E i \in 1..Len(pushes') : /\ pushes'[i].kind = "runtime" /\ pushes'[i].conv = active /\ pushes'[i].visit = visit
                                                    /\ pushes'[i].stream = run[active].stream
    BY <1>1 DEF RunIsComing
  <2>1. ~Seen(run, pushes, active)  OBVIOUS
  <2>2. ASSUME NEW i \in 1..Len(pushes), pushes[i].kind = "runtime", pushes[i].conv = active,
               pushes[i].visit = visit, pushes[i].stream = run[active].stream
        PROVE  \E k \in 1..Len(pushes') : /\ pushes'[k].kind = "runtime" /\ pushes'[k].conv = active /\ pushes'[k].visit = visit
                                          /\ pushes'[k].stream = run[active].stream
    <3>1. i # 1  BY <2>2
    <3> QED  BY <1>1, <1>2, <2>2, <3>1
  <2> QED  BY <1>1, <2>1, <2>2 DEF Coming, RunIsComing
<1>4. ListIsComing(stored, owed, requests, pushes)'
  <2> SUFFICES ASSUME active # None
               PROVE  \/ \E i \in 1..Len(requests) : requests[i].kind = "messages" /\ requests[i].conv = active /\ requests[i].visit = visit
                      \/ \E i \in 1..Len(pushes') : pushes'[i].kind = "messages" /\ pushes'[i].conv = active /\ pushes'[i].visit = visit
                      \/ \A m \in messages' : Fits(stored, owed, requests, pushes, m, active)'
    BY <1>1 DEF ListIsComing
  <2>1. (\A m \in messages' : Fits(stored, owed, requests, Tail(pushes), m, active)) =>
           \A m \in messages' : Fits(stored, owed, requests, pushes, m, active)'
    <3> SUFFICES ASSUME NEW m \in messages', Fits(stored, owed, requests, Tail(pushes), m, active)
                 PROVE  Fits(stored, owed, requests, pushes, m, active)'
      OBVIOUS
    <3>1. Fits(stored', owed', requests', pushes', m, active')  BY <1>1
    <3> QED  BY <3>1 DEF Fits, OnItsWay, Home
  <2>2. ASSUME NEW i \in 1..Len(pushes), pushes[i].kind = "messages", pushes[i].conv = active,
               pushes[i].visit = visit, i # 1
        PROVE  \E k \in 1..Len(pushes') : pushes'[k].kind = "messages" /\ pushes'[k].conv = active /\ pushes'[k].visit = visit
    BY <1>1, <1>2, <2>2
  <2> QED  BY <1>1, <2>1, <2>2 DEF Coming, ListIsComing
<1> QED  BY <1>3, <1>4 DEF Coming

\* A push that is no start, chunk or end, and changes no stream.
LEMMA QuietPush ==
  ASSUME IInv, pushes # <<>>, pushes' = Tail(pushes), UNCHANGED <<main, requests, sends>>,
         UNCHANGED <<streaming, streamConv, hydrated, started>>,
         pushes[1].kind \notin {"start", "chunk", "end"}
  PROVE  /\ \A c \in Conversations : Seen(run, pushes, c) => Seen(run, pushes, c)'
         /\ NoGhost(run, pushes)' /\ RevisionSeen(run, pushes)' /\ StartedIsLive(stored)'
         /\ TextFollows(run, pushes)'
<1>1. /\ Screen(stored, queued, run, pushes) /\ ScreenTypes
      /\ stored' = stored /\ run' = run /\ streaming' = streaming /\ hydrated' = hydrated /\ started' = started
      /\ pushes \in Seq(PushMessage)
      /\ \A i \in 2..Len(pushes) : i - 1 \in 1..Len(pushes') /\ pushes'[i - 1] = pushes[i]
      /\ Len(pushes) \in Nat \ {0}
  BY FirstPush DEF Inv
<1>2. \A c \in Conversations : Seen(run, pushes, c) => Seen(run, pushes, c)'
  <2> SUFFICES ASSUME NEW c \in Conversations, Seen(run, pushes, c)
               PROVE  Seen(run, pushes, c)'
    OBVIOUS
  <2>1. Seen(run, Tail(pushes), c)  BY <1>1, SeenStays DEF Starts
  <2> QED  BY <1>1, <2>1 DEF Seen, Starts
<1>3. NoGhost(run, pushes)'
  <2> SUFFICES ASSUME NEW c \in Conversations, streaming[c].stream # 0, run[c].stream # streaming[c].stream
               PROVE  \E k \in 1..Len(pushes') : Ends(pushes'[k], streaming[c].stream)
    BY <1>1 DEF NoGhost, Ends
  <2>1. PICK i \in 1..Len(pushes) : Ends(pushes[i], streaming[c].stream)
    BY <1>1 DEF Screen, NoGhost
  <2>2. i \in 2..Len(pushes)  BY <1>1, <2>1 DEF Ends
  <2> QED  BY <1>1, <2>1, <2>2
<1>4. RevisionSeen(run, pushes)'
  <2> SUFFICES ASSUME hydrated.conv # None, hydrated.revision # -1, run[hydrated.conv].stream # 0
               PROVE  Seen(run, pushes, hydrated.conv)'
    BY <1>1 DEF RevisionSeen
  <2>1. hydrated.conv \in Conversations  BY <1>1 DEF ScreenTypes
  <2>2. Seen(run, Tail(pushes), hydrated.conv)  BY <1>1, SeenStays DEF Starts, Screen, RevisionSeen
  <2> QED  BY <1>1, <2>2 DEF Seen, Starts
<1>5. StartedIsLive(stored)'  BY <1>1 DEF Screen, StartedIsLive, Home
<1>6. TextFollows(run, pushes)'
  <2>1. \A n : Pending(pushes', n) = Pending(pushes, n)  BY <1>1, PendingTail
  <2>2. \A c \in Conversations :
          run[c].stream # 0 /\ streaming[c].stream = run[c].stream /\ run[c].stream \in started =>
            streaming[c].text = run[c].chunks - Pending(pushes', run[c].stream)
    BY <1>1, <2>1 DEF Screen, TextFollows
  <2> QED  BY <1>1, <2>2 DEF TextFollows, Pending, Chunks
<1> QED  BY <1>2, <1>3, <1>4, <1>5, <1>6

\* Nothing but the first push is gone.
LEMMA ListsStay ==
  ASSUME IInv, pushes # <<>>, pushes' = Tail(pushes), UNCHANGED <<main, requests, sends>>,
         messages' \cap StoredMessages \subseteq messages \union Carried(pushes[1])
  PROVE  ListsReplace(stored, pushes)'
<1>1. /\ Screen(stored, queued, run, pushes) /\ Wire(stored, queued, run, pushes)
      /\ stored' = stored /\ stored \in [Conversations -> SUBSET StoredMessages]
      /\ Len(pushes) \in Nat \ {0}
      /\ \A i \in 1..Len(pushes') : pushes'[i] = pushes[i + 1] /\ i + 1 \in 2..Len(pushes)
      /\ \A i \in 1..Len(pushes) : pushes[i] \in PushMessage
  BY FirstPush DEF Inv
<1> SUFFICES ASSUME NEW i \in 1..Len(pushes'), pushes'[i].kind = "messages",
                    NEW m \in messages', m \in stored[pushes'[i].conv]
             PROVE  m \in pushes'[i].msgs
  BY <1>1 DEF ListsReplace
<1>2. i + 1 \in 2..Len(pushes) /\ i + 1 \in 1..Len(pushes) /\ pushes'[i] = pushes[i + 1]  BY <1>1
<1>3. pushes'[i].conv \in Conversations
  <2>1. pushes[i + 1] \in PushMessage  BY <1>1, <1>2
  <2> QED  BY <1>2, <2>1, PushFields
<1>4. m \in messages \/ m \in Carried(pushes[1])  BY <1>1, <1>3
<1>5. CASE m \in messages  BY <1>1, <1>2, <1>5 DEF Screen, ListsReplace
<1>6. CASE m \in Carried(pushes[1])
  <2>1. 1 \in 1..(i + 1) - 1  BY <1>2
  <2> QED  BY <1>1, <1>2, <1>6, <2>1 DEF Wire, ListsGrow
<1> QED  BY <1>4, <1>5, <1>6

LEMMA LostStep ==
  ASSUME IInv, IsLost
  PROVE  IInv'
<1>1. /\ pushes # <<>> /\ pushes' = Tail(pushes) /\ UNCHANGED <<main, requests, sends>>
      /\ visit' = visit /\ mounted' = mounted /\ active' = active /\ messages' = messages
      /\ streaming' = streaming /\ streamConv' = streamConv /\ banner' = banner /\ hydrated' = hydrated
      /\ sending' = sending /\ started' = started
  BY DEF IsLost, shown
<1>2. /\ ScreenTypes /\ ScreenIsOpen /\ Inv(stored, queued, run, owed, requests, pushes)
      /\ stored' = stored /\ queued' = queued /\ run' = run /\ sends' = sends
      /\ Head(pushes) = pushes[1] /\ pushes \in Seq(PushMessage)
  BY <1>1, FirstPush
<1>3. /\ Types(stored, queued, run, owed, requests, pushes)'
      /\ Places(stored, queued, run, owed, requests, pushes)'
      /\ Wire(stored, queued, run, pushes)'
  BY <1>1, FirstPush
<1>4. ScreenTypes' /\ ScreenIsOpen'
  BY <1>1, <1>2 DEF ScreenTypes, ScreenIsOpen, Blank
<1>5. CASE ~mounted
  <2>1. Blank /\ Blank'  BY <1>1, <1>2, <1>5 DEF ScreenIsOpen, Blank
  <2>2. Screen(stored, queued, run, pushes)'
    BY <2>1 DEF Blank, Screen, Known, ListsReplace, NoGhost, RevisionSeen, StartedIsLive, TextFollows
  <2>3. Coming(stored, run, owed, requests, pushes)'
    BY <2>1 DEF Blank, Coming, RunIsComing, ListIsComing
  <2> QED  BY <1>3, <1>4, <2>2, <2>3 DEF IInv, Inv
<1>6. CASE pushes[1].kind \in {"messages", "runtime", "sent"} /\ pushes[1].visit # visit
  <2>1. /\ \A c \in Conversations : Seen(run, pushes, c) => Seen(run, pushes, c)'
        /\ NoGhost(run, pushes)' /\ RevisionSeen(run, pushes)' /\ StartedIsLive(stored)'
        /\ TextFollows(run, pushes)'
    BY <1>1, <1>6, QuietPush
  <2>2. Known(stored, queued)'
    BY <1>1, <1>2 DEF Inv, Screen, Known, Kept, Home, Begun
  <2>3. ListsReplace(stored, pushes)'  BY <1>1, ListsStay
  <2>4. active # None /\ run[active].stream # 0 /\ Seen(run, pushes, active) => Seen(run, pushes, active)'
    <3> SUFFICES ASSUME active # None, Seen(run, pushes, active) PROVE Seen(run, pushes, active)'  OBVIOUS
    <3>1. Seen(run, Tail(pushes), active)  BY <1>1, <1>2, <1>6, SeenStays DEF Starts
    <3> QED  BY <1>1, <1>2, <3>1 DEF Seen, Starts
  <2>5. \A m : Fits(stored, owed, requests, pushes, m, active) =>
                 Fits(stored, owed, requests, Tail(pushes), m, active)
    BY <1>1, <1>2, <1>6, FitsStays
  <2>6. Coming(stored, run, owed, requests, pushes)'
    BY <1>1, <1>6, <2>4, <2>5, Arrived
  <2> QED  BY <1>3, <1>4, <2>1, <2>2, <2>3, <2>6 DEF IInv, Inv, Screen
<1> QED  BY <1>2, <1>5, <1>6 DEF IsLost, IsCurrent

\* The facts of an event the screen listens to.
LEMMA ArrivesFacts ==
  ASSUME NEW kind, IInv, Arrives(kind)
  PROVE  /\ pushes # <<>> /\ pushes' = Tail(pushes) /\ Head(pushes) = pushes[1]
         /\ pushes[1].kind = kind /\ pushes[1] \in PushMessage /\ mounted
<1>1. pushes \in Seq(PushMessage)  BY DEF IInv, Inv, Types
<1> QED  BY <1>1, TailFacts DEF Arrives

LEMMA WaitingEventStep ==
  ASSUME IInv, onWaiting
  PROVE  IInv'
<1> DEFINE p == pushes[1]
<1>1. /\ pushes # <<>> /\ pushes' = Tail(pushes) /\ UNCHANGED <<main, requests, sends>>
      /\ Head(pushes) = p /\ p.kind = "waiting" /\ p.conv \in Conversations /\ p.stream \in Numbers
      /\ visit' = visit /\ mounted' = mounted /\ active' = active /\ messages' = messages
      /\ streaming' = streaming /\ streamConv' = streamConv /\ hydrated' = hydrated
      /\ sending' = sending /\ started' = started /\ mounted
      /\ banner' = [banner EXCEPT ![p.conv] = p.stream]
  <2>1. /\ pushes # <<>> /\ pushes' = Tail(pushes) /\ Head(pushes) = p
        /\ p.kind = "waiting" /\ p \in PushMessage /\ mounted
    BY ArrivesFacts DEF onWaiting
  <2> QED  BY <2>1, PushFields DEF onWaiting
<1>2. /\ ScreenTypes /\ ScreenIsOpen /\ Inv(stored, queued, run, owed, requests, pushes)
      /\ stored' = stored /\ queued' = queued /\ run' = run /\ sends' = sends /\ pushes \in Seq(PushMessage)
  BY <1>1, FirstPush
<1>3. /\ Types(stored, queued, run, owed, requests, pushes)'
      /\ Places(stored, queued, run, owed, requests, pushes)'
      /\ Wire(stored, queued, run, pushes)'
  BY <1>1, FirstPush
<1>4. ScreenTypes' /\ ScreenIsOpen'
  <2>1. banner' \in [Conversations -> 0..MaxSends]  BY <1>1, <1>2 DEF ScreenTypes, Numbers
  <2> QED  BY <1>1, <1>2, <2>1 DEF ScreenTypes, ScreenIsOpen
<1>5. /\ \A c \in Conversations : Seen(run, pushes, c) => Seen(run, pushes, c)'
      /\ NoGhost(run, pushes)' /\ RevisionSeen(run, pushes)' /\ StartedIsLive(stored)'
      /\ TextFollows(run, pushes)'
  BY <1>1, QuietPush
<1>6. Known(stored, queued)'
  BY <1>1, <1>2 DEF Inv, Screen, Known, Kept, Home, Begun
<1>7. ListsReplace(stored, pushes)'  BY <1>1, ListsStay
<1>8. Coming(stored, run, owed, requests, pushes)'
  <2>1. active # None /\ run[active].stream # 0 /\ Seen(run, pushes, active) => Seen(run, pushes, active)'
    <3> SUFFICES ASSUME Seen(run, pushes, active) PROVE Seen(run, pushes, active)'  OBVIOUS
    <3>1. Seen(run, Tail(pushes), active)  BY <1>1, <1>2, SeenStays DEF Starts
    <3> QED  BY <1>1, <1>2, <3>1 DEF Seen, Starts
  <2>2. \A m : Fits(stored, owed, requests, pushes, m, active) =>
                 Fits(stored, owed, requests, Tail(pushes), m, active)
    BY <1>1, <1>2, FitsStays
  <2> QED  BY <1>1, <2>1, <2>2, Arrived
<1> QED  BY <1>3, <1>4, <1>5, <1>6, <1>7, <1>8 DEF IInv, Inv, Screen

-----------------------------------------------------------------------------
(* The events of a stream.                                                 *)

LEMMA StartEventStep ==
  ASSUME IInv, onStreamStart
  PROVE  IInv'
<1> DEFINE p == pushes[1]
           c0 == p.conv
           n0 == p.stream
<1>1. /\ pushes # <<>> /\ pushes' = Tail(pushes) /\ UNCHANGED <<main, requests, sends>>
      /\ p.kind = "start" /\ c0 \in Conversations /\ n0 \in Numbers /\ mounted
      /\ visit' = visit /\ mounted' = mounted /\ active' = active /\ messages' = messages /\ sending' = sending
      /\ streamConv' = [streamConv EXCEPT ![n0] = c0]
      /\ hydrated' = IF c0 = hydrated.conv THEN [hydrated EXCEPT !.revision = LiveEvent] ELSE hydrated
      /\ banner' = [banner EXCEPT ![c0] = 0]
      /\ streaming' = [streaming EXCEPT ![c0] = [stream |-> n0, text |-> 0]]
      /\ started' = started \union {n0}
  <2>1. /\ pushes # <<>> /\ pushes' = Tail(pushes) /\ Head(pushes) = p
        /\ p.kind = "start" /\ p \in PushMessage /\ mounted
    BY ArrivesFacts DEF onStreamStart
  <2> QED  BY <2>1, PushFields DEF onStreamStart
<1>2. /\ ScreenTypes /\ ScreenIsOpen /\ Inv(stored, queued, run, owed, requests, pushes)
      /\ Screen(stored, queued, run, pushes) /\ Wire(stored, queued, run, pushes)
      /\ Places(stored, queued, run, owed, requests, pushes)
      /\ stored' = stored /\ queued' = queued /\ run' = run /\ sends' = sends /\ pushes \in Seq(PushMessage)
      /\ Len(pushes) \in Nat \ {0} /\ Begun(stored, queued, n0, c0) /\ n0 # 0
      /\ \A i \in 2..Len(pushes) : i - 1 \in 1..Len(pushes') /\ pushes'[i - 1] = pushes[i]
      /\ run \in [Conversations -> RunEntry]
  BY <1>1, FirstPush DEF Truthful, Inv, Numbers
<1>3. /\ Types(stored, queued, run, owed, requests, pushes)'
      /\ Places(stored, queued, run, owed, requests, pushes)'
      /\ Wire(stored, queued, run, pushes)'
  BY <1>1, FirstPush
<1> HIDE DEF p, c0, n0
<1>4. /\ streaming \in [Conversations -> [stream : 0..MaxSends, text : Int]]
      /\ streamConv \in [Numbers -> Conversations \union {None}]
      /\ banner \in [Conversations -> 0..MaxSends] /\ started \subseteq Numbers
      /\ hydrated \in [conv : Conversations \union {None}, revision : {-1, 1, 2, LiveEvent}]
      /\ n0 \in 0..MaxSends /\ 0 \in 0..MaxSends /\ None \notin Conversations
  <2>1. n0 \in 0..MaxSends /\ 0 \in 0..MaxSends  BY <1>1, BoundsAreNumbers DEF Numbers
  <2>2. ScreenTypes  BY <1>2
  <2> QED  BY <2>1, <2>2, NoneIsNoConversation DEF ScreenTypes
<1>5. /\ streaming' \in [Conversations -> [stream : 0..MaxSends, text : Int]]
      /\ streamConv' \in [Numbers -> Conversations \union {None}]
      /\ streaming'[c0].stream = n0 /\ streaming'[c0].text = 0
      /\ \A d \in Conversations : d # c0 => streaming'[d] = streaming[d]
      /\ streamConv'[n0] = c0 /\ \A n \in Numbers : n # n0 => streamConv'[n] = streamConv[n]
      /\ hydrated' \in [conv : Conversations \union {None}, revision : {-1, 1, 2, LiveEvent}]
      /\ hydrated'.conv = hydrated.conv
      /\ IF hydrated.conv = c0 THEN hydrated'.revision = LiveEvent ELSE hydrated'.revision = hydrated.revision
      /\ banner' \in [Conversations -> 0..MaxSends]
      /\ started' \subseteq Numbers
  <2>1. [stream |-> n0, text |-> 0] \in [stream : 0..MaxSends, text : Int]  BY <1>4
  <2> QED  BY <1>1, <1>4, <2>1
<1>6. ScreenTypes' /\ ScreenIsOpen'
  <2>1. ScreenTypes'  BY <1>1, <1>2, <1>5 DEF ScreenTypes
  <2>2. ScreenIsOpen'  BY <1>1, <1>2, <1>5 DEF ScreenIsOpen
  <2> QED  BY <2>1, <2>2
\* The stream has one home, so no other conversation shows it.
<1>7. \A d \in Conversations : Home(stored, n0, d) => d = c0
  BY <1>1, <1>2 DEF Places, Begun
<1>8. \A d \in Conversations : d # c0 => streaming[d].stream # n0 /\ run[d].stream # n0
  <2> SUFFICES ASSUME NEW d \in Conversations, d # c0
               PROVE  streaming[d].stream # n0 /\ run[d].stream # n0
    OBVIOUS
  <2>1. streaming[d].stream = n0 => Begun(stored, queued, n0, d)
    BY <1>1, <1>2, <1>4 DEF Screen, Known
  <2>2. run[d].stream = n0 => Begun(stored, queued, n0, d)
    BY <1>2 DEF Places
  <2> QED  BY <1>7, <2>1, <2>2 DEF Begun
<1>9. Known(stored, queued)'
  <2>1. \A d \in Conversations : streaming'[d].stream # 0 => streamConv'[streaming'[d].stream] = d
    <3> SUFFICES ASSUME NEW d \in Conversations, streaming'[d].stream # 0
                 PROVE  streamConv'[streaming'[d].stream] = d
      OBVIOUS
    <3>1. CASE d = c0  BY <1>5, <3>1
    <3>2. CASE d # c0
      <4>1. streaming'[d].stream = streaming[d].stream /\ streaming[d].stream \in Numbers
        BY <1>4, <1>5, <3>2 DEF Numbers
      <4>2. streaming[d].stream # n0  BY <1>8, <3>2
      <4>3. streamConv[streaming[d].stream] = d  BY <1>2, <4>1 DEF Screen, Known
      <4> QED  BY <1>5, <4>1, <4>2, <4>3
    <3> QED  BY <3>1, <3>2
  <2>2. \A n \in Numbers : streamConv'[n] # None => Begun(stored, queued, n, streamConv'[n])
    BY <1>2, <1>5 DEF Screen, Known
  <2>3. \A n \in started' : \E c \in Conversations : Begun(stored, queued, n, c)
    BY <1>1, <1>2 DEF Screen, Known
  <2>4. \A m \in messages' \cap StoredMessages : Kept(stored, m)
    BY <1>1, <1>2 DEF Screen, Known
  <2> QED  BY <1>2, <2>1, <2>2, <2>3, <2>4 DEF Known, Begun, Home, Kept
<1>10. ListsReplace(stored, pushes)'  BY <1>1, ListsStay
<1>11. NoGhost(run, pushes)'
  <2> SUFFICES ASSUME NEW d \in Conversations, streaming'[d].stream # 0, run[d].stream # streaming'[d].stream
               PROVE  \E k \in 1..Len(pushes') : Ends(pushes'[k], streaming'[d].stream)
    BY <1>2 DEF NoGhost
  <2>1. \E i \in 2..Len(pushes) : Ends(pushes[i], streaming'[d].stream)
    <3>1. CASE d = c0
      <4>1. 1 \in 1..Len(pushes) /\ 1 + 1 = 2  BY <1>2
      <4> QED  BY <1>1, <1>2, <1>5, <3>1, <4>1 DEF Wire, EndsFollow, p, c0, n0
    <3>2. CASE d # c0
      <4>1. PICK i \in 1..Len(pushes) : Ends(pushes[i], streaming[d].stream)
        BY <1>2, <1>5, <3>2 DEF Screen, NoGhost
      <4>2. i # 1  BY <1>1, <4>1 DEF Ends, p
      <4> QED  BY <1>2, <1>5, <3>2, <4>1, <4>2
    <3> QED  BY <3>1, <3>2
  <2> QED  BY <1>2, <2>1
\* A start of another stream is followed by the start of the run that goes on.
<1>12. \A d \in Conversations : run[d].stream # 0 /\ (d = c0 \/ Seen(run, pushes, d)) => Seen(run, pushes, d)'
  <2> SUFFICES ASSUME NEW d \in Conversations, run[d].stream # 0, d = c0 \/ Seen(run, pushes, d),
                      streaming'[d].stream # run[d].stream
               PROVE  \E k \in 1..Len(pushes') : Starts(pushes'[k], d, run[d].stream)
    BY <1>2 DEF Seen
  <2>1. \E i \in 2..Len(pushes) : Starts(pushes[i], d, run[d].stream)
    <3>1. CASE d = c0
      <4>1. 1 \in 1..Len(pushes) /\ 1 + 1 = 2  BY <1>2
      <4>2. Displaces(stored, pushes[1], d, run[d].stream)  BY <1>1, <1>5, <3>1 DEF Displaces, p, c0, n0
      <4> QED  BY <1>2, <4>1, <4>2 DEF Wire, StartsFollow
    <3>2. CASE d # c0
      <4>1. PICK i \in 1..Len(pushes) : Starts(pushes[i], d, run[d].stream)
        BY <1>5, <3>2 DEF Seen
      <4>2. i # 1  BY <3>2, <4>1 DEF Starts, p, c0
      <4> QED  BY <1>2, <4>1, <4>2
    <3> QED  BY <3>1, <3>2
  <2> QED  BY <1>2, <2>1
<1>13. RevisionSeen(run, pushes)'
  <2> SUFFICES ASSUME hydrated'.conv # None, hydrated'.revision # -1, run[hydrated'.conv].stream # 0
               PROVE  Seen(run, pushes, hydrated.conv)'
    BY <1>2 DEF RevisionSeen
  <2>1. hydrated.conv \in Conversations /\ hydrated'.conv = hydrated.conv  BY <1>4, <1>5
  <2>2. hydrated.conv = c0 \/ Seen(run, pushes, hydrated.conv)
    BY <1>2, <1>5, <2>1 DEF Screen, RevisionSeen
  <2>3. hydrated.conv # c0 => Seen(run, pushes, hydrated.conv)'
    <3> SUFFICES ASSUME hydrated.conv # c0 PROVE Seen(run, pushes, hydrated.conv)'  OBVIOUS
    <3>1. hydrated' = hydrated  BY <1>1, <1>4
    <3> DEFINE h == hydrated.conv
    <3>2. h \in Conversations /\ run[h].stream # 0 /\ Seen(run, pushes, h)  BY <2>1, <2>2
    <3>3. \/ streaming'[h].stream = run[h].stream
          \/ \E k \in 1..Len(pushes') : Starts(pushes'[k], h, run[h].stream)
      BY <1>2, <1>12, <3>2 DEF Seen
    <3> QED  BY <1>2, <3>1, <3>3 DEF Seen
  <2>4. hydrated.conv = c0 => Seen(run, pushes, hydrated.conv)'
    <3> SUFFICES ASSUME hydrated.conv = c0 PROVE Seen(run, pushes, hydrated.conv)'  OBVIOUS
    <3>1. \/ streaming'[c0].stream = run[c0].stream
          \/ \E k \in 1..Len(pushes') : Starts(pushes'[k], c0, run[c0].stream)
      BY <1>1, <1>2, <1>12, <2>1 DEF Seen
    <3> QED  BY <1>2, <2>1, <3>1 DEF Seen
  <2> QED  BY <2>3, <2>4
<1>14. StartedIsLive(stored)'
  BY <1>1, <1>2, <1>5, <1>7 DEF Screen, StartedIsLive, Home
<1>15. TextFollows(run, pushes)'
  <2> SUFFICES ASSUME NEW d \in Conversations, run[d].stream # 0, streaming'[d].stream = run[d].stream,
                      run[d].stream \in started'
               PROVE  streaming'[d].text = run[d].chunks - Pending(pushes', run[d].stream)
    BY <1>2 DEF TextFollows, Pending, Chunks
  <2>1. Pending(pushes', run[d].stream) = Pending(pushes, run[d].stream)
    BY <1>1, <1>2, PendingTail DEF p
  <2>2. CASE d = c0
    <3>1. 1 \in 1..Len(pushes) /\ Starts(pushes[1], d, run[d].stream)
      BY <1>1, <1>2, <1>5, <2>2 DEF Starts, p, c0, n0
    <3>2. Pending(pushes, run[d].stream) = run[d].chunks  BY <1>2, <3>1 DEF Wire, ChunksFollow
    <3>3. run[d].chunks \in Int  BY <1>2 DEF RunEntry
    <3> QED  BY <1>5, <2>1, <2>2, <3>2, <3>3
  <2>3. CASE d # c0
    <3>1. run[d].stream \in started  BY <1>1, <1>8, <2>3
    <3> QED  BY <1>2, <1>5, <2>1, <2>3, <3>1 DEF Screen, TextFollows
  <2> QED  BY <2>2, <2>3
<1>16. Coming(stored, run, owed, requests, pushes)'
  <2>1. active # None /\ run[active].stream # 0 /\ Seen(run, pushes, active) => Seen(run, pushes, active)'
    <3> SUFFICES ASSUME active # None, run[active].stream # 0, Seen(run, pushes, active)
                 PROVE  Seen(run, pushes, active)'
      OBVIOUS
    <3>1. active \in Conversations  BY <1>2 DEF ScreenTypes
    <3>2. \/ streaming'[active].stream = run[active].stream
          \/ \E k \in 1..Len(pushes') : Starts(pushes'[k], active, run[active].stream)
      BY <1>2, <1>12, <3>1 DEF Seen
    <3> QED  BY <1>1, <1>2, <3>2 DEF Seen
  <2>2. \A m : Fits(stored, owed, requests, pushes, m, active) =>
                 Fits(stored, owed, requests, Tail(pushes), m, active)
    BY <1>1, <1>2, FitsStays DEF p
  <2>3. p.kind # "runtime" /\ p.kind # "messages"  BY <1>1
  <2> QED  BY <1>1, <2>1, <2>2, <2>3, Arrived DEF p
<1> QED  BY <1>3, <1>6, <1>9, <1>10, <1>11, <1>13, <1>14, <1>15, <1>16 DEF IInv, Inv, Screen

LEMMA ChunkEventStep ==
  ASSUME IInv, onStreamChunk
  PROVE  IInv'
<1> DEFINE p == pushes[1]
           n0 == p.stream
           c0 == streamConv[n0]
<1>1. /\ pushes # <<>> /\ pushes' = Tail(pushes) /\ UNCHANGED <<main, requests, sends>>
      /\ p.kind = "chunk" /\ n0 \in Numbers /\ mounted
      /\ visit' = visit /\ mounted' = mounted /\ active' = active /\ messages' = messages /\ sending' = sending
      /\ streamConv' = streamConv /\ banner' = banner /\ hydrated' = hydrated /\ started' = started
      /\ streaming' = IF c0 # None /\ streaming[c0].stream = n0
                      THEN [streaming EXCEPT ![c0].text = @ + 1] ELSE streaming
  <2>1. /\ pushes # <<>> /\ pushes' = Tail(pushes) /\ Head(pushes) = p
        /\ p.kind = "chunk" /\ p \in PushMessage /\ mounted
    BY ArrivesFacts DEF onStreamChunk
  <2> QED  BY <2>1, PushFields DEF onStreamChunk
<1>2. /\ ScreenTypes /\ ScreenIsOpen /\ Inv(stored, queued, run, owed, requests, pushes)
      /\ Screen(stored, queued, run, pushes) /\ Wire(stored, queued, run, pushes)
      /\ stored' = stored /\ queued' = queued /\ run' = run /\ sends' = sends /\ pushes \in Seq(PushMessage)
      /\ Len(pushes) \in Nat \ {0} /\ n0 # 0
      /\ \A i \in 2..Len(pushes) : i - 1 \in 1..Len(pushes') /\ pushes'[i - 1] = pushes[i]
      /\ run \in [Conversations -> RunEntry]
  BY <1>1, FirstPush DEF Inv, Numbers
<1>3. /\ Types(stored, queued, run, owed, requests, pushes)'
      /\ Places(stored, queued, run, owed, requests, pushes)'
      /\ Wire(stored, queued, run, pushes)'
  BY <1>1, FirstPush
<1> HIDE DEF p, n0, c0
<1>4. /\ streaming \in [Conversations -> [stream : 0..MaxSends, text : Int]]
      /\ streamConv \in [Numbers -> Conversations \union {None}] /\ None \notin Conversations
      /\ started \subseteq Numbers /\ (active # None => active \in Conversations)
      /\ hydrated.conv \in Conversations \union {None}
      /\ c0 \in Conversations \union {None}
  BY <1>1, <1>2, NoneIsNoConversation DEF ScreenTypes, c0
<1>5. /\ streaming' \in [Conversations -> [stream : 0..MaxSends, text : Int]]
      /\ \A d \in Conversations : streaming'[d].stream = streaming[d].stream
      /\ \A d \in Conversations :
           streaming'[d].text = IF d = c0 /\ streaming[d].stream = n0
                                THEN streaming[d].text + 1 ELSE streaming[d].text
  <2>1. CASE c0 # None /\ streaming[c0].stream = n0
    <3>1. c0 \in Conversations /\ streaming' = [streaming EXCEPT ![c0] = [streaming[c0] EXCEPT !.text = @ + 1]]
      BY <1>1, <1>4, <2>1
    <3>2. /\ [streaming[c0] EXCEPT !.text = @ + 1] \in [stream : 0..MaxSends, text : Int]
          /\ [streaming[c0] EXCEPT !.text = @ + 1].stream = streaming[c0].stream
          /\ [streaming[c0] EXCEPT !.text = @ + 1].text = streaming[c0].text + 1
      <4>1. streaming[c0] \in [stream : 0..MaxSends, text : Int]  BY <1>4, <3>1
      <4> QED  BY <4>1
    <3> QED  BY <1>4, <2>1, <3>1, <3>2
  <2>2. CASE ~(c0 # None /\ streaming[c0].stream = n0)  BY <1>1, <1>4, <2>2
  <2> QED  BY <2>1, <2>2
<1>6. ScreenTypes' /\ ScreenIsOpen'
  <2>1. ScreenTypes'  BY <1>1, <1>2, <1>5 DEF ScreenTypes
  <2>2. ScreenIsOpen'  BY <1>1, <1>2 DEF ScreenIsOpen
  <2> QED  BY <2>1, <2>2
<1>7. Known(stored, queued)'
  <2>1. \A d \in Conversations : streaming'[d].stream # 0 => streamConv[streaming'[d].stream] = d
    BY <1>2, <1>5 DEF Screen, Known
  <2> QED  BY <1>1, <1>2, <2>1 DEF Screen, Known, Begun, Home, Kept
<1>8. ListsReplace(stored, pushes)'  BY <1>1, ListsStay
<1>9. NoGhost(run, pushes)'
  <2> SUFFICES ASSUME NEW d \in Conversations, streaming'[d].stream # 0, run[d].stream # streaming'[d].stream
               PROVE  \E k \in 1..Len(pushes') : Ends(pushes'[k], streaming'[d].stream)
    BY <1>2 DEF NoGhost
  <2>1. PICK i \in 1..Len(pushes) : Ends(pushes[i], streaming[d].stream)
    BY <1>2, <1>5 DEF Screen, NoGhost
  <2>2. i # 1  BY <1>1, <2>1 DEF Ends, p
  <2> QED  BY <1>2, <1>5, <2>1, <2>2
<1>10. \A d \in Conversations : Seen(run, pushes, d) => Seen(run, pushes, d)'
  <2> SUFFICES ASSUME NEW d \in Conversations, Seen(run, pushes, d),
                      streaming'[d].stream # run[d].stream
               PROVE  \E k \in 1..Len(pushes') : Starts(pushes'[k], d, run[d].stream)
    BY <1>2 DEF Seen
  <2>1. PICK i \in 1..Len(pushes) : Starts(pushes[i], d, run[d].stream)
    BY <1>5 DEF Seen
  <2>2. i # 1  BY <1>1, <2>1 DEF Starts, p
  <2> QED  BY <1>2, <2>1, <2>2
<1>11. RevisionSeen(run, pushes)'
  <2> SUFFICES ASSUME hydrated.conv # None, hydrated.revision # -1, run[hydrated.conv].stream # 0
               PROVE  Seen(run, pushes, hydrated.conv)'
    BY <1>1, <1>2 DEF RevisionSeen
  <2>1. hydrated.conv \in Conversations /\ Seen(run, pushes, hydrated.conv)
    BY <1>2, <1>4 DEF Screen, RevisionSeen
  <2>2. \/ streaming'[hydrated.conv].stream = run[hydrated.conv].stream
        \/ \E k \in 1..Len(pushes') : Starts(pushes'[k], hydrated.conv, run[hydrated.conv].stream)
    BY <1>2, <1>10, <2>1 DEF Seen
  <2> QED  BY <1>1, <1>2, <2>2 DEF Seen
<1>12. StartedIsLive(stored)'  BY <1>1, <1>2 DEF Screen, StartedIsLive, Home
\* The chunk of the run that is shown is read, and added to its text.
<1>13. TextFollows(run, pushes)'
  <2> SUFFICES ASSUME NEW d \in Conversations, run[d].stream # 0, streaming'[d].stream = run[d].stream,
                      run[d].stream \in started'
               PROVE  streaming'[d].text = run[d].chunks - Pending(pushes', run[d].stream)
    BY <1>2 DEF TextFollows, Pending, Chunks
  <2>1. Pending(pushes', run[d].stream) =
          IF n0 = run[d].stream THEN Pending(pushes, run[d].stream) - 1 ELSE Pending(pushes, run[d].stream)
    BY <1>1, <1>2, PendingTail DEF p, n0
  <2>2. streaming[d].text = run[d].chunks - Pending(pushes, run[d].stream)
    BY <1>1, <1>2, <1>5 DEF Screen, TextFollows
  <2>3. Pending(pushes, run[d].stream) \in Int  BY <1>2, ChunksAreFinite
  <2>4. run[d].chunks \in Int  BY <1>2 DEF RunEntry
  <2>5. n0 = run[d].stream => d = c0 /\ streaming[d].stream = n0
    BY <1>2, <1>5 DEF Screen, Known, c0
  <2>6. streaming'[d].text = IF d = c0 /\ streaming[d].stream = n0
                             THEN streaming[d].text + 1 ELSE streaming[d].text
    BY <1>5
  <2>7. streaming[d].stream = run[d].stream  BY <1>5
  <2> QED  BY <2>1, <2>2, <2>3, <2>4, <2>5, <2>6, <2>7
<1>14. Coming(stored, run, owed, requests, pushes)'
  <2>1. active # None /\ run[active].stream # 0 /\ Seen(run, pushes, active) => Seen(run, pushes, active)'
    <3> SUFFICES ASSUME active # None, run[active].stream # 0, Seen(run, pushes, active)
                 PROVE  Seen(run, pushes, active)'
      OBVIOUS
    <3>1. active \in Conversations  BY <1>4
    <3>2. \/ streaming'[active].stream = run[active].stream
          \/ \E k \in 1..Len(pushes') : Starts(pushes'[k], active, run[active].stream)
      BY <1>2, <1>10, <3>1 DEF Seen
    <3> QED  BY <1>1, <1>2, <3>2 DEF Seen
  <2>2. \A m : Fits(stored, owed, requests, pushes, m, active) =>
                 Fits(stored, owed, requests, Tail(pushes), m, active)
    BY <1>1, <1>2, FitsStays DEF p
  <2>3. p.kind # "runtime" /\ p.kind # "messages"  BY <1>1
  <2> QED  BY <1>1, <2>1, <2>2, <2>3, Arrived DEF p
<1> QED  BY <1>3, <1>6, <1>7, <1>8, <1>9, <1>11, <1>12, <1>13, <1>14 DEF IInv, Inv, Screen

LEMMA EndEventStep ==
  ASSUME IInv, onStreamEnd
  PROVE  IInv'
<1> DEFINE p == pushes[1]
           n0 == p.stream
           c0 == IF n0 = 0 THEN None ELSE streamConv[n0]
<1>1. /\ pushes # <<>> /\ pushes' = Tail(pushes) /\ UNCHANGED <<main, requests, sends>>
      /\ p.kind = "end" /\ n0 \in 0..MaxSends /\ mounted /\ p.msgs \subseteq StoredMessages
      /\ visit' = visit /\ mounted' = mounted /\ active' = active /\ sending' = sending
      /\ hydrated' = hydrated /\ started' = started
      /\ IF c0 = None
         THEN streamConv' = streamConv /\ streaming' = streaming /\ banner' = banner /\ messages' = messages
         ELSE /\ streamConv' = [streamConv EXCEPT ![n0] = None]
              /\ streaming' = [streaming EXCEPT ![c0] = NoStream]
              /\ banner' = [banner EXCEPT ![c0] = 0]
              /\ messages' = IF c0 = active THEN messages \union p.msgs ELSE messages
  <2>1. /\ pushes # <<>> /\ pushes' = Tail(pushes) /\ Head(pushes) = p
        /\ p.kind = "end" /\ p \in PushMessage /\ mounted
    BY ArrivesFacts DEF onStreamEnd
  <2> QED  BY <2>1, PushFields DEF onStreamEnd
<1>2. /\ ScreenTypes /\ ScreenIsOpen /\ Inv(stored, queued, run, owed, requests, pushes)
      /\ Screen(stored, queued, run, pushes) /\ Wire(stored, queued, run, pushes)
      /\ stored' = stored /\ queued' = queued /\ run' = run /\ sends' = sends /\ pushes \in Seq(PushMessage)
      /\ Len(pushes) \in Nat \ {0} /\ Truthful(stored, queued, p)
      /\ \A i \in 2..Len(pushes) : i - 1 \in 1..Len(pushes') /\ pushes'[i - 1] = pushes[i]
      /\ run \in [Conversations -> RunEntry]
  BY <1>1, FirstPush DEF Inv
<1>3. /\ Types(stored, queued, run, owed, requests, pushes)'
      /\ Places(stored, queued, run, owed, requests, pushes)'
      /\ Wire(stored, queued, run, pushes)'
  BY <1>1, FirstPush
<1> HIDE DEF p
<1>4. /\ streaming \in [Conversations -> [stream : 0..MaxSends, text : Int]]
      /\ streamConv \in [Numbers -> Conversations \union {None}] /\ None \notin Conversations
      /\ banner \in [Conversations -> 0..MaxSends] /\ messages \subseteq ShownMessages
      /\ started \subseteq Numbers /\ (active # None => active \in Conversations)
      /\ hydrated.conv \in Conversations \union {None}
      /\ 0 \in 0..MaxSends
  BY <1>2, NoneIsNoConversation, BoundsAreNumbers DEF ScreenTypes
\* An end the screen knows is of a stream that has begun in the conversation.
<1>5. c0 # None => n0 \in Numbers /\ n0 # 0 /\ c0 \in Conversations /\ c0 = streamConv[n0] /\ Begun(stored, queued, n0, c0)
  <2> SUFFICES ASSUME c0 # None
               PROVE  n0 \in Numbers /\ n0 # 0 /\ c0 \in Conversations /\ c0 = streamConv[n0] /\ Begun(stored, queued, n0, c0)
    OBVIOUS
  <2>1. n0 # 0 /\ c0 = streamConv[n0]  OBVIOUS
  <2>2. n0 \in Numbers  BY <1>1, <2>1 DEF Numbers
  <2>3. c0 \in Conversations  BY <1>4, <2>1, <2>2
  <2>4. Begun(stored, queued, n0, c0)  BY <1>2, <2>1, <2>2 DEF Screen, Known
  <2> QED  BY <2>1, <2>2, <2>3, <2>4
\* A conversation that shows the stream is this one.
<1>6. \A d \in Conversations : streaming[d].stream # 0 /\ streaming[d].stream = n0 => d = c0
  BY <1>2, <1>4 DEF Screen, Known
<1> HIDE DEF c0, n0
<1>7. /\ streaming' \in [Conversations -> [stream : 0..MaxSends, text : Int]]
      /\ \A d \in Conversations : d # c0 => streaming'[d] = streaming[d]
      /\ c0 # None => streaming'[c0].stream = 0
      /\ streamConv' \in [Numbers -> Conversations \union {None}]
      /\ c0 # None => streamConv'[n0] = None
      /\ \A n \in Numbers : c0 = None \/ n # n0 => streamConv'[n] = streamConv[n]
      /\ banner' \in [Conversations -> 0..MaxSends]
  <2>1. CASE c0 = None  BY <1>1, <1>4, <2>1
  <2>2. CASE c0 # None
    <3>1. NoStream \in [stream : 0..MaxSends, text : Int] /\ NoStream.stream = 0
      BY <1>4 DEF NoStream
    <3>2. /\ streamConv' = [streamConv EXCEPT ![n0] = None]
          /\ streaming' = [streaming EXCEPT ![c0] = NoStream]
          /\ banner' = [banner EXCEPT ![c0] = 0]
      BY <1>1, <2>2
    <3> HIDE DEF NoStream
    <3> QED  BY <1>4, <1>5, <2>2, <3>1, <3>2
  <2> QED  BY <2>1, <2>2
<1>8. messages \subseteq messages' /\ messages' \subseteq messages \union p.msgs
      /\ (messages' # messages => c0 # None /\ c0 = active)
  BY <1>1
<1>9. ScreenTypes' /\ ScreenIsOpen'
  <2>1. messages' \subseteq ShownMessages  BY <1>1, <1>4, <1>8 DEF ShownMessages
  <2>2. ScreenTypes'  BY <1>1, <1>2, <1>7, <2>1 DEF ScreenTypes
  <2>3. ScreenIsOpen'  BY <1>1, <1>2 DEF ScreenIsOpen
  <2> QED  BY <2>2, <2>3
<1>10. Carried(p) = p.msgs  BY <1>1 DEF Carried
<1>11. Known(stored, queued)'
  <2>1. \A d \in Conversations : streaming'[d].stream # 0 => streamConv'[streaming'[d].stream] = d
    <3> SUFFICES ASSUME NEW d \in Conversations, streaming'[d].stream # 0
                 PROVE  streamConv'[streaming'[d].stream] = d
      OBVIOUS
    <3>1. streaming'[d].stream = streaming[d].stream  BY <1>4, <1>7
    <3>2. streaming[d].stream \in Numbers  BY <1>4, <3>1 DEF Numbers
    <3>3. c0 = None \/ streaming[d].stream # n0  BY <1>6, <1>7, <3>1
    <3>4. streamConv[streaming[d].stream] = d  BY <1>2, <3>1 DEF Screen, Known
    <3> QED  BY <1>7, <3>1, <3>2, <3>3, <3>4
  <2>2. \A n \in Numbers : streamConv'[n] # None => Begun(stored, queued, n, streamConv'[n])
    BY <1>2, <1>7 DEF Screen, Known
  <2>3. \A n \in started' : \E c \in Conversations : Begun(stored, queued, n, c)
    BY <1>1, <1>2 DEF Screen, Known
  <2>4. \A m \in messages' \cap StoredMessages : Kept(stored, m)
    BY <1>2, <1>8, <1>10 DEF Screen, Known, Truthful
  <2> QED  BY <1>2, <2>1, <2>2, <2>3, <2>4 DEF Known, Begun, Home, Kept
<1>12. ListsReplace(stored, pushes)'
  <2>1. messages' \cap StoredMessages \subseteq messages \union Carried(pushes[1])
    BY <1>8, <1>10 DEF p
  <2> QED  BY <1>1, <2>1, ListsStay
<1>13. NoGhost(run, pushes)'
  <2> SUFFICES ASSUME NEW d \in Conversations, streaming'[d].stream # 0, run[d].stream # streaming'[d].stream
               PROVE  \E k \in 1..Len(pushes') : Ends(pushes'[k], streaming'[d].stream)
    BY <1>2 DEF NoGhost
  <2>1. streaming'[d].stream = streaming[d].stream /\ (d # c0 \/ c0 = None)  BY <1>4, <1>7
  <2>2. PICK i \in 1..Len(pushes) : Ends(pushes[i], streaming[d].stream)
    BY <1>2, <2>1 DEF Screen, NoGhost
  <2>3. i # 1  BY <1>4, <1>6, <2>1, <2>2 DEF Ends, p, n0
  <2> QED  BY <1>2, <2>1, <2>2, <2>3
\* The end of another run is followed by the start of the one that goes on.
<1>14. \A d \in Conversations : run[d].stream # 0 /\ Seen(run, pushes, d) =>
         \/ streaming'[d].stream = run[d].stream
         \/ \E k \in 1..Len(pushes') : Starts(pushes'[k], d, run[d].stream)
  <2> SUFFICES ASSUME NEW d \in Conversations, run[d].stream # 0, Seen(run, pushes, d),
                      streaming'[d].stream # run[d].stream
               PROVE  \E i \in 2..Len(pushes) : Starts(pushes[i], d, run[d].stream)
    BY <1>2
  <2>1. CASE c0 # None /\ d = c0
    <3>1. 1 \in 1..Len(pushes) /\ 1 + 1 = 2  BY <1>2
    <3>2. n0 # run[d].stream  BY <1>1, <1>2, <3>1 DEF Wire, EndsAreFinal, p, n0
    <3>3. Displaces(stored, pushes[1], d, run[d].stream)
      BY <1>1, <1>5, <2>1, <3>2 DEF Displaces, Begun, p, n0
    <3> QED  BY <1>2, <3>1, <3>3 DEF Wire, StartsFollow
  <2>2. CASE ~(c0 # None /\ d = c0)
    <3>1. streaming'[d] = streaming[d]  BY <1>4, <1>7, <2>2
    <3>2. PICK i \in 1..Len(pushes) : Starts(pushes[i], d, run[d].stream)
      BY <3>1 DEF Seen
    <3>3. i # 1  BY <1>1, <3>2 DEF Starts, p
    <3> QED  BY <1>2, <3>2, <3>3
  <2> QED  BY <2>1, <2>2
<1>15. RevisionSeen(run, pushes)'
  <2> SUFFICES ASSUME hydrated.conv # None, hydrated.revision # -1, run[hydrated.conv].stream # 0
               PROVE  Seen(run, pushes, hydrated.conv)'
    BY <1>1, <1>2 DEF RevisionSeen
  <2>1. hydrated.conv \in Conversations /\ Seen(run, pushes, hydrated.conv)
    BY <1>2, <1>4 DEF Screen, RevisionSeen
  <2>2. \/ streaming'[hydrated.conv].stream = run[hydrated.conv].stream
        \/ \E k \in 1..Len(pushes') : Starts(pushes'[k], hydrated.conv, run[hydrated.conv].stream)
    BY <1>14, <2>1
  <2> QED  BY <1>1, <1>2, <2>2 DEF Seen
<1>16. StartedIsLive(stored)'  BY <1>1, <1>2 DEF Screen, StartedIsLive, Home
<1>17. TextFollows(run, pushes)'
  <2> SUFFICES ASSUME NEW d \in Conversations, run[d].stream # 0, streaming'[d].stream = run[d].stream,
                      run[d].stream \in started'
               PROVE  streaming'[d].text = run[d].chunks - Pending(pushes', run[d].stream)
    BY <1>2 DEF TextFollows, Pending, Chunks
  <2>1. Pending(pushes', run[d].stream) = Pending(pushes, run[d].stream)
    BY <1>1, <1>2, PendingTail DEF p
  <2>2. streaming'[d] = streaming[d]  BY <1>4, <1>7
  <2> QED  BY <1>1, <1>2, <2>1, <2>2 DEF Screen, TextFollows
<1>18. Coming(stored, run, owed, requests, pushes)'
  <2>1. active # None /\ run[active].stream # 0 /\ Seen(run, pushes, active) => Seen(run, pushes, active)'
    BY <1>1, <1>2, <1>4, <1>14 DEF Seen
  <2>2. \A m : Fits(stored, owed, requests, pushes, m, active) =>
                 Fits(stored, owed, requests, Tail(pushes), m, active)
    BY <1>1, <1>2, FitsStays DEF p
  <2>3. p.kind # "runtime" /\ p.kind # "messages"  BY <1>1
  <2>4. c0 # None /\ c0 = active => p.msgs \subseteq stored[active]
    BY <1>1, <1>2, <1>5 DEF Truthful, Begun, n0
  <2>5. messages' \subseteq messages \/ messages' \subseteq messages \union stored[active]
    BY <1>8, <2>4
  <2>6. (\A m \in messages : Fits(stored, owed, requests, pushes, m, active)) =>
          \A m \in messages' : Fits(stored, owed, requests, Tail(pushes), m, active)
    BY <2>2, <2>5 DEF Fits
  <2> QED  BY <1>1, <2>1, <2>3, <2>6, Arrived DEF p
<1> QED  BY <1>3, <1>9, <1>11, <1>12, <1>13, <1>15, <1>16, <1>17, <1>18 DEF IInv, Inv, Screen

LEMMA MessagesLoadedStep ==
  ASSUME IInv, MessagesLoaded
  PROVE  IInv'
<1> DEFINE p == pushes[1]
<1>1. /\ pushes # <<>> /\ pushes' = Tail(pushes) /\ UNCHANGED <<main, requests, sends>>
      /\ p.kind = "messages" /\ p.conv \in Conversations /\ mounted /\ p.msgs \subseteq StoredMessages
      /\ visit' = visit /\ mounted' = mounted /\ active' = active /\ sending' = sending
      /\ streaming' = streaming /\ streamConv' = streamConv /\ banner' = banner
      /\ hydrated' = hydrated /\ started' = started
      /\ messages' = IF p.conv = active THEN p.msgs ELSE messages
  <2>1. /\ pushes # <<>> /\ pushes' = Tail(pushes) /\ Head(pushes) = p
        /\ p.kind = "messages" /\ p \in PushMessage /\ mounted
    BY ArrivesFacts DEF MessagesLoaded
  <2> QED  BY <2>1, PushFields DEF MessagesLoaded
<1>2. /\ ScreenTypes /\ ScreenIsOpen /\ Inv(stored, queued, run, owed, requests, pushes)
      /\ stored' = stored /\ queued' = queued /\ run' = run /\ sends' = sends /\ pushes \in Seq(PushMessage)
      /\ Truthful(stored, queued, p) /\ Screen(stored, queued, run, pushes)
  BY <1>1, FirstPush DEF Inv
<1>3. /\ Types(stored, queued, run, owed, requests, pushes)'
      /\ Places(stored, queued, run, owed, requests, pushes)'
      /\ Wire(stored, queued, run, pushes)'
  BY <1>1, FirstPush
<1>4. ScreenTypes' /\ ScreenIsOpen'
  <2>1. messages' \subseteq ShownMessages  BY <1>1, <1>2 DEF ScreenTypes, ShownMessages
  <2> QED  BY <1>1, <1>2, <2>1 DEF ScreenTypes, ScreenIsOpen
<1>5. /\ \A c \in Conversations : Seen(run, pushes, c) => Seen(run, pushes, c)'
      /\ NoGhost(run, pushes)' /\ RevisionSeen(run, pushes)' /\ StartedIsLive(stored)'
      /\ TextFollows(run, pushes)'
  BY <1>1, QuietPush
<1>6. Carried(p) = p.msgs  BY <1>1 DEF Carried
<1>7. Known(stored, queued)'
  <2>1. \A m \in messages' \cap StoredMessages : Kept(stored, m)
    BY <1>1, <1>2, <1>6 DEF Screen, Known, Truthful
  <2> QED  BY <1>1, <1>2, <2>1 DEF Screen, Known, Kept, Home, Begun
<1>8. ListsReplace(stored, pushes)'
  <2>1. messages' \cap StoredMessages \subseteq messages \union Carried(pushes[1])  BY <1>1, <1>6
  <2> QED  BY <1>1, <2>1, ListsStay
<1>9. Coming(stored, run, owed, requests, pushes)'
  <2>1. active # None /\ run[active].stream # 0 /\ Seen(run, pushes, active) => Seen(run, pushes, active)'
    <3> SUFFICES ASSUME Seen(run, pushes, active) PROVE Seen(run, pushes, active)'  OBVIOUS
    <3>1. Seen(run, Tail(pushes), active)  BY <1>1, <1>2, SeenStays DEF Starts
    <3> QED  BY <1>1, <1>2, <3>1 DEF Seen, Starts
  <2>2. \A m : Fits(stored, owed, requests, pushes, m, active) =>
                 Fits(stored, owed, requests, Tail(pushes), m, active)
    BY <1>1, <1>2, FitsStays
  <2>3. p.conv = active => \A m \in messages' : Fits(stored, owed, requests, Tail(pushes), m, active)
    BY <1>1, <1>2 DEF Truthful, Fits
  <2>4. p.conv # active => messages' = messages  BY <1>1
  <2> QED  BY <1>1, <2>1, <2>2, <2>3, <2>4, Arrived
<1> QED  BY <1>3, <1>4, <1>5, <1>7, <1>8, <1>9 DEF IInv, Inv, Screen

-----------------------------------------------------------------------------
(* The replies.                                                            *)

\* What is so whatever Hydrated does with the reply.
LEMMA HydratedFacts ==
  ASSUME IInv, Hydrated
  PROVE  /\ pushes # <<>> /\ pushes' = Tail(pushes) /\ UNCHANGED <<main, requests, sends>>
         /\ Head(pushes) = pushes[1]
         /\ pushes[1].kind = "runtime" /\ pushes[1].conv \in Conversations
         /\ pushes[1].stream \in 0..MaxSends /\ mounted /\ pushes[1].visit = visit
         /\ visit' = visit /\ mounted' = mounted /\ active' = active /\ sending' = sending
         /\ banner' = banner /\ started' = started /\ messages' = messages
         /\ ScreenTypes /\ ScreenIsOpen /\ Inv(stored, queued, run, owed, requests, pushes)
         /\ Screen(stored, queued, run, pushes) /\ Wire(stored, queued, run, pushes)
         /\ Places(stored, queued, run, owed, requests, pushes)
         /\ stored' = stored /\ queued' = queued /\ run' = run /\ pushes \in Seq(PushMessage)
         /\ Len(pushes) \in Nat \ {0} /\ Truthful(stored, queued, pushes[1])
         /\ \A i \in 2..Len(pushes) : i - 1 \in 1..Len(pushes') /\ pushes'[i - 1] = pushes[i]
         /\ run \in [Conversations -> RunEntry]
         /\ Types(stored, queued, run, owed, requests, pushes)'
         /\ Places(stored, queued, run, owed, requests, pushes)'
         /\ Wire(stored, queued, run, pushes)'
         /\ ListsReplace(stored, pushes)'
<1>1. /\ pushes # <<>> /\ pushes' = Tail(pushes) /\ UNCHANGED <<main, requests, sends>>
      /\ Head(pushes) = pushes[1]
      /\ pushes[1].kind = "runtime" /\ pushes[1].conv \in Conversations
      /\ pushes[1].stream \in 0..MaxSends /\ mounted /\ pushes[1].visit = visit
      /\ visit' = visit /\ mounted' = mounted /\ active' = active /\ sending' = sending
      /\ banner' = banner /\ started' = started /\ messages' = messages
  <2>1. /\ pushes # <<>> /\ pushes' = Tail(pushes) /\ Head(pushes) = pushes[1]
        /\ pushes[1].kind = "runtime" /\ pushes[1] \in PushMessage /\ mounted
    BY ArrivesFacts DEF Hydrated
  <2> QED  BY <2>1, PushFields DEF Hydrated, IsCurrent
<1>2. ListsReplace(stored, pushes)'  BY <1>1, ListsStay
<1> QED  BY <1>1, <1>2, FirstPush DEF Inv

LEMMA HydratedSkips ==
  ASSUME IInv, Hydrated,
         \/ pushes[1].conv # hydrated.conv
         \/ pushes[1].stream # 0 /\ hydrated.revision >= pushes[1].revision,
         UNCHANGED <<hydrated, streamConv, streaming>>
  PROVE  IInv'
<1> DEFINE p == pushes[1]
<1>1. hydrated' = hydrated /\ streamConv' = streamConv /\ streaming' = streaming  OBVIOUS
<1>2. ScreenTypes' /\ ScreenIsOpen'
  BY <1>1, HydratedFacts DEF ScreenTypes, ScreenIsOpen
<1>3. /\ \A c \in Conversations : Seen(run, pushes, c) => Seen(run, pushes, c)'
      /\ NoGhost(run, pushes)' /\ RevisionSeen(run, pushes)' /\ StartedIsLive(stored)'
      /\ TextFollows(run, pushes)'
  BY <1>1, HydratedFacts, QuietPush
<1>4. Known(stored, queued)'
  BY <1>1, HydratedFacts DEF Screen, Known, Kept, Home, Begun
<1>5. Coming(stored, run, owed, requests, pushes)'
  <2>1. active # None => active \in Conversations /\ hydrated.conv = active
    BY HydratedFacts DEF ScreenTypes, ScreenIsOpen
  <2>2. active # None /\ run[active].stream # 0 /\ p.conv = active /\ p.stream = run[active].stream =>
          Seen(run, pushes, active)
    <3> SUFFICES ASSUME active # None, run[active].stream # 0, p.conv = active, p.stream = run[active].stream
                 PROVE  Seen(run, pushes, active)
      OBVIOUS
    <3>1. hydrated.revision >= p.revision  BY <2>1
    <3>2. p.revision \in {1, 2}  BY HydratedFacts DEF Truthful
    <3>3. hydrated.revision # -1  BY <3>1, <3>2
    <3> QED  BY <2>1, <3>3, HydratedFacts DEF Screen, RevisionSeen
  <2>3. active # None /\ Seen(run, pushes, active) => Seen(run, pushes, active)'
    <3> SUFFICES ASSUME active # None, Seen(run, pushes, active) PROVE Seen(run, pushes, active)'  OBVIOUS
    <3>1. ~Starts(pushes[1], active, run[active].stream)  BY HydratedFacts DEF Starts
    <3>2. Seen(run, Tail(pushes), active)  BY <3>1, HydratedFacts, SeenStays
    <3> QED  BY <1>1, <3>2, HydratedFacts DEF Seen, Starts
  <2>4. \A m : Fits(stored, owed, requests, pushes, m, active) =>
                 Fits(stored, owed, requests, Tail(pushes), m, active)
    BY HydratedFacts, FitsStays
  <2>5. pushes[1].kind # "messages" /\ messages' = messages  BY HydratedFacts
  <2>6. active # None /\ run[active].stream # 0 /\
           (\/ Seen(run, pushes, active)
            \/ /\ pushes[1].kind = "runtime" /\ pushes[1].conv = active /\ pushes[1].visit = visit
               /\ pushes[1].stream = run[active].stream) =>
         Seen(run, pushes, active)'
    BY <2>2, <2>3
  <2> QED  BY <2>4, <2>5, <2>6, HydratedFacts, Arrived
<1> QED  BY <1>2, <1>3, <1>4, <1>5, HydratedFacts DEF IInv, Inv, Screen

\* The reply shows c another stream, or none. What remains to show follows from what displaces a run.
LEMMA HydratedShows ==
  ASSUME IInv, Hydrated,
         NEW c \in Conversations, c = pushes[1].conv, c = hydrated.conv,
         streaming' \in [Conversations -> [stream : 0..MaxSends, text : Int]],
         streaming'[c].stream = pushes[1].stream,
         \A d \in Conversations : d # c => streaming'[d] = streaming[d],
         hydrated' \in [conv : Conversations \union {None}, revision : {-1, 1, 2, LiveEvent}],
         hydrated'.conv = hydrated.conv,
         streamConv' \in [Numbers -> Conversations \union {None}],
         Known(stored, queued)', StartedIsLive(stored)', TextFollows(run, pushes)'
  PROVE  IInv'
<1>1. ScreenTypes' /\ ScreenIsOpen'
  <2>1. ScreenTypes'  BY HydratedFacts DEF ScreenTypes
  <2>2. ScreenIsOpen'  BY HydratedFacts DEF ScreenIsOpen
  <2> QED  BY <2>1, <2>2
<1>2. c # None /\ (active # None => active = c)
  BY NoneIsNoConversation, HydratedFacts DEF ScreenIsOpen
<1>3. NoGhost(run, pushes)'
  <2> SUFFICES ASSUME NEW d \in Conversations, streaming'[d].stream # 0, run[d].stream # streaming'[d].stream
               PROVE  \E k \in 1..Len(pushes') : Ends(pushes'[k], streaming'[d].stream)
    BY HydratedFacts DEF NoGhost
  <2>1. \E i \in 2..Len(pushes) : Ends(pushes[i], streaming'[d].stream)
    <3>1. CASE d = c
      <4>1. 1 \in 1..Len(pushes) /\ 1 + 1 = 2  BY HydratedFacts
      <4>2. EndsFollow(run, pushes) /\ pushes[1].kind = "runtime"  BY HydratedFacts DEF Wire
      <4> QED  BY <3>1, <4>1, <4>2 DEF EndsFollow
    <3>2. CASE d # c
      <4>1. PICK i \in 1..Len(pushes) : Ends(pushes[i], streaming[d].stream)
        BY <3>2, HydratedFacts DEF Screen, NoGhost
      <4>2. i # 1  BY <4>1, HydratedFacts DEF Ends
      <4>3. i \in 2..Len(pushes)  BY <4>2, HydratedFacts
      <4> QED  BY <3>2, <4>1, <4>3
    <3> QED  BY <3>1, <3>2
  <2> QED  BY <2>1, HydratedFacts
<1>4. \A d \in Conversations : run[d].stream # 0 /\ (d = c \/ Seen(run, pushes, d)) =>
         \/ streaming'[d].stream = run[d].stream
         \/ \E k \in 1..Len(pushes') : Starts(pushes'[k], d, run[d].stream)
  <2> SUFFICES ASSUME NEW d \in Conversations, run[d].stream # 0, d = c \/ Seen(run, pushes, d),
                      streaming'[d].stream # run[d].stream
               PROVE  \E i \in 2..Len(pushes) : Starts(pushes[i], d, run[d].stream)
    BY HydratedFacts
  <2>1. CASE d = c
    <3>1. 1 \in 1..Len(pushes) /\ 1 + 1 = 2  BY HydratedFacts
    <3>2. Displaces(stored, pushes[1], d, run[d].stream)  BY <2>1, HydratedFacts DEF Displaces
    <3>3. StartsFollow(stored, run, pushes)  BY HydratedFacts DEF Wire
    <3> QED  BY <3>1, <3>2, <3>3 DEF StartsFollow
  <2>2. CASE d # c
    <3>1. PICK i \in 1..Len(pushes) : Starts(pushes[i], d, run[d].stream)
      BY <2>2 DEF Seen
    <3>2. i # 1  BY <3>1, HydratedFacts DEF Starts
    <3>3. i \in 2..Len(pushes)  BY <3>2, HydratedFacts
    <3> QED  BY <3>1, <3>3
  <2> QED  BY <2>1, <2>2
<1>5. RevisionSeen(run, pushes)'
  <2> SUFFICES ASSUME run[c].stream # 0
               PROVE  Seen(run, pushes, hydrated.conv)'
    BY HydratedFacts DEF RevisionSeen
  <2>1. \/ streaming'[c].stream = run[c].stream
        \/ \E k \in 1..Len(pushes') : Starts(pushes'[k], c, run[c].stream)
    BY <1>4
  <2>2. run' = run /\ hydrated'.conv = c  BY HydratedFacts
  <2> QED  BY <2>1, <2>2 DEF Seen
<1>6. Coming(stored, run, owed, requests, pushes)'
  <2>1. active # None /\ run[active].stream # 0 => Seen(run, pushes, active)'
    <3> SUFFICES ASSUME active = c, run[c].stream # 0 PROVE Seen(run, pushes, active)'  BY <1>2
    <3>1. run' = run /\ active' = c  BY HydratedFacts
    <3> QED  BY <1>4, <3>1 DEF Seen
  <2>2. \A m : Fits(stored, owed, requests, pushes, m, active) =>
                 Fits(stored, owed, requests, Tail(pushes), m, active)
    BY HydratedFacts, FitsStays
  <2>3. pushes[1].kind # "messages" /\ messages' = messages  BY HydratedFacts
  <2> QED  BY <2>1, <2>2, <2>3, HydratedFacts, Arrived
<1> QED  BY <1>1, <1>3, <1>5, <1>6, HydratedFacts DEF IInv, Inv, Screen

LEMMA HydratedClears ==
  ASSUME IInv, Hydrated, pushes[1].conv = hydrated.conv, pushes[1].stream = 0,
         streaming' = [streaming EXCEPT ![pushes[1].conv] = NoStream],
         UNCHANGED <<hydrated, streamConv>>
  PROVE  IInv'
<1> DEFINE c == hydrated.conv
<1>1. /\ c \in Conversations /\ hydrated' = hydrated /\ streamConv' = streamConv
      /\ streaming \in [Conversations -> [stream : 0..MaxSends, text : Int]]
      /\ streamConv \in [Numbers -> Conversations \union {None}]
      /\ hydrated \in [conv : Conversations \union {None}, revision : {-1, 1, 2, LiveEvent}]
  BY HydratedFacts DEF ScreenTypes
<1>2. NoStream \in [stream : 0..MaxSends, text : Int] /\ NoStream.stream = 0
  BY BoundsAreNumbers DEF NoStream
<1>3. /\ streaming' \in [Conversations -> [stream : 0..MaxSends, text : Int]]
      /\ streaming'[c].stream = 0 /\ \A d \in Conversations : d # c => streaming'[d] = streaming[d]
  <2> HIDE DEF NoStream
  <2> QED  BY <1>1, <1>2
<1>4. Known(stored, queued)'
  <2>1. \A d \in Conversations : streaming'[d].stream # 0 => streamConv[streaming'[d].stream] = d
    BY <1>3, HydratedFacts DEF Screen, Known
  <2> QED  BY <1>1, <2>1, HydratedFacts DEF Screen, Known, Kept, Home, Begun
<1>5. StartedIsLive(stored)'  BY <1>1, HydratedFacts DEF Screen, StartedIsLive, Home
<1>6. TextFollows(run, pushes)'
  <2> SUFFICES ASSUME NEW d \in Conversations, run[d].stream # 0, streaming'[d].stream = run[d].stream,
                      run[d].stream \in started
               PROVE  streaming'[d].text = run[d].chunks - Pending(pushes', run[d].stream)
    BY HydratedFacts DEF TextFollows, Pending, Chunks
  <2>1. Pending(pushes', run[d].stream) = Pending(pushes, run[d].stream)
    BY HydratedFacts, PendingTail
  <2>2. streaming'[d] = streaming[d]  BY <1>3
  <2> QED  BY <2>1, <2>2, HydratedFacts DEF Screen, TextFollows
<1> QED  BY <1>1, <1>3, <1>4, <1>5, <1>6, HydratedShows

LEMMA HydratedAdopts ==
  ASSUME IInv, Hydrated, pushes[1].conv = hydrated.conv, pushes[1].stream # 0,
         hydrated.revision < pushes[1].revision,
         hydrated' = [hydrated EXCEPT !.revision = pushes[1].revision],
         streamConv' = [streamConv EXCEPT ![pushes[1].stream] = pushes[1].conv],
         streaming' = [streaming EXCEPT ![pushes[1].conv] = [stream |-> pushes[1].stream, text |-> 0]]
  PROVE  IInv'
<1> DEFINE c == hydrated.conv
           n == pushes[1].stream
           r == pushes[1].revision
<1>1. /\ c \in Conversations /\ n \in Numbers /\ n # 0 /\ n \in 0..MaxSends /\ r \in {1, 2}
      /\ Begun(stored, queued, n, c)
      /\ streaming \in [Conversations -> [stream : 0..MaxSends, text : Int]]
      /\ streamConv \in [Numbers -> Conversations \union {None}]
      /\ hydrated \in [conv : Conversations \union {None}, revision : {-1, 1, 2, LiveEvent}]
      /\ started \subseteq Numbers
      /\ hydrated.revision < r
      /\ streamConv' = [streamConv EXCEPT ![n] = c]
      /\ streaming' = [streaming EXCEPT ![c] = [stream |-> n, text |-> 0]]
      /\ hydrated' = [hydrated EXCEPT !.revision = r]
  BY HydratedFacts DEF ScreenTypes, Truthful, Numbers
<1>2. hydrated.revision # LiveEvent  BY <1>1 DEF LiveEvent
<1> HIDE DEF c, n, r
<1>3. /\ streaming' \in [Conversations -> [stream : 0..MaxSends, text : Int]]
      /\ streaming'[c].stream = n /\ \A d \in Conversations : d # c => streaming'[d] = streaming[d]
      /\ streamConv' \in [Numbers -> Conversations \union {None}]
      /\ streamConv'[n] = c /\ \A k \in Numbers : k # n => streamConv'[k] = streamConv[k]
      /\ hydrated' \in [conv : Conversations \union {None}, revision : {-1, 1, 2, LiveEvent}]
      /\ hydrated'.conv = hydrated.conv
  <2> DEFINE e == [stream |-> n, text |-> 0]
  <2>1. e \in [stream : 0..MaxSends, text : Int] /\ e.stream = n  BY <1>1
  <2>2. /\ streaming' \in [Conversations -> [stream : 0..MaxSends, text : Int]]
        /\ streaming'[c].stream = n /\ \A d \in Conversations : d # c => streaming'[d] = streaming[d]
    <3>1. streaming' = [streaming EXCEPT ![c] = e] /\ c \in Conversations
          /\ streaming \in [Conversations -> [stream : 0..MaxSends, text : Int]]
      BY <1>1
    <3> HIDE DEF e
    <3> QED  BY <2>1, <3>1
  <2>3. /\ streamConv' \in [Numbers -> Conversations \union {None}]
        /\ streamConv'[n] = c /\ \A k \in Numbers : k # n => streamConv'[k] = streamConv[k]
    BY <1>1
  <2>4. /\ hydrated' \in [conv : Conversations \union {None}, revision : {-1, 1, 2, LiveEvent}]
        /\ hydrated'.conv = hydrated.conv
    BY <1>1
  <2> QED  BY <2>2, <2>3, <2>4
\* No start of a stream of this conversation was seen: it would outrank the reply.
<1>4. \A k \in started : ~Home(stored, k, c)
  <2>1. c # None  BY <1>1, NoneIsNoConversation
  <2> QED  BY <1>2, <2>1, HydratedFacts DEF Screen, StartedIsLive, c
<1>5. Known(stored, queued)'
  <2>1. \A d \in Conversations : streaming'[d].stream # 0 => streamConv'[streaming'[d].stream] = d
    <3> SUFFICES ASSUME NEW d \in Conversations, streaming'[d].stream # 0
                 PROVE  streamConv'[streaming'[d].stream] = d
      OBVIOUS
    <3>1. CASE d = c  BY <1>3, <3>1
    <3>2. CASE d # c
      <4>1. streaming'[d].stream = streaming[d].stream /\ streaming[d].stream \in Numbers
        BY <1>1, <1>3, <3>2 DEF Numbers
      <4>2. streamConv[streaming[d].stream] = d  BY <4>1, HydratedFacts DEF Screen, Known
      <4>3. streaming[d].stream # n
        <5> SUFFICES ASSUME streaming[d].stream = n PROVE FALSE  OBVIOUS
        <5>1. d # None  BY NoneIsNoConversation
        <5>2. Begun(stored, queued, n, d)  BY <4>1, <4>2, <5>1, HydratedFacts DEF Screen, Known
        <5> QED  BY <1>1, <3>2, <5>2, HydratedFacts DEF Places, Begun
      <4> QED  BY <1>3, <4>1, <4>2, <4>3
    <3> QED  BY <3>1, <3>2
  <2>2. \A k \in Numbers : streamConv'[k] # None => Begun(stored, queued, k, streamConv'[k])
    BY <1>1, <1>3, HydratedFacts DEF Screen, Known
  <2>3. \A k \in started : \E d \in Conversations : Begun(stored, queued, k, d)
    BY HydratedFacts DEF Screen, Known
  <2>4. \A m \in messages \cap StoredMessages : Kept(stored, m)
    BY HydratedFacts DEF Screen, Known
  <2> QED  BY <2>1, <2>2, <2>3, <2>4, HydratedFacts DEF Known, Begun, Home, Kept
<1>6. StartedIsLive(stored)'  BY <1>3, <1>4, HydratedFacts DEF StartedIsLive, Home, c
<1>7. TextFollows(run, pushes)'
  <2> SUFFICES ASSUME NEW d \in Conversations, run[d].stream # 0, streaming'[d].stream = run[d].stream,
                      run[d].stream \in started
               PROVE  streaming'[d].text = run[d].chunks - Pending(pushes', run[d].stream)
    BY HydratedFacts DEF TextFollows, Pending, Chunks
  <2>1. Pending(pushes', run[d].stream) = Pending(pushes, run[d].stream)
    BY HydratedFacts, PendingTail
  <2>2. d # c  BY <1>1, <1>3, <1>4 DEF Begun
  <2>3. streaming'[d] = streaming[d]  BY <1>3, <2>2
  <2> QED  BY <2>1, <2>3, HydratedFacts DEF Screen, TextFollows
<1>8. c = pushes[1].conv /\ c = hydrated.conv /\ streaming'[c].stream = pushes[1].stream
  BY <1>3 DEF c, n
<1> QED  BY <1>1, <1>3, <1>5, <1>6, <1>7, <1>8, HydratedShows

LEMMA HydratedStep ==
  ASSUME IInv, Hydrated
  PROVE  IInv'
<1>1. Head(pushes) = pushes[1]  BY HydratedFacts
<1>2. \/ /\ pushes[1].conv # hydrated.conv \/ (pushes[1].stream # 0 /\ hydrated.revision >= pushes[1].revision)
         /\ UNCHANGED <<hydrated, streamConv, streaming>>
      \/ /\ pushes[1].conv = hydrated.conv /\ pushes[1].stream = 0
         /\ streaming' = [streaming EXCEPT ![pushes[1].conv] = NoStream]
         /\ UNCHANGED <<hydrated, streamConv>>
      \/ /\ pushes[1].conv = hydrated.conv /\ pushes[1].stream # 0 /\ hydrated.revision < pushes[1].revision
         /\ hydrated' = [hydrated EXCEPT !.revision = pushes[1].revision]
         /\ streamConv' = [streamConv EXCEPT ![pushes[1].stream] = pushes[1].conv]
         /\ streaming' = [streaming EXCEPT ![pushes[1].conv] = [stream |-> pushes[1].stream, text |-> 0]]
  BY <1>1 DEF Hydrated
<1> QED  BY <1>2, HydratedSkips, HydratedClears, HydratedAdopts

LEMMA MessageSentStep ==
  ASSUME IInv, MessageSent
  PROVE  IInv'
<1> DEFINE p == pushes[1]
           n0 == p.n
<1>1. /\ pushes # <<>> /\ pushes' = Tail(pushes) /\ UNCHANGED <<main, requests, sends>>
      /\ p.kind = "sent" /\ n0 \in Numbers /\ p.ok \in BOOLEAN /\ mounted /\ p.visit = visit
      /\ visit' = visit /\ mounted' = mounted /\ sending' = [n |-> 0, new |-> FALSE]
      /\ streaming' = streaming /\ streamConv' = streamConv /\ banner' = banner
      /\ hydrated' = hydrated /\ started' = started
      /\ \/ /\ p.ok
            /\ messages' = IF Optimistic(n0) \in messages
                           THEN (messages \ {Optimistic(n0)}) \cup {User(n0)} ELSE messages
            /\ active' = active
         \/ /\ ~p.ok /\ sending.new
            /\ active' = None /\ messages' = {}
         \/ /\ ~p.ok /\ ~sending.new
            /\ messages' = (messages \ {Optimistic(n0)}) \cup {Failed(n0)}
            /\ active' = active
  <2>1. /\ pushes # <<>> /\ pushes' = Tail(pushes) /\ Head(pushes) = p
        /\ p.kind = "sent" /\ p \in PushMessage /\ mounted
    BY ArrivesFacts DEF MessageSent
  <2> QED  BY <2>1, PushFields DEF MessageSent, IsCurrent
<1>2. /\ ScreenTypes /\ ScreenIsOpen /\ Inv(stored, queued, run, owed, requests, pushes)
      /\ stored' = stored /\ queued' = queued /\ run' = run /\ sends' = sends /\ pushes \in Seq(PushMessage)
      /\ Places(stored, queued, run, owed, requests, pushes)
      /\ Truthful(stored, queued, p) /\ Screen(stored, queued, run, pushes)
      /\ stored \in [Conversations -> SUBSET StoredMessages]
  BY <1>1, FirstPush DEF Inv
<1>3. /\ Types(stored, queued, run, owed, requests, pushes)'
      /\ Places(stored, queued, run, owed, requests, pushes)'
      /\ Wire(stored, queued, run, pushes)'
  BY <1>1, FirstPush
<1>4. /\ \A c \in Conversations : Seen(run, pushes, c) => Seen(run, pushes, c)'
      /\ NoGhost(run, pushes)' /\ RevisionSeen(run, pushes)' /\ StartedIsLive(stored)'
      /\ TextFollows(run, pushes)'
  BY <1>1, QuietPush
<1>5. /\ Carried(p) = {m \in {User(n0)} : p.ok}
      /\ User(n0) \in StoredMessages /\ User(n0) \in ShownMessages
      /\ Failed(n0) \in FailedSends /\ Failed(n0) \in ShownMessages
  BY <1>1 DEF Carried, StoredMessages, ShownMessages, FailedSends
<1>6. /\ Failed(n0) \notin StoredMessages /\ Optimistic(n0) \notin StoredMessages
      /\ Optimistic(n0) \notin FailedSends
      /\ \A n \in Numbers : Optimistic(n0) = Optimistic(n) => n = n0
  BY DEF StoredMessages, FailedSends, Optimistic, User, Answer, Failure, Failed, Old
<1>7. messages' \cap StoredMessages \subseteq messages \union Carried(p)
  BY <1>1, <1>5, <1>6
<1>8. messages' \subseteq messages \union {User(n0), Failed(n0)}  BY <1>1
<1>9. active' = active \/ active' = None  BY <1>1
<1>10. ScreenTypes' /\ ScreenIsOpen'
  <2>1. messages' \subseteq ShownMessages  BY <1>2, <1>5, <1>8 DEF ScreenTypes
  <2>2. sending' \in [n : 0..MaxSends, new : BOOLEAN]  BY <1>1, BoundsAreNumbers
  <2>3. active' \in Conversations \union {None}  BY <1>2, <1>9 DEF ScreenTypes
  <2>4. ScreenTypes'  BY <1>1, <1>2, <2>1, <2>2, <2>3 DEF ScreenTypes
  <2>5. ScreenIsOpen'  BY <1>1, <1>2, <1>9 DEF ScreenIsOpen
  <2> QED  BY <2>4, <2>5
<1>11. Known(stored, queued)'
  <2>1. \A m \in messages' \cap StoredMessages : Kept(stored, m)
    BY <1>2, <1>7 DEF Screen, Known, Truthful
  <2> QED  BY <1>1, <1>2, <2>1 DEF Screen, Known, Kept, Home, Begun
<1>12. ListsReplace(stored, pushes)'  BY <1>1, <1>7, ListsStay
<1>13. Coming(stored, run, owed, requests, pushes)'
  <2>1. CASE active' = None  BY <2>1 DEF Coming, RunIsComing, ListIsComing
  <2>2. CASE active' # None
    <3>1. active' = active /\ active \in Conversations  BY <1>2, <1>9, <2>2 DEF ScreenTypes
    <3>2. active # None /\ run[active].stream # 0 /\ Seen(run, pushes, active) => Seen(run, pushes, active)'
      BY <1>4, <3>1
    <3>3. \A m \in messages : m # Optimistic(n0) /\ Fits(stored, owed, requests, pushes, m, active) =>
                                Fits(stored, owed, requests, Tail(pushes), m, active)
      BY <1>1, <1>2, FitsStays
\* The message that was shown before it was stored is stored in this conversation.
    <3>4. p.ok /\ Fits(stored, owed, requests, pushes, Optimistic(n0), active) => User(n0) \in stored[active]
      <4> SUFFICES ASSUME p.ok, Fits(stored, owed, requests, pushes, Optimistic(n0), active)
                   PROVE  Home(stored, n0, active)
        BY DEF Home
      <4>1. OnItsWay(stored, owed, requests, pushes, n0, active)
        BY <1>1, <1>2, <1>6, <3>1 DEF Fits
      <4>2. \E c \in Conversations : Home(stored, n0, c)
        BY <1>2, <1>5 DEF Truthful, Kept, Home
      <4>3. \A i \in 1..Len(requests) : requests[i].kind = "send" => requests[i].n # n0
        BY <1>2, <4>2 DEF Places
      <4>4. \A i \in 1..Len(pushes) : pushes[i].kind = "sent" /\ pushes[i].n = n0 => pushes[i].ok
        BY <1>2, <4>2 DEF Places
      <4> QED  BY <4>1, <4>3, <4>4 DEF OnItsWay
    <3>5. (\A m \in messages : Fits(stored, owed, requests, pushes, m, active)) =>
            \A m \in messages' : Fits(stored, owed, requests, Tail(pushes), m, active)
      <4> SUFFICES ASSUME \A m \in messages : Fits(stored, owed, requests, pushes, m, active),
                          NEW m \in messages'
                   PROVE  Fits(stored, owed, requests, Tail(pushes), m, active)
        OBVIOUS
      <4>1. CASE m = Failed(n0)  BY <1>5, <4>1 DEF Fits
      <4>2. CASE m # Failed(n0) /\ m \in messages /\ m # Optimistic(n0)  BY <3>3, <4>2
      <4>3. CASE m # Failed(n0) /\ ~(m \in messages /\ m # Optimistic(n0))
        <5>1. p.ok /\ Optimistic(n0) \in messages /\ m = User(n0)  BY <1>1, <2>2, <4>3
        <5>2. m \in stored[active]  BY <3>4, <5>1
        <5> QED  BY <5>2 DEF Fits
      <4> QED  BY <4>1, <4>2, <4>3
    <3>6. pushes[1].kind # "runtime" /\ pushes[1].kind # "messages"  BY <1>1
    <3> QED  BY <1>1, <3>1, <3>2, <3>5, <3>6, Arrived
  <2> QED  BY <2>1, <2>2
<1> QED  BY <1>3, <1>4, <1>10, <1>11, <1>12, <1>13 DEF IInv, Inv, Screen

-----------------------------------------------------------------------------
(* The invariant holds from the start and after every step.                *)

LEMMA InitHolds ==
  ASSUME Init
  PROVE  IInv
<1>1. /\ stored = [c \in Conversations |-> IF c \in Existing THEN {Old(c)} ELSE {}]
      /\ queued = [c \in Conversations |-> {}] /\ run = [c \in Conversations |-> NoRun]
      /\ owed = {} /\ requests = <<>> /\ pushes = <<>>
      /\ sends = 0 /\ visit = 0 /\ mounted = FALSE
      /\ active = None /\ messages = {}
      /\ streaming = [c \in Conversations |-> NoStream]
      /\ streamConv = [n \in Numbers |-> None] /\ banner = [c \in Conversations |-> 0]
      /\ hydrated = [conv |-> None, revision |-> -1]
      /\ sending = [n |-> 0, new |-> FALSE] /\ started = {}
  BY DEF Init
<1>2. 0 \in 0..MaxSends /\ NoRun \in RunEntry /\ NoRun.stream = 0 /\ NoRun.task = 0
      /\ NoStream \in [stream : 0..MaxSends, text : Int] /\ NoStream.stream = 0
  BY BoundsAreNumbers DEF NoRun, NoStream, RunEntry
<1> HIDE DEF NoRun, NoStream
<1>3. \A c \in Conversations, n \in Numbers :
        User(n) \notin stored[c] /\ Answer(n) \notin stored[c] /\ Failure(n) \notin stored[c]
  BY <1>1 DEF User, Answer, Failure, Old
<1>4. Types(stored, queued, run, owed, requests, pushes)
  <2>1. \A c \in Existing : Old(c) \in StoredMessages  BY DEF StoredMessages
  <2>2. stored \in [Conversations -> SUBSET StoredMessages]  BY <1>1, <2>1
  <2>3. requests \in Seq(Request) /\ pushes \in Seq(PushMessage)  BY <1>1
  <2> QED  BY <1>1, <1>2, <2>2, <2>3 DEF Types
<1>5. ScreenTypes
  <2>1. sending \in [n : 0..MaxSends, new : BOOLEAN]  BY <1>1, <1>2
  <2>2. hydrated \in [conv : Conversations \union {None}, revision : {-1, 1, 2, LiveEvent}]  BY <1>1
  <2> QED  BY <1>1, <1>2, <2>1, <2>2 DEF ScreenTypes
<1>6. ScreenIsOpen  BY <1>1, <1>2 DEF ScreenIsOpen, Blank
<1>7. Places(stored, queued, run, owed, requests, pushes)
  BY <1>1, <1>2, <1>3 DEF Places, Home, Begun
<1>8. Wire(stored, queued, run, pushes)
  BY <1>1 DEF Wire, AllTruthful, EndsFollow, EndsAreFinal, StartsFollow, ChunksFollow, ListsGrow
<1>9. Screen(stored, queued, run, pushes)
  BY <1>1, <1>2 DEF Screen, Known, ListsReplace, NoGhost, RevisionSeen, StartedIsLive, TextFollows
<1>10. Coming(stored, run, owed, requests, pushes)
  BY <1>1 DEF Coming, RunIsComing, ListIsComing
<1> QED  BY <1>4, <1>5, <1>6, <1>7, <1>8, <1>9, <1>10 DEF IInv, Inv

LEMMA StepHolds ==
  ASSUME IInv, [Next]_vars
  PROVE  IInv'
<1>1. CASE UNCHANGED vars
  <2>1. /\ stored' = stored /\ queued' = queued /\ run' = run /\ owed' = owed
        /\ requests' = requests /\ pushes' = pushes /\ UNCHANGED <<sends, visit, mounted, shown>>
    BY <1>1 DEF vars, main
  <2>2. Inv(stored', queued', run', owed', requests', pushes')  BY <2>1 DEF IInv
  <2> QED  BY <2>1, <2>2, SameScreen DEF IInv
<1>2. ASSUME NEW c \in Conversations, RunFails(c)
      PROVE  IInv'
  BY <1>2, StopsStep DEF RunFails
<1>3. ASSUME NEW c \in Conversations, RunIsCancelled(c)
      PROVE  IInv'
  BY <1>3, StopsStep DEF RunIsCancelled
<1>4. ASSUME NEW c \in Conversations,
             \/ resume(c) \/ onChunk(c) \/ onWaitingForHuman(c) \/ RunSucceeds(c)
             \/ completeQueueItemAsTask(c) \/ handleSelectConversation(c) \/ handleSend(c)
      PROVE  IInv'
  BY <1>4, ResumeStep, ChunkStep, WaitingStep, SucceedsStep, TaskStep, SelectStep, SendStep
<1>5. ASSUME \/ HandleMessages \/ HandleRuntimeState \/ HandleSend \/ HandleReturnControl
             \/ \E o \in owed : ReplyToSend(o)
      PROVE  IInv'
  BY <1>5, MessagesRequestStep, RuntimeRequestStep, SendRequestStep, ReturnControlStep, ReplyStep
<1>6. ASSUME Mount \/ Unmount \/ handleNewConversation \/ returnBrowserControl
      PROVE  IInv'
  BY <1>6, MountStep, UnmountStep, NewStep, ReturnStep
<1>7. ASSUME \/ IsLost \/ onStreamStart \/ onStreamChunk \/ onStreamEnd \/ onWaiting
             \/ MessagesLoaded \/ Hydrated \/ MessageSent
      PROVE  IInv'
  BY <1>7, LostStep, StartEventStep, ChunkEventStep, EndEventStep, WaitingEventStep,
     MessagesLoadedStep, HydratedStep, MessageSentStep
<1> QED  BY <1>1, <1>2, <1>3, <1>4, <1>5, <1>6, <1>7 DEF Next

\* What the invariant says once nothing is on its way, and before.
LEMMA ShownIsSo ==
  ASSUME IInv
  PROVE  StreamsMatchRuns /\ TextIsWhole /\ ViewIsStored
<1>1. ScreenTypes /\ ScreenIsOpen /\ Inv(stored, queued, run, owed, requests, pushes)
      /\ Screen(stored, queued, run, pushes) /\ Coming(stored, run, owed, requests, pushes)
      /\ (active # None => active \in Conversations)
  BY DEF IInv, Inv, ScreenTypes
<1>2. NoGhostStream  BY <1>1 DEF NoGhostStream, Screen, NoGhost, Ends
<1>3. LiveRunIsShown
  <2> SUFFICES ASSUME active # None, requests = <<>>, pushes = <<>>, run[active].stream # 0
               PROVE  streaming[active].stream = run[active].stream
    BY DEF LiveRunIsShown, Settled
  <2>1. ~(\E i \in 1..Len(requests) : TRUE) /\ ~(\E i \in 1..Len(pushes) : TRUE)  OBVIOUS
  <2> QED  BY <1>1, <2>1 DEF Coming, RunIsComing, Seen
<1>4. TextIsWhole
  <2> SUFFICES ASSUME active # None, streaming[active].stream \in started,
                      run[active].stream = streaming[active].stream
               PROVE  streaming[active].text = run[active].chunks - Pending(pushes, run[active].stream)
    BY DEF TextIsWhole, Pending, Chunks
  <2>1. run[active].stream # 0  BY <1>1, BoundsAreNumbers DEF ScreenTypes, Numbers
  <2> QED  BY <1>1, <2>1 DEF Screen, TextFollows
<1>5. ViewIsStored
  <2> SUFFICES ASSUME active # None, requests = <<>>, pushes = <<>>, owed = {},
                      NEW m \in messages, m \notin FailedSends
               PROVE  m \in stored[active]
    BY DEF ViewIsStored, Settled
  <2>1. ~(\E i \in 1..Len(requests) : TRUE) /\ ~(\E i \in 1..Len(pushes) : TRUE)  OBVIOUS
  <2>2. Fits(stored, owed, requests, pushes, m, active)  BY <1>1, <2>1 DEF Coming, ListIsComing
  <2>3. \A n \in Numbers : ~OnItsWay(stored, owed, requests, pushes, n, active)  BY <2>1 DEF OnItsWay
  <2> QED  BY <2>2, <2>3 DEF Fits
<1> QED  BY <1>2, <1>3, <1>4, <1>5 DEF StreamsMatchRuns

\* No step takes a stored message off the screen of the conversation that stays open.
LEMMA StepKeepsShown ==
  ASSUME IInv, [Next]_vars, active # None, active' = active
  PROVE  messages \cap stored[active] \subseteq messages'
<1>1. /\ active \in Conversations /\ stored \in [Conversations -> SUBSET StoredMessages]
      /\ pushes \in Seq(PushMessage) /\ ListsReplace(stored, pushes)
  BY DEF IInv, Inv, Types, Screen, ScreenTypes
<1>2. \A n : Optimistic(n) \notin stored[active]
  BY <1>1 DEF StoredMessages, Optimistic, User, Answer, Failure, Old
<1>3. ASSUME MessagesLoaded PROVE messages \cap stored[active] \subseteq messages'
  <2>1. /\ pushes # <<>> /\ Head(pushes) = pushes[1] /\ pushes[1].kind = "messages"
        /\ messages' = IF pushes[1].conv = active THEN pushes[1].msgs ELSE messages
    BY <1>1, <1>3, TailFacts DEF MessagesLoaded, Arrives
  <2>2. 1 \in 1..Len(pushes)  BY <1>1, <2>1
  <2> QED  BY <1>1, <2>1, <2>2 DEF ListsReplace
<1>4. ASSUME MessageSent PROVE messages \cap stored[active] \subseteq messages'
  BY <1>2, <1>4 DEF MessageSent
<1>5. ASSUME \/ \E c \in Conversations : handleSend(c)
             \/ onStreamEnd
      PROVE  messages \subseteq messages'
  BY <1>5 DEF handleSend, onStreamEnd
<1>6. ASSUME Unmount \/ handleNewConversation PROVE FALSE
  BY <1>6 DEF Unmount, EmptyScreen, handleNewConversation
<1>7. ASSUME \/ \E c \in Conversations : \/ resume(c) \/ onChunk(c) \/ onWaitingForHuman(c)
                                         \/ RunSucceeds(c) \/ RunFails(c) \/ RunIsCancelled(c)
                                         \/ completeQueueItemAsTask(c) \/ handleSelectConversation(c)
             \/ UNCHANGED vars
             \/ Mount \/ returnBrowserControl
      PROVE  messages' = messages
  BY <1>7 DEF resume, onChunk, onWaitingForHuman, RunSucceeds, RunFails, RunIsCancelled, RunStops,
              completeQueueItemAsTask, handleSelectConversation, Mount, returnBrowserControl, shown, vars
<1>8. ASSUME \/ HandleMessages \/ HandleRuntimeState \/ HandleSend \/ HandleReturnControl
             \/ \E o \in owed : ReplyToSend(o)
             \/ IsLost \/ onStreamStart \/ onStreamChunk \/ onWaiting \/ Hydrated
      PROVE  messages' = messages
  BY <1>8 DEF HandleMessages, HandleRuntimeState, HandleSend, HandleReturnControl, ReplyToSend,
              IsLost, onStreamStart, onStreamChunk, onWaiting, Hydrated, shown
<1> QED  BY <1>3, <1>4, <1>5, <1>6, <1>7, <1>8 DEF Next

-----------------------------------------------------------------------------
(* The invariant of the chat screen: what the screen shows is so, or what  *)
(* makes it so is on its way in the order that makes it so.                *)
THEOREM ChatInvariant == Spec => []IInv
<1>1. Init => IInv  BY InitHolds
<1>2. IInv /\ [Next]_vars => IInv'  BY StepHolds
<1> QED  BY <1>1, <1>2, PTL DEF Spec

(* A stream is shown for the runs that go on, and for no other (the        *)
(* hydration effect and the stream subscriptions of ChatScreen.tsx).       *)
THEOREM StreamsMatch == Spec => []StreamsMatchRuns
<1>1. IInv => StreamsMatchRuns  BY ShownIsSo
<1> QED  BY <1>1, ChatInvariant, PTL

(* No late reply about a run's state puts the text of the run back to the  *)
(* start (lastHydratedRevisionRef).                                        *)
THEOREM TextWhole == Spec => []TextIsWhole
<1>1. IInv => TextIsWhole  BY ShownIsSo
<1> QED  BY <1>1, ChatInvariant, PTL

(* Once everything has arrived the screen shows stored messages of the     *)
(* open conversation and errors of sends (the messages effect, handleSend  *)
(* and onStreamEnd).                                                       *)
THEOREM ViewStored == Spec => []ViewIsStored
<1>1. IInv => ViewIsStored  BY ShownIsSo
<1> QED  BY <1>1, ChatInvariant, PTL

(* A stored message on the screen stays there as long as its conversation  *)
(* is open (the messages effect and handleSend).                           *)
THEOREM StoredStaysShown == Spec => ShownStays
<1>1. IInv /\ [Next]_vars =>
        [active # None /\ active' = active => messages \cap stored[active] \subseteq messages']_vars
  BY StepKeepsShown
<1> QED  BY <1>1, ChatInvariant, PTL DEF Spec, ShownStays

=============================================================================
