--------------------------- MODULE AgentRunContract ---------------------------
(***************************************************************************)
(* What the queue and the task runtime expect of one run of the agent      *)
(* loop: it works until it has an answer, fails, or was aborted; it begins *)
(* nothing after an abort; it gives an answer only as it completes.  This  *)
(* is the run of ConversationQueue, with the tool calls it makes.          *)
(***************************************************************************)
EXTENDS Naturals

VARIABLES phase,   \* what the run does
          aborted, \* its abort signal
          calls    \* tool calls of the turn that have not ended

vars == <<phase, aborted, calls>>

Ended == {"completed", "failed", "cancelled"}

Init == phase = "thinking" /\ aborted \in BOOLEAN /\ calls = 0

\* A turn of the model begins at least one call.
BeginCalls == /\ phase = "thinking"
              /\ ~aborted
              /\ phase' = "acting"
              /\ calls' \in Nat \ {0}

NextCall == /\ phase = "acting"
            /\ ~aborted
            /\ calls > 1
            /\ calls' = calls - 1
            /\ UNCHANGED phase

LastCallEnds == /\ phase = "acting"
                /\ calls = 1
                /\ phase' \in {"thinking", "failed"}
                /\ aborted => phase' = "failed"
                /\ calls' = 0

AskHuman == phase = "thinking" /\ ~aborted /\ phase' = "waiting" /\ UNCHANGED calls

ReturnControl == phase = "waiting" /\ ~aborted /\ phase' = "thinking" /\ UNCHANGED calls

Answer == phase = "thinking" /\ ~aborted /\ phase' = "completed" /\ UNCHANGED calls

Fail == phase = "thinking" /\ phase' = "failed" /\ UNCHANGED calls

Cancel == phase \notin Ended /\ aborted /\ phase' = "cancelled" /\ calls' = 0

Abort == phase \notin Ended /\ ~aborted /\ aborted' = TRUE /\ UNCHANGED <<phase, calls>>

Step == BeginCalls \/ NextCall \/ LastCallEnds \/ AskHuman \/ ReturnControl \/ Answer \/ Fail
        \/ Cancel

Next == Abort \/ (Step /\ UNCHANGED aborted)

Safety == Init /\ [][Next]_vars

\* An aborted run ends.
Spec == Safety /\ (aborted ~> phase \in Ended)

=============================================================================
