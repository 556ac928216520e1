----------------------------- MODULE Permissions -----------------------------
(***************************************************************************)
(* The permission engine: src/main/permissions/permission-engine.ts with   *)
(* its store, the check every tool makes (tool-executor.ts), the handlers  *)
(* of PERMISSION_IPC (ipc/handlers.ts) and the queue of approval dialogs   *)
(* of the renderer (App.tsx).                                              *)
(*                                                                         *)
(* A run is one request of the queue or one step of a task; it makes one   *)
(* tool call at a time, under an id the model chooses, so that ids repeat. *)
(* A check that needs nobody's answer and the act of its tool are one      *)
(* synchronous segment, and so are an answer and the act it allows.        *)
(*                                                                         *)
(* Abstracted: what a tool does; what a model passes, up to a call that    *)
(* follows the schema of its tool and one that passes nothing.             *)
(***************************************************************************)
EXTENDS ToolExecutor, Integers, Sequences, FiniteSets

CONSTANTS Runs,      \* requests of the queue and steps of tasks
          TaskRuns,  \* the steps among them
          Projects,
          NoProject, \* a conversation outside of projects
          ProjectOf, \* the project of each run
          CallIds,   \* ids of tool calls
          Tools,     \* the tools the models call
          Settable,  \* the capabilities whose policy the user sets
          Policies,  \* the policies the user sets
          MaxAsks    \* bound: questions ever put to the user

ASSUME PermissionAssumption == /\ TaskRuns \subseteq Runs
                               /\ NoProject \notin Projects
                               /\ ProjectOf \in [Runs -> Projects \union {NoProject}]
                               /\ Tools \subseteq KNOWN_TOOL_NAMES
                               /\ Settable \subseteq KnownCapability
                               /\ Policies \subseteq Policy
                               /\ MaxAsks \in Nat

VARIABLES preset,    \* CapabilityPolicyStore, in the settings file: the preset,
          globals,   \* globalPolicies
          overrides, \* and projectOverrides
          sessions,  \* _sessionGrants
          once,      \* _allowOnceGrants
          pending,   \* _pendingApprovals
          asked,     \* the last id of an approval
          channel,   \* events on their way to the renderer
          dialogs,   \* approvalQueue of the renderer
          answers,   \* answers on their way to the main process
          outcome,   \* where the tool call of each run stands, or how its last one ended
          aborted,   \* runs whose abort signal is set
          credit     \* history: allow_once answers of a run, less uses of their grants

store == <<preset, globals, overrides>>
grants == <<sessions, once>>
window == <<channel, dialogs, answers>>
vars == <<store, grants, pending, asked, window, outcome, aborted, credit>>

-----------------------------------------------------------------------------
(* Types *)

\* The scope of a session grant given outside of a project by its dialog.
Everywhere == "__global__"

Scopes == Projects \union {NoProject, Everywhere}

Key == [run : Runs, callId : CallIds, cap : KnownCapability]

Approval == [id : 1..MaxAsks, key : Key]

Action == {"allow_once", "allow_session", "allow_project", "always_allow", "deny"}

TypeOK == /\ preset \in Preset \union {Unset}
          /\ DOMAIN globals \subseteq KnownCapability
          /\ \A c \in DOMAIN globals : globals[c] \in Policy
          /\ DOMAIN overrides = Projects
          /\ \A p \in Projects : /\ DOMAIN overrides[p] \subseteq KnownCapability
                                 /\ \A c \in DOMAIN overrides[p] : overrides[p][c] \in Policy
          /\ sessions \subseteq KnownCapability \X Scopes
          /\ once \subseteq Key
          /\ pending \subseteq Approval
          /\ asked \in 0..MaxAsks
          /\ channel \in Seq([kind : {"request", "cancelled"}, approval : Approval])
          /\ dialogs \in Seq(Approval)
          /\ answers \subseteq [id : 1..MaxAsks, action : Action]
          /\ outcome \in [Runs -> {"none", "malformed", "unknown", "denied", "asking",
                                   "withdrawn", "acted"}]
          /\ aborted \subseteq Runs
          /\ credit \in [Runs -> Int]

Init == /\ preset = Unset
        /\ globals = <<>>
        /\ overrides = [p \in Projects |-> <<>>]
        /\ sessions = {}
        /\ once = {}
        /\ pending = {}
        /\ asked = 0
        /\ channel = <<>>
        /\ dialogs = <<>>
        /\ answers = {}
        /\ outcome = [r \in Runs |-> "none"]
        /\ aborted = {}
        /\ credit = [r \in Runs |-> 0]

-----------------------------------------------------------------------------
(* The decision *)

Put(policies, cap, policy) ==
  [c \in DOMAIN policies \union {cap} |-> IF c = cap THEN policy ELSE policies[c]]

Drop(policies, cap) == [c \in DOMAIN policies \ {cap} |-> policies[c]]

\* A grant for the call itself is looked for before this.
resolvePermission(cap, project) ==
  CASE {<<cap, project>>, <<cap, Everywhere>>} \intersect sessions # {} -> "ALLOW"
    [] OTHER ->
         policyToDecision(
           IF project \in Projects /\ cap \in DOMAIN overrides[project]
             THEN overrides[project][cap]
           ELSE IF cap \in DOMAIN globals THEN globals[cap]
           ELSE IF preset # Unset THEN resolveFromPreset(cap, preset)
           ELSE getCapability(cap).defaultPolicy)

-----------------------------------------------------------------------------
(* The tool call of a run *)

Finish(r, how) == outcome' = [outcome EXCEPT ![r] = how]

\* requestPermissionApproval: the dialog of the renderer is asked for.
Ask(key) ==
  LET approval == [id |-> asked + 1, key |-> key]
  IN  /\ asked < MaxAsks
      /\ asked' = asked + 1
      /\ pending' = pending \union {approval}
      /\ channel' = Append(channel, [kind |-> "request", approval |-> approval])
      /\ Finish(key.run, "asking")
      /\ UNCHANGED <<once, credit, dialogs, answers>>

\* Fault: the grant for one call is not consumed.
checkPermission_KeepsGrant(key) ==
  IF key \in once
    THEN /\ credit' = [credit EXCEPT ![key.run] = @ - 1]
         /\ Finish(key.run, "acted")
         /\ UNCHANGED <<once, pending, asked, window>>
    ELSE LET decision == resolvePermission(key.cap, ProjectOf[key.run])
         IN  \/ decision = "ASK" /\ Ask(key)
             \/ /\ decision # "ASK"
                /\ Finish(key.run, IF decision = "ALLOW" THEN "acted" ELSE "denied")
                /\ UNCHANGED <<once, credit, pending, asked, window>>

checkPermission(key) ==
  IF key \in once
    THEN /\ once' = once \ {key}
         /\ credit' = [credit EXCEPT ![key.run] = @ - 1]
         /\ Finish(key.run, "acted")
         /\ UNCHANGED <<pending, asked, window>>
    ELSE LET decision == resolvePermission(key.cap, ProjectOf[key.run])
         IN  \/ decision = "ASK" /\ Ask(key)
             \/ /\ decision # "ASK"
                /\ Finish(key.run, IF decision = "ALLOW" THEN "acted" ELSE "denied")
                /\ UNCHANGED <<once, credit, pending, asked, window>>

\* The loop looks at the abort signal before each call, never while one waits.
executeProjectTool(r, tool, callId, args) ==
  /\ r \notin aborted
  /\ outcome[r] # "asking"
  /\ \/ /\ ~validateToolCall(tool, args)
        /\ Finish(r, "malformed")
        /\ UNCHANGED <<once, credit, pending, asked, window>>
     \/ /\ validateToolCall(tool, args)
        /\ \E cap \in handlerOf(tool).needs :
             CASE cap = NoCapability -> /\ Finish(r, "acted")
                                        /\ UNCHANGED <<once, credit, pending, asked, window>>
               [] cap # NoCapability /\ ~isKnownCapability(cap) ->
                    /\ Finish(r, "unknown")
                    /\ UNCHANGED <<once, credit, pending, asked, window>>
               [] OTHER -> checkPermission([run |-> r, callId |-> callId, cap |-> cap])
  /\ UNCHANGED <<store, sessions, aborted>>

-----------------------------------------------------------------------------
(* The user answers, and the dialogs of the renderer *)

\* allow_once acts now, and leaves a grant for one more call of the same id.
applyApprovalAction(action, key) ==
  LET project == ProjectOf[key.run]
  IN  CASE action = "allow_once" ->
             /\ once' = once \union {key}
             /\ credit' = [credit EXCEPT ![key.run] = @ + 1]
             /\ UNCHANGED <<store, sessions>>
        [] action = "allow_session" ->
             /\ sessions' = sessions \union {<<key.cap, project>>}
             /\ UNCHANGED <<store, once, credit>>
        [] action = "allow_project" /\ project \in Projects ->
             /\ overrides' = [overrides EXCEPT ![project] = Put(@, key.cap, "ALLOW_PROJECT")]
             /\ UNCHANGED <<preset, globals, grants, credit>>
        [] action = "allow_project" /\ project \notin Projects ->
             /\ sessions' = sessions \union {<<key.cap, Everywhere>>}
             /\ UNCHANGED <<store, once, credit>>
        [] action = "always_allow" ->
             /\ globals' = Put(globals, key.cap, "ALWAYS_ALLOW")
             /\ UNCHANGED <<preset, overrides, grants, credit>>
        [] action = "deny" -> UNCHANGED <<store, grants, credit>>

\* An answer for an approval that is gone is dropped.
respondToApproval(answer) ==
  /\ answer \in answers
  /\ answers' = answers \ {answer}
  /\ \/ /\ \A p \in pending : p.id # answer.id
        /\ UNCHANGED <<pending, outcome, store, grants, credit>>
     \/ \E p \in pending :
          /\ p.id = answer.id
          /\ pending' = pending \ {p}
          /\ applyApprovalAction(answer.action, p.key)
          /\ Finish(p.key.run, IF answer.action = "deny" THEN "denied" ELSE "acted")
  /\ UNCHANGED <<asked, channel, dialogs, aborted>>

\* The dialogs but for those of an approval, in their order: the set of the one such sequence.
Without(approval) ==
  LET others == {d \in DOMAIN dialogs : dialogs[d] # approval}
  IN  {[k \in 1..Cardinality(others) |-> dialogs[at[k]]] :
         at \in {at \in [1..Cardinality(others) -> others] :
                  \A j, k \in DOMAIN at : j < k => at[j] < at[k]}}

\* Fault: the last approval takes the place of the one shown.
showApproval_Replaces ==
  /\ channel # <<>>
  /\ channel' = Tail(channel)
  /\ IF Head(channel).kind = "cancelled" THEN dialogs' \in Without(Head(channel).approval)
                                         ELSE dialogs' = <<Head(channel).approval>>
  /\ UNCHANGED <<store, grants, pending, asked, answers, outcome, aborted, credit>>

\* The renderer queues each approval, and drops one that was cancelled.
showApproval ==
  /\ channel # <<>>
  /\ channel' = Tail(channel)
  /\ IF Head(channel).kind = "cancelled"
       THEN dialogs' \in Without(Head(channel).approval)
       ELSE dialogs' = Append(dialogs, Head(channel).approval)
  /\ UNCHANGED <<store, grants, pending, asked, answers, outcome, aborted, credit>>

\* The first approval is the one shown; allow_project is offered in a project.
handleApprovalResponse(action) ==
  /\ dialogs # <<>>
  /\ action = "allow_project" => ProjectOf[Head(dialogs).key.run] \in Projects
  /\ answers' = answers \union {[id |-> Head(dialogs).id, action |-> action]}
  /\ dialogs' = Tail(dialogs)
  /\ UNCHANGED <<store, grants, pending, asked, channel, outcome, aborted, credit>>

\* The window is loaded again: its queue was in its memory.
reload ==
  /\ dialogs' = <<>>
  /\ channel' = <<>>
  /\ dialogs # <<>> \/ channel # <<>>
  /\ UNCHANGED <<store, grants, pending, asked, answers, outcome, aborted, credit>>

-----------------------------------------------------------------------------
(* Stop, and the end of the program *)

\* cancelPendingApprovals of a request, which has one question open at most.
Withdraw(r) ==
  LET mine == {p \in pending : p.key.run = r}
  IN  /\ pending' = pending \ mine
      /\ channel' = IF mine = {} THEN channel
                    ELSE Append(channel, [kind |-> "cancelled",
                                          approval |-> CHOOSE p \in mine : TRUE])
      /\ outcome' = [outcome EXCEPT ![r] = IF @ = "asking" THEN "withdrawn" ELSE @]

\* Fault: Stop leaves the dialog of its run open.
Stop_LeavesDialog(r) ==
  /\ r \in Runs \ TaskRuns
  /\ r \notin aborted
  /\ aborted' = aborted \union {r}
  /\ UNCHANGED <<store, grants, asked, dialogs, answers, credit, pending, channel, outcome>>

\* cancelStream, and the callback that withdraws the approvals of the request.
Stop(r) ==
  /\ r \in Runs \ TaskRuns
  /\ r \notin aborted
  /\ aborted' = aborted \union {r}
  /\ Withdraw(r)
  /\ UNCHANGED <<store, grants, asked, dialogs, answers, credit>>

\* A step of a task is aborted by its signal alone: its approval stays, and an
\* answer lets its tool act.
abortTaskStep(r) ==
  /\ r \in TaskRuns \ aborted
  /\ aborted' = aborted \union {r}
  /\ UNCHANGED <<store, grants, pending, asked, window, outcome, credit>>

\* The store survives; what was in memory does not.  Every execution has an id of
\* its own: from now on Runs are others.
restart ==
  /\ sessions' = {}
  /\ once' = {}
  /\ pending' = {}
  /\ channel' = <<>>
  /\ dialogs' = <<>>
  /\ answers' = {}
  /\ aborted' = {}
  /\ outcome' = [r \in Runs |-> "none"]
  /\ credit' = [r \in Runs |-> 0]
  /\ UNCHANGED <<store, asked>>

-----------------------------------------------------------------------------
(* The settings *)

Settings == UNCHANGED <<pending, asked, window, outcome, aborted, credit, once>>

setGlobalPolicy(cap, policy) == /\ globals' = Put(globals, cap, policy)
                                /\ UNCHANGED <<preset, overrides, sessions>>
                                /\ Settings

resetGlobalPolicies == globals' = <<>> /\ UNCHANGED <<preset, overrides, sessions>> /\ Settings

setProjectPolicy(p, cap, policy) == /\ overrides' = [overrides EXCEPT ![p] = Put(@, cap, policy)]
                                    /\ UNCHANGED <<preset, globals, sessions>>
                                    /\ Settings

clearProjectPolicy(p, cap) == /\ overrides' = [overrides EXCEPT ![p] = Drop(@, cap)]
                              /\ UNCHANGED <<preset, globals, sessions>>
                              /\ Settings

resetProjectPolicies(p) == /\ overrides' = [overrides EXCEPT ![p] = <<>>]
                           /\ UNCHANGED <<preset, globals, sessions>>
                           /\ Settings

setPreset(p) == preset' = p /\ UNCHANGED <<globals, overrides, sessions>> /\ Settings

clearPreset == preset' = Unset /\ UNCHANGED <<globals, overrides, sessions>> /\ Settings

grantSession(cap, scope) == /\ sessions' = sessions \union {<<cap, scope>>}
                            /\ UNCHANGED store
                            /\ Settings

revokeSession(cap, scope) == /\ sessions' = sessions \ {<<cap, scope>>}
                             /\ UNCHANGED store
                             /\ Settings

\* The handlers of PERMISSION_IPC that change the policies.  The settings dialog
\* uses the first, the preset and its removal; the preload exposes all.
ChangeSettings ==
  \/ \E cap \in Settable, policy \in Policies : setGlobalPolicy(cap, policy)
  \/ resetGlobalPolicies
  \/ \E p \in Projects, cap \in Settable :
       \/ \E policy \in Policies : setProjectPolicy(p, cap, policy)
       \/ clearProjectPolicy(p, cap)
  \/ \E p \in Projects : resetProjectPolicies(p)
  \/ \E p \in Preset : setPreset(p)
  \/ clearPreset
  \/ \E cap \in Settable, scope \in Projects \union {Everywhere} :
       grantSession(cap, scope) \/ revokeSession(cap, scope)

-----------------------------------------------------------------------------
(* Specification *)

Execute == \E r \in Runs, tool \in Tools, callId \in CallIds :
             LET def == CHOOSE d \in TOOL_DEFS : d.tool = tool
             IN  \/ executeProjectTool(r, tool, callId, sampleArgs(def, {}))
                 \/ executeProjectTool(r, tool, callId, <<>>)

Answer == \E answer \in answers : respondToApproval(answer)

Respond == \E action \in Action : handleApprovalResponse(action)

Interrupt == \E r \in Runs : Stop(r) \/ abortTaskStep(r)

Next == Execute \/ Answer \/ Respond \/ Interrupt \/ showApproval \/ reload \/ restart
        \/ ChangeSettings

Spec == Init /\ [][Next]_vars

-----------------------------------------------------------------------------
(* Properties *)

\* A request that was stopped has no question open any more, so that no late
\* answer makes its tool act, and a dialog it still shows is about to go.
StopWithdraws ==
  \A r \in aborted \ TaskRuns :
    /\ outcome[r] # "asking"
    /\ \A p \in pending : p.key.run # r
    /\ \A d \in DOMAIN dialogs : dialogs[d].key.run = r =>
         \E c \in DOMAIN channel : channel[c] = [kind |-> "cancelled", approval |-> dialogs[d]]

\* The calls let through by an allow_once grant never outnumber the answers that
\* gave one: a grant is not used twice, whatever ids the model repeats.
OnceIsCounted == \A r \in Runs : credit[r] >= Cardinality({k \in once : k.run = r})

\* The user can answer the question, or has.
Reachable(approval) ==
  \/ \E d \in DOMAIN dialogs : dialogs[d] = approval
  \/ \E c \in DOMAIN channel : channel[c] = [kind |-> "request", approval |-> approval]
  \/ \E a \in answers : a.id = approval.id

\* A question that waits for the user stays where the user can answer it, unless
\* the window is loaded again: then its call waits for ever.
OnlyReloadLosesAQuestion ==
  [][reload \/ \A p \in pending' : (p \in pending => Reachable(p)) => Reachable(p)']_vars

\* An answer that allows for longer than one call does: the same capability is not
\* asked for again, unless the project has a policy of its own above the answer.
AnswerSticks ==
  [][\A p \in pending \ pending', action \in {"allow_session", "allow_project", "always_allow"} :
       [id |-> p.id, action |-> action] \in answers \ answers' /\ outcome'[p.key.run] = "acted" =>
         LET project == ProjectOf[p.key.run]
         IN  \/ resolvePermission(p.key.cap, project)' = "ALLOW"
             \/ /\ action = "always_allow"
                /\ project \in Projects
                /\ p.key.cap \in DOMAIN overrides[project]]_vars

\* Whatever the program offers to a model it accepts, and has a handler for.
OfferedIsAccepted ==
  \A def \in TOOL_DEFS : \A given \in SUBSET def.optional :
    /\ validateToolCall(def.tool, sampleArgs(def, given))
    /\ \E h \in Handlers : h.tool = def.tool

=============================================================================
