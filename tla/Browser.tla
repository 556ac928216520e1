------------------------------- MODULE Browser -------------------------------
(***************************************************************************)
(* The browser of the program (browser-manager.ts and its window,          *)
(* browser-window-controller.ts): profiles, sessions and tabs in the       *)
(* store; the views of the tabs, the agents' control of tabs and the       *)
(* questions to the user in memory; and the one slot in which the window's *)
(* page (BrowserApp.tsx) keeps the question it shows.                      *)
(*                                                                         *)
(* An action is what runs between two awaits that let events in: loading a *)
(* page, clearing the storage of a private profile, and the user's answer. *)
(***************************************************************************)
EXTENDS Naturals, Sequences, FiniteSets, BrowserState, BrowserActions

CONSTANTS Ops,                \* the operations the agents use
          MaxTabsPerSession,  \* BROWSER_LIMITS.MAX_TABS_PER_SESSION
          MaxStarts           \* bound: starts of the program

ASSUME OpsAreOperations == Ops \subseteq Operations

stored   == <<profiles, sessions, tabs, given, starts>>
pages    == <<views, window, activeSession, loading, closing, deleting>>
agents   == <<controls, budgets, binding, approvals, dialog, stopped, consents>>
vars     == <<stored, pages, agents>>

-----------------------------------------------------------------------------
Without(f, S) == [x \in DOMAIN f \ S |-> f[x]]
With(f, id, value) == [x \in DOMAIN f \cup {id} |-> IF x = id THEN value ELSE f[x]]
Patched(f, patch) == [x \in DOMAIN f |-> IF x \in DOMAIN patch THEN patch[x] ELSE f[x]]
Dropping(ids, S) == SelectSeq(ids, LAMBDA t : t \notin S)
Elements(ids) == {ids[i] : i \in 1..Len(ids)}

Session == [profile : Profiles, lifecycle : {"active", "suspended"},
            active : Tabs \cup {None}, tabIds : Seq(Tabs)]
Question == [session : Sessions, tab : Tabs, tabIds : Seq(Tabs), binds : BOOLEAN]

TypeOK ==
  /\ DOMAIN profiles \subseteq Profiles /\ \A p \in DOMAIN profiles : profiles[p] \in Policy
  /\ DOMAIN sessions \subseteq Sessions /\ \A s \in DOMAIN sessions : sessions[s] \in Session
  /\ DOMAIN tabs \subseteq Tabs /\ \A t \in DOMAIN tabs : tabs[t] \in Sessions
  /\ given \subseteq Profiles \cup Sessions \cup Tabs /\ starts \in 0..MaxStarts
  /\ views \subseteq Tabs /\ window \in {"closed", "opening", "ready"}
  /\ activeSession \in Sessions \cup {None} /\ closing \subseteq Sessions
  /\ \A l \in loading : l.tab \in Tabs /\ l.session \in Sessions /\ l.tabIds \in Seq(Tabs)
  /\ \A d \in deleting : d.profile \in Profiles /\ d.session \in Sessions \cup {None} /\ d.left \subseteq Sessions
  /\ DOMAIN controls \subseteq Tabs
  /\ \A t \in DOMAIN controls : controls[t] \in [request : Requests, session : Sessions, tab : Tabs]
  /\ DOMAIN budgets = Requests /\ DOMAIN binding \subseteq Conversations
  /\ DOMAIN approvals \subseteq Requests /\ \A r \in DOMAIN approvals : approvals[r] \in Question
  /\ dialog \in Requests \cup {None}
  /\ stopped \subseteq Requests
  /\ consents \subseteq Requests \X Tabs

Init ==
  /\ profiles = <<>> /\ sessions = <<>> /\ tabs = <<>>
  /\ given = {} /\ starts = 0
  /\ views = {} /\ window = "closed" /\ activeSession = None /\ loading = {} /\ closing = {} /\ deleting = {}
  /\ controls = <<>> /\ budgets = [r \in Requests |-> EmptyBudget] /\ binding = <<>> /\ approvals = <<>> /\ dialog = None
  /\ stopped = {} /\ consents = {}

-----------------------------------------------------------------------------
(* Helpers: the new values several operations share.                       *)

ActiveSessions == {s \in DOMAIN sessions : sessions[s].lifecycle = "active"}

updateBrowserSession(ss, s, patch) ==
  IF s \in DOMAIN ss THEN [ss EXCEPT ![s] = Patched(@, patch)] ELSE ss

deleteBrowserTabsBySession(ts, S) == Without(ts, {t \in DOMAIN ts : ts[t] \in S})

(* A tab is stored, and has a view when there is a window.                 *)
createTabInternal(s, t, vs, w) ==
  /\ tabs' = With(tabs, t, s)
  /\ views' = IF w # "closed" THEN vs \cup {t} ELSE vs

(* Every deletion of a control goes with the budget of the request that    *)
(* holds it, and the consent to it is used up.                             *)
Reset(S) == [r \in Requests |-> IF r \in S THEN EmptyBudget ELSE budgets[r]]

Revoke(S) ==
  LET lost == S \cap DOMAIN controls
  IN /\ controls' = Without(controls, lost)
     /\ budgets' = Reset({controls[t].request : t \in lost})
     /\ consents' = {c \in consents : c[2] \notin lost}

(* A new window gets views for the tabs that have none.                    *)
Hydrated == views \cup UNION {Elements(sessions[s].tabIds) \cap DOMAIN tabs :
                                s \in {x \in ActiveSessions : sessions[x].profile \in DOMAIN profiles}}

(* Events reach BrowserApp only once its page has subscribed to them.      *)
pushApproval(r, w) == dialog' = IF w = "ready" THEN r ELSE dialog

WithNewSession(p, s, t) ==
  With(sessions, s, [profile |-> p, lifecycle |-> "active", active |-> t, tabIds |-> <<t>>])

-----------------------------------------------------------------------------
(* Sessions.                                                               *)

createBrowserSession(p, s, t) ==
  /\ p \in DOMAIN profiles /\ {s, t} \cap given = {}
  /\ given' = given \cup {s, t}
  /\ sessions' = WithNewSession(p, s, t)
  /\ createTabInternal(s, t, views, window)
  /\ UNCHANGED <<profiles, starts, window, activeSession, loading, closing, deleting, agents>>

(* closeBrowserSession, for the sessions of S: the tabs they list go, and  *)
(* their controls; the sessions and their other tabs at the end.           *)
Listed(S) == UNION {Elements(sessions[s].tabIds) : s \in S}
ReleaseTabs(S) == Revoke(Listed(S)) /\ views' = views \ Listed(S)

Forget_ListedTabs(S, remaining) ==      \* mutant: only the tabs of the list go
  /\ tabs' = remaining
  /\ sessions' = Without(sessions, S)
  /\ activeSession' = IF activeSession \in S THEN None ELSE activeSession

Forget(S, remaining) ==
  /\ tabs' = deleteBrowserTabsBySession(remaining, S)
  /\ sessions' = Without(sessions, S)
  /\ activeSession' = IF activeSession \in S THEN None ELSE activeSession

(* Between the two, the storage of a private profile is cleared.           *)
closeBrowserSession(s) ==
  /\ s \in DOMAIN sessions
  /\ ReleaseTabs({s})
  /\ IF sessions[s].profile \in Private \cap DOMAIN profiles
     THEN /\ closing' = closing \cup {s}
          /\ Forget({}, Without(tabs, Listed({s})))
     ELSE Forget({s}, Without(tabs, Listed({s}))) /\ UNCHANGED closing
  /\ UNCHANGED <<profiles, given, starts, window, loading, deleting, binding, approvals, dialog,
                 stopped>>

(* clearStorageData has ended.                                             *)
storageCleared(s) ==
  /\ s \in closing
  /\ closing' = closing \ {s}
  /\ Forget({s}, tabs)
  /\ UNCHANGED <<profiles, given, starts, views, window, loading, deleting, agents>>

activateSession(s) ==
  /\ s \in DOMAIN sessions /\ s # activeSession
  /\ activeSession' = s
  /\ UNCHANGED <<stored, views, window, loading, closing, deleting, agents>>

-----------------------------------------------------------------------------
(* Profiles.                                                               *)

createBrowserProfile(p, policy) ==
  /\ p \notin given
  /\ given' = given \cup {p}
  /\ profiles' = With(profiles, p, policy)
  /\ UNCHANGED <<sessions, tabs, starts, pages, agents>>

(* Nothing is taken from agents that have control.                         *)
updateBrowserProfilePublic(p, policy) ==
  /\ p \in DOMAIN profiles /\ profiles[p] # policy
  /\ profiles' = With(profiles, p, policy)
  /\ UNCHANGED <<sessions, tabs, given, starts, pages, agents>>

(* deleteBrowserProfilePublic, from one await to the next: the session     *)
(* whose storage was cleared is forgotten, and of the list read at the     *)
(* beginning the next one is closed, as above.  The profile goes at the    *)
(* end, and leaves the sessions that were made meanwhile.                  *)
DeletionGoesOn(p, cleared, list, others) ==
  LET left == list \cap DOMAIN sessions
  IN \/ /\ p \in DOMAIN profiles
        /\ \E s \in left :
             /\ ReleaseTabs({s}) /\ Forget(cleared, Without(tabs, Listed({s})))
             /\ deleting' = others \cup {[profile |-> p, session |-> s, left |-> left \ {s}]}
        /\ UNCHANGED profiles
     \/ /\ p \in DOMAIN profiles => left = {}
        /\ ReleaseTabs(left) /\ Forget(cleared \cup left, Without(tabs, Listed(left)))
        /\ deleting' = others
        /\ profiles' = Without(profiles, {p})

(* The sessions of a persistent profile close at once, and its storage is  *)
(* cleared after them.                                                     *)
deleteBrowserProfilePublic(p) ==
  /\ p \in DOMAIN profiles
  /\ LET list == {s \in DOMAIN sessions : sessions[s].profile = p}
     IN IF p \in Private
        THEN DeletionGoesOn(p, {}, list, deleting)
        ELSE /\ ReleaseTabs(list) /\ Forget(list, Without(tabs, Listed(list)))
             /\ deleting' = deleting \cup {[profile |-> p, session |-> None, left |-> {}]}
             /\ UNCHANGED profiles
  /\ UNCHANGED <<given, starts, window, loading, closing, binding, approvals, dialog, stopped>>

deletionStorageCleared(d) ==
  /\ d \in deleting
  /\ DeletionGoesOn(d.profile, {d.session}, d.left, deleting \ {d})
  /\ UNCHANGED <<given, starts, window, loading, closing, binding, approvals, dialog, stopped>>

-----------------------------------------------------------------------------
(* Tabs.                                                                   *)

(* A blank tab, or one without a window to show it in, is there at once;   *)
(* another one is added to its session when its page has loaded, from the  *)
(* list of tabs read before.                                               *)
newBrowserTab(s, t, blank) ==
  /\ s \in DOMAIN sessions /\ t \notin given
  /\ Len(sessions[s].tabIds) < MaxTabsPerSession
  /\ given' = given \cup {t}
  /\ createTabInternal(s, t, views, window)
  /\ IF blank \/ window = "closed"
     THEN /\ sessions' = updateBrowserSession(sessions, s, [active |-> t, tabIds |-> Append(sessions[s].tabIds, t)])
          /\ UNCHANGED loading
     ELSE /\ loading' = loading \cup {[session |-> s, tab |-> t, tabIds |-> sessions[s].tabIds]}
          /\ UNCHANGED sessions
  /\ UNCHANGED <<profiles, starts, window, activeSession, closing, deleting, agents>>

tabLoaded(l) ==
  /\ l \in loading
  /\ loading' = loading \ {l}
  /\ sessions' = updateBrowserSession(sessions, l.session, [active |-> l.tab, tabIds |-> Append(l.tabIds, l.tab)])
  /\ UNCHANGED <<profiles, tabs, given, starts, views, window, activeSession, closing, deleting, agents>>

closeBrowserTab(t) ==
  /\ t \in DOMAIN tabs
  /\ Revoke({t})
  /\ views' = views \ {t}
  /\ tabs' = Without(tabs, {t})
  /\ LET s == tabs[t]
         rest == Dropping(sessions[s].tabIds, {t})
         last == IF rest = <<>> THEN None ELSE rest[Len(rest)]
         active == IF sessions[s].active = t THEN last ELSE sessions[s].active
     IN sessions' = updateBrowserSession(sessions, s, [active |-> active, tabIds |-> rest])
  /\ UNCHANGED <<profiles, given, starts, window, activeSession, loading, closing, deleting, binding,
                 approvals, dialog, stopped>>

activateTab(t) ==
  /\ t \in DOMAIN tabs /\ tabs[t] \in DOMAIN sessions /\ sessions[tabs[t]].active # t
  /\ sessions' = updateBrowserSession(sessions, tabs[t], [active |-> t])
  /\ UNCHANGED <<profiles, tabs, given, starts, pages, agents>>

(* The page of a tab crashes.                                              *)
renderProcessGone(t) ==
  /\ t \in views \cap DOMAIN controls
  /\ Revoke({t})
  /\ UNCHANGED <<stored, pages, binding, approvals, dialog, stopped>>

-----------------------------------------------------------------------------
(* The window.                                                             *)

openBrowserWindow ==
  /\ window = "closed"
  /\ window' = "opening"
  /\ views' = Hydrated
  /\ UNCHANGED <<stored, activeSession, loading, closing, deleting, agents>>

browserAppMounted ==
  /\ window = "opening"
  /\ window' = "ready"
  /\ UNCHANGED <<stored, views, activeSession, loading, closing, deleting, agents>>

(* The agents lose every control; the questions that wait stay.            *)
setBrowserNativeWindow_null_KeepsControls ==       \* mutant: only the views go
  /\ window # "closed"
  /\ window' = "closed"
  /\ views' = {} /\ binding' = <<>> /\ dialog' = None
  /\ consents' = {}
  /\ UNCHANGED <<stored, activeSession, loading, closing, deleting, controls, budgets, approvals, stopped>>

setBrowserNativeWindow_null ==
  /\ window # "closed"
  /\ window' = "closed"
  /\ views' = {} /\ controls' = <<>> /\ binding' = <<>> /\ dialog' = None
  /\ consents' = {}
  /\ UNCHANGED <<stored, activeSession, loading, closing, deleting, budgets, approvals, stopped>>

-----------------------------------------------------------------------------
(* Agents.                                                                 *)

(* The map of controls has tabs as its keys, and is asked for a session.   *)
validateAgentControl(c) ==
  /\ c.session \in DOMAIN controls
  /\ controls[c.session].request = c.request
  /\ controls[c.session].tab = c.tab

Has(t) == (IF t \in views THEN {"view"} ELSE {}) \cup (IF t \in DOMAIN tabs THEN {"tab"} ELSE {})
            \cup {"safe url", "page", "file"}

(* The operation itself, on tab t, with token c.                           *)
Operate(op, c, t) ==
  LET b == budgets[c.request]
      valid == validateAgentControl(c)
  IN budgets' = IF IsCharged(op, valid, b, Has(t))
                 THEN [budgets EXCEPT ![c.request] = Charged(@, op.meter)]
                 ELSE budgets

Waits(r) == r \in DOMAIN approvals
OwnTabs(r) == {t \in DOMAIN controls : controls[t].request = r}

(* resolveAgentBrowserTarget: the binding of the conversation is used when *)
(* somebody has control of its tab.                                        *)
BoundTab(r) ==
  {t \in DOMAIN controls :
     /\ ConversationOf[r] \in DOMAIN binding
     /\ binding[ConversationOf[r]].tab = t
     /\ binding[ConversationOf[r]].session \in DOMAIN sessions
     /\ t \in DOMAIN tabs}

(* A call of a page operation by a request that has a control, or whose    *)
(* conversation is bound to a controlled tab.                              *)
AgentOperates(r, op, t) ==
  /\ r \notin stopped /\ ~Waits(r) /\ t \in DOMAIN tabs
  /\ \E ct \in IF OwnTabs(r) # {} THEN OwnTabs(r) ELSE BoundTab(r) :
       Operate(op, controls[ct], t)
  /\ UNCHANGED <<stored, pages, controls, binding, approvals, dialog, stopped, consents>>

BindingDropped(r, binds) == IF binds THEN Without(binding, {ConversationOf[r]}) ELSE binding
WindowEnsured == IF window = "closed" THEN "opening" ELSE window
ViewsEnsured == IF window = "closed" THEN Hydrated ELSE views

(* A session that is gone is an error; a control that somebody else has on *)
(* the tab is replaced.  The policy is looked at, and nothing follows.     *)
grantAgentControl(c, ss) ==
  IF c.session \in DOMAIN ss
  THEN /\ controls' = With(controls, c.tab, c)
       /\ budgets' = Reset({c.request})
  ELSE UNCHANGED <<controls, budgets>>

Agreed(r, q, ss) ==
  IF q.session \in DOMAIN ss
  THEN {c \in consents : c[2] # q.tab} \cup {<<r, q.tab>>} ELSE consents

(* The end of bootstrapAgentControl and of its caller, with the session    *)
(* as it was read at the beginning, on the store and bindings of now.      *)
Establish(r, q, ss, ts, bs) ==
  LET there == q.session \in DOMAIN ss
  IN /\ activeSession' = IF there THEN q.session ELSE activeSession
     /\ sessions' = IF q.tab \in Elements(q.tabIds) \cap DOMAIN ts
                    THEN updateBrowserSession(ss, ts[q.tab], [active |-> q.tab]) ELSE ss
     /\ grantAgentControl([request |-> r, session |-> q.session, tab |-> q.tab], ss)
     /\ binding' = IF there /\ q.binds
                   THEN With(bs, ConversationOf[r], [session |-> q.session, tab |-> q.tab]) ELSE bs

(* The question names the session and the tab, and not the request.        *)
AsksFirst_Never(policy) == FALSE        \* mutant: whoever is not refused gets control
AsksFirst(policy) == policy = "ask"

AskOrEstablish(r, policy, q, ss, ts, bs) ==
  IF AsksFirst(policy)
  THEN /\ approvals' = With(approvals, r, q)
       /\ pushApproval(r, window)
       /\ sessions' = ss /\ binding' = bs
       /\ UNCHANGED <<activeSession, controls, budgets, consents>>
  ELSE /\ Establish(r, q, ss, ts, bs)
       /\ consents' = IF policy = "allowed" THEN Agreed(r, q, ss) ELSE consents
       /\ UNCHANGED <<approvals, dialog>>

(* bootstrapAgentControl for a session: the one the agent names            *)
(* (browser_use_session), or the active one, or any; binds when it is      *)
(* called for an operation (resolveAgentBrowserTarget).  Only              *)
(* browser_use_session can name a tab, of any session.                     *)
FirstTab(s) == IF s \notin DOMAIN sessions THEN None
               ELSE IF sessions[s].active # None THEN sessions[s].active
               ELSE IF sessions[s].tabIds # <<>> THEN sessions[s].tabIds[1] ELSE None

TabsOffered(first, binds) == {first} \cup (IF binds THEN {} ELSE DOMAIN tabs)

PolicyOf(s) == IF s \in ActiveSessions /\ sessions[s].profile \in DOMAIN profiles
               THEN profiles[sessions[s].profile] ELSE "off"

bootstrapAgentControl(r, s, binds) ==
  /\ r \notin stopped /\ ~Waits(r)
  /\ binds => /\ OwnTabs(r) = {} /\ BoundTab(r) = {}
              /\ s \in ActiveSessions
              /\ activeSession \in ActiveSessions => s = activeSession
  /\ window' = WindowEnsured /\ views' = ViewsEnsured
  /\ \E t \in TabsOffered(FirstTab(s), binds) :
       IF PolicyOf(s) = "off" \/ t = None
       THEN /\ binding' = BindingDropped(r, binds)
            /\ UNCHANGED <<sessions, activeSession, controls, budgets, approvals, dialog, consents>>
       ELSE AskOrEstablish(r, PolicyOf(s),
                           [session |-> s, tab |-> t, tabIds |-> sessions[s].tabIds, binds |-> binds],
                           sessions, tabs, BindingDropped(r, binds))
  /\ UNCHANGED <<profiles, tabs, given, starts, loading, closing, deleting, stopped>>

(* ensureDefaultSession, when no session is active: the default profile    *)
(* (any can carry the flag) or the first persistent one, made if there is  *)
(* none, gets a session and a tab, and is not "off" any more.              *)
DefaultProfile == DOMAIN profiles \cup (IF DOMAIN profiles \subseteq Private
                                        THEN Profiles \ (Private \cup given) ELSE {})

bootstrapDefaultSession(r, p, s, t, binds) ==
  /\ r \notin stopped /\ ~Waits(r)
  /\ binds => OwnTabs(r) = {} /\ BoundTab(r) = {}
  /\ ActiveSessions = {} /\ {s, t} \cap given = {}
  /\ p \in DefaultProfile
  /\ profiles' = IF p \notin DOMAIN profiles \/ profiles[p] = "off"
                 THEN With(profiles, p, "ask") ELSE profiles
  /\ given' = given \cup {p, s, t}
  /\ window' = WindowEnsured
  /\ createTabInternal(s, t, ViewsEnsured, WindowEnsured)
  /\ \E x \in TabsOffered(t, binds) :
       AskOrEstablish(r, profiles'[p], [session |-> s, tab |-> x, tabIds |-> <<t>>, binds |-> binds],
                      WithNewSession(p, s, t), With(tabs, t, s), BindingDropped(r, binds))
  /\ UNCHANGED <<starts, loading, closing, deleting, stopped>>

(* The user's yes, and what the call does then.                            *)
approveAction(r) ==
  /\ window = "ready" /\ dialog = r /\ dialog' = None
  /\ Waits(r)
  /\ approvals' = Without(approvals, {r})
  /\ Establish(r, approvals[r], sessions, tabs, binding)
  /\ consents' = Agreed(r, approvals[r], sessions)
  /\ UNCHANGED <<profiles, tabs, given, starts, views, window, loading, closing, deleting, stopped>>

(* GRANT_AGENT_ACCESS: control of a tab without a question.                *)
userGrants(r, t) ==
  /\ t \in DOMAIN tabs
  /\ grantAgentControl([request |-> r, session |-> tabs[t], tab |-> t], sessions)
  /\ consents' = Agreed(r, [session |-> tabs[t], tab |-> t], sessions)
  /\ UNCHANGED <<stored, pages, binding, approvals, dialog, stopped>>

rejectAction(r) ==
  /\ window = "ready" /\ dialog = r /\ dialog' = None
  /\ Waits(r)
  /\ approvals' = Without(approvals, {r})
  /\ UNCHANGED <<stored, pages, controls, budgets, binding, stopped, consents>>

(* The first control of the session that is found (also                    *)
(* REVOKE_AGENT_ACCESS).                                                   *)
userTakeControl(s) ==
  /\ \E t \in DOMAIN controls : controls[t].session = s /\ Revoke({t})
  /\ UNCHANGED <<stored, pages, binding, approvals, dialog, stopped>>

(* cancelApprovalsForRequest looks for a field the questions do not have.  *)
Stop(r) ==
  /\ r \notin stopped
  /\ stopped' = stopped \cup {r}
  /\ LET denied == {a \in DOMAIN approvals : /\ "requestId" \in DOMAIN approvals[a]
                                             /\ approvals[a].requestId = r}
     IN approvals' = Without(approvals, denied)
  /\ UNCHANGED <<stored, pages, controls, budgets, binding, dialog, consents>>

-----------------------------------------------------------------------------
(* The program ends, by a quit that cleans up or by a kill, and starts.    *)
(* reconcileBrowserOnStartup suspends the sessions and deletes those of    *)
(* private profiles that are stored.                                       *)
reconcileBrowserOnStartup_Listed ==     \* mutant: only the tabs the sessions list are deleted
  LET kept == {s \in DOMAIN sessions : sessions[s].profile \notin Private \cap DOMAIN profiles}
  IN /\ sessions' = [s \in kept |-> [sessions[s] EXCEPT !.lifecycle = "suspended"]]
     /\ tabs' = Without(tabs, UNION {Elements(sessions[s].tabIds) : s \in DOMAIN sessions \ kept})

reconcileBrowserOnStartup ==
  LET kept == {s \in DOMAIN sessions : sessions[s].profile \notin Private \cap DOMAIN profiles}
  IN /\ sessions' = [s \in kept |-> [sessions[s] EXCEPT !.lifecycle = "suspended"]]
     /\ tabs' = Without(tabs, {t \in DOMAIN tabs : tabs[t] \in DOMAIN sessions \ kept})

Restart ==
  /\ starts < MaxStarts
  /\ starts' = starts + 1
  /\ reconcileBrowserOnStartup
  /\ views' = {} /\ window' = "closed" /\ activeSession' = None /\ loading' = {} /\ closing' = {} /\ deleting' = {}
  /\ controls' = <<>> /\ budgets' = Reset(Requests) /\ binding' = <<>> /\ approvals' = <<>> /\ dialog' = None
  /\ stopped' = stopped \cup DOMAIN approvals
  /\ consents' = {}
  /\ UNCHANGED <<profiles, given>>

\* What the user's windows ask of profiles, sessions and tabs.
UserManages ==
  \/ \E p \in Profiles : \E policy \in PoliciesSet[p] :
       createBrowserProfile(p, policy) \/ updateBrowserProfilePublic(p, policy)
  \/ \E p \in Profiles : deleteBrowserProfilePublic(p)
  \/ \E p \in Profiles, s \in Sessions, t \in Tabs : createBrowserSession(p, s, t)
  \/ \E s \in Sessions : closeBrowserSession(s) \/ activateSession(s)
  \/ \E s \in Sessions, t \in Tabs, blank \in BOOLEAN : newBrowserTab(s, t, blank)
  \/ \E t \in Tabs : closeBrowserTab(t) \/ activateTab(t)

\* How the user settles what agents may do.
UserDecides ==
  \/ \E s \in Sessions : userTakeControl(s)
  \/ \E r \in Requests : approveAction(r) \/ rejectAction(r)
  \/ \E r \in Requests, t \in Tabs : userGrants(r, t)
  \/ openBrowserWindow

Next ==
  \/ UserManages
  \/ UserDecides
  \/ \E s \in Sessions : storageCleared(s)
  \/ \E d \in deleting : deletionStorageCleared(d)
  \/ \E l \in loading : tabLoaded(l)
  \/ \E t \in Tabs : renderProcessGone(t)
  \/ browserAppMounted \/ setBrowserNativeWindow_null
  \/ \E r \in Requests, op \in Ops, t \in Tabs : AgentOperates(r, op, t)
  \/ \E r \in Requests, s \in Sessions, binds \in BOOLEAN : bootstrapAgentControl(r, s, binds)
  \/ \E r \in Requests, p \in Profiles, s \in Sessions, t \in Tabs, binds \in BOOLEAN :
       bootstrapDefaultSession(r, p, s, t, binds)
  \/ \E r \in Requests : Stop(r)
  \/ Restart

Spec == Init /\ [][Next]_vars

=============================================================================
