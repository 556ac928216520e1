----------------------------- MODULE BrowserState -----------------------------
(***************************************************************************)
(* What the browser of the program keeps (see Browser), and what holds     *)
(* between its parts: the consent behind an agent's control of a tab, the  *)
(* sessions and tabs that others name, and the end of private profiles.    *)
(***************************************************************************)
CONSTANTS Profiles, Private,          \* Private: those with persistenceMode "private"
          PoliciesSet,                \* bound: profile -> the policies the user gives it
          Sessions, Tabs,             \* identifiers, each given out once
          Requests, Conversations, ConversationOf,
          None

Policy == {"off", "ask", "allowed"}

ASSUME PoliciesArePolicies == PoliciesSet \in [Profiles -> SUBSET Policy]
ASSUME PrivateAreProfiles == Private \subseteq Profiles
ASSUME RequestsHaveConversations == ConversationOf \in [Requests -> Conversations]

VARIABLES
  profiles,      \* profile -> its agentAccessPolicy
  sessions,      \* session -> [profile, lifecycle, active, tabIds]
  tabs,          \* tab -> its session
  given,         \* the identifiers given out
  starts,
  views,         \* the tabs with a live view
  window,        \* "closed", "opening" (its page is not loaded), "ready"
  activeSession,
  loading,       \* newBrowserTab calls that wait for their page
  closing,       \* closeBrowserSession calls that wait for clearStorageData
  deleting,      \* deleteBrowserProfilePublic calls that wait for it
  controls,      \* tab -> [request, session, tab]
  budgets,       \* request -> what it has used, the empty one when there is none
  binding,       \* conversation -> [session, tab]
  approvals,     \* the request that waits -> the question
  dialog,        \* the question BrowserApp shows
  stopped,       \* the requests whose run was stopped or is gone
  consents       \* <<request, tab>> the user agreed to and has not withdrawn: by a yes to the
                 \* question, by a grant, or by the policy "allowed" when the agent asked

-----------------------------------------------------------------------------
(* A request has control of a tab only by the user's consent for that      *)
(* request and that tab: a yes to its question, a grant, or a profile set  *)
(* to "allowed" when the agent asked.  It needs a new one once the window  *)
(* was closed, the user took control, the page crashed or the tab was      *)
(* closed: the question stays behind a change of session, and control is   *)
(* never the remainder of an earlier consent (setBrowserNativeWindow,      *)
(* bootstrapAgentControl).  A change of the policy withdraws nothing.      *)
ConsentPrecedesControl == \A t \in DOMAIN controls : <<controls[t].request, t>> \in consents

(* Closing a session takes every tab with it, also those its list of tabs  *)
(* has lost and those still loading (closeBrowserSession, newBrowserTab).  *)
EveryTabHasASession == \A t \in DOMAIN tabs : tabs[t] \in DOMAIN sessions

(* The active session exists, although an approval or the user can         *)
(* activate a session whose closing waits for its storage to be cleared.   *)
ActiveSessionExists == activeSession \in DOMAIN sessions \cup {None}

(* Whatever closes while it opens, what is named exists.                   *)
ReferencesExist == EveryTabHasASession /\ ActiveSessionExists

(* No session of a private profile, and no tab without a session.          *)
NothingPrivateStored == /\ \A s \in DOMAIN sessions : sessions[s].profile \notin Private \cap DOMAIN profiles
                        /\ EveryTabHasASession

(* A start finds no trace of a private profile that is stored: no session  *)
(* and no tab, in whatever state the program was killed, a deletion of the *)
(* profile in progress included (reconcileBrowserOnStartup).  A session    *)
(* made while its profile is deleted outlives it, and is not known to be   *)
(* private any more.                                                       *)
PrivateIsForgotten == [][NothingPrivateStored']_starts

=============================================================================
