--------------------------- MODULE BrowserActions ---------------------------
(***************************************************************************)
(* What an agent can do to a page: the operations of browser-manager.ts    *)
(* that take a control token.  Each one validates the token, checks the    *)
(* budget of its request, looks for what it works on and runs a script in  *)
(* the page.  The script is left out: an operation is what it is charged   *)
(* as and what it needs.                                                   *)
(***************************************************************************)
EXTENDS Naturals

CONSTANTS MaxActions, MaxNavigations, MaxScreenshots     \* BROWSER_LIMITS

ASSUME LimitsAreNumbers == {MaxActions, MaxNavigations, MaxScreenshots} \subseteq Nat

Operation(meter, needs) == [meter |-> meter, needs |-> needs]
OnElement == Operation("action", {"view", "tab"})
OnView    == Operation("action", {"view"})
Unmetered == Operation("none", {})

agentOpenUrl        == Operation("navigation", {"view", "tab", "safe url"})
agentReadPage       == Operation("action", {"view", "tab", "page"})
agentClick          == OnElement
agentFill           == OnElement
agentType           == OnView
agentPressKey       == OnView
agentScroll         == OnView
agentFindText       == OnView
agentScreenshot     == Operation("screenshot", {"view", "tab"})
agentGetConsole     == Unmetered
agentGetNetwork     == Unmetered
agentHover          == OnElement
agentDoubleClick    == OnElement
agentDrag           == OnElement
agentFocus          == OnElement
agentClear          == OnElement
agentScrollIntoView == OnElement
agentCheckbox       == OnElement
agentSelect         == OnElement
agentUploadFile     == Operation("action", {"view", "tab", "file"})
agentGetMedia       == Operation("action", {"view", "page"})
agentControlMedia   == Operation("action", {"view", "page"})

Operations ==
  {agentOpenUrl, agentReadPage, agentClick, agentFill, agentType, agentPressKey,
   agentScroll, agentFindText, agentScreenshot, agentGetConsole, agentGetNetwork,
   agentHover, agentDoubleClick, agentDrag, agentFocus, agentClear,
   agentScrollIntoView, agentCheckbox, agentSelect, agentUploadFile,
   agentGetMedia, agentControlMedia}

EmptyBudget == [actions |-> 0, navigations |-> 0, screenshots |-> 0]

OverBudget(b, meter) ==
  \/ meter = "navigation" /\ b.navigations >= MaxNavigations
  \/ meter = "screenshot" /\ b.screenshots >= MaxScreenshots
  \/ meter # "none" /\ b.actions >= MaxActions

Charged(b, meter) ==
  [actions     |-> b.actions + (IF meter = "none" THEN 0 ELSE 1),
   navigations |-> b.navigations + (IF meter = "navigation" THEN 1 ELSE 0),
   screenshots |-> b.screenshots + (IF meter = "screenshot" THEN 1 ELSE 0)]

(* What an operation answers: "valid" says whether the token was, "has" is *)
(* the part of what it needs that is there.                                *)
Answer(op, valid, b, has) ==
  IF ~valid THEN "access denied"
  ELSE IF OverBudget(b, op.meter) THEN "budget exceeded"
  ELSE IF ~(op.needs \subseteq has) THEN "failed"
  ELSE "served"

(* Navigation is charged before the tab is looked for, the others after.   *)
IsCharged(op, valid, b, has) ==
  /\ valid
  /\ ~OverBudget(b, op.meter)
  /\ IF op.meter = "navigation" THEN "safe url" \in has
     ELSE op.needs \cap {"view", "tab", "file"} \subseteq has
=============================================================================
