\* A request and a task step that click in a page, each in a scope of its own;
\* two questions are open at once, or one after the other with one call id.
SPECIFICATION Spec
CONSTANTS
  r1 = r1
  r2 = r2
  p1 = p1
  NoProject = none
  Runs = {r1, r2}
  TaskRuns = {r2}
  Projects = {p1}
  ProjectOf <- TwoRuns
  CallIds = {k1}
  Tools = {"browser_click"}
  Settable = {"browser.web.interact"}
  Policies = {"ASK"}
  MaxAsks = 2
INVARIANTS
  StopWithdraws
  OnceIsCounted
PROPERTY OnlyReloadLosesAQuestion
CHECK_DEADLOCK FALSE
