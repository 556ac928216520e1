--------------------------- MODULE TaskRuntimeProofs ---------------------------
(***************************************************************************)
(* Proofs about TaskRuntime, for any step ids and any budgets.             *)
(*                                                                         *)
(* The invariant relates the plan in the store to the plan in memory, and  *)
(* follows three things that plans can lose: that an id names one step     *)
(* (a replan may use the id of a step that is done again), the count of    *)
(* attempts (which the namesakes share), and the steps a cancellation has  *)
(* closed (which a crash can bring back in a task that goes on).           *)
(*                                                                         *)
(* The last part is about MultiAgent, the mode in which a coordinator and  *)
(* its workers do the work of a task in place of its plan.                 *)
(***************************************************************************)
EXTENDS TaskRuntime, MultiAgentState, FiniteSetTheorems, WellFoundedInduction, TLAPS

MA == INSTANCE MultiAgent

-----------------------------------------------------------------------------
(* Plans.                                                                  *)

StepStatus == TerminalStep \union {"pending", "running", "blocked", "interrupted"}

\* A change of status or attempts keeps which steps there are.
SamePlan(steps, t) ==
  /\ t \in Seq(Step)
  /\ DOMAIN t = DOMAIN steps
  /\ Len(t) = Len(steps)
  /\ \A k \in DOMAIN steps : /\ t[k].id = steps[k].id
                             /\ t[k].kind = steps[k].kind
                             /\ t[k].deps = steps[k].deps

LEMMA StepFields ==
  ASSUME NEW steps \in Seq(Step), NEW k \in DOMAIN steps
  PROVE  /\ steps[k] \in Step
         /\ steps[k].id \in StepIds \union {VerifyStep} /\ steps[k].attempts \in Nat
         /\ steps[k].status \in StepStatus
<1>1. steps[k] \in Step
  OBVIOUS
<1> QED BY <1>1 DEF Step, StepStatus

\* What keeps the length is a sequence.
LEMMA MapOfPlan ==
  ASSUME NEW steps \in Seq(Step), NEW t, DOMAIN t = DOMAIN steps, t = [k \in DOMAIN t |-> t[k]],
         \A k \in DOMAIN steps : t[k] \in Step
  PROVE  t \in Seq(Step) /\ Len(t) = Len(steps)
<1>1. Len(steps) \in Nat /\ DOMAIN steps = 1..Len(steps)
  OBVIOUS
<1>2. t \in [1..Len(steps) -> Step]
  BY <1>1
<1> QED BY <1>1, <1>2

LEMMA TransitionPlan ==
  ASSUME NEW steps \in Seq(Step), NEW id, NEW status \in StepStatus,
         NEW t, t = transitionStep(steps, id, status)
  PROVE  /\ SamePlan(steps, t)
         /\ \A k \in DOMAIN steps :
              /\ t[k].attempts = steps[k].attempts
              /\ t[k].status = IF steps[k].id = id THEN status ELSE steps[k].status
<1>1. /\ DOMAIN t = DOMAIN steps /\ t = [k \in DOMAIN t |-> t[k]]
      /\ \A k \in DOMAIN steps :
           t[k] = IF steps[k].id = id THEN [steps[k] EXCEPT !.status = status] ELSE steps[k]
  BY DEF transitionStep
<1>2. \A k \in DOMAIN steps :
        /\ t[k] \in Step
        /\ t[k].id = steps[k].id /\ t[k].kind = steps[k].kind /\ t[k].deps = steps[k].deps
        /\ t[k].attempts = steps[k].attempts
        /\ t[k].status = IF steps[k].id = id THEN status ELSE steps[k].status
  <2> TAKE k \in DOMAIN steps
  <2>1. steps[k] \in Step /\ steps[k].attempts \in Nat
    BY StepFields
  <2>2. CASE steps[k].id = id
    <3>1. t[k] = [steps[k] EXCEPT !.status = status]
      BY <1>1, <2>2
    <3> QED BY <2>1, <2>2, <3>1 DEF Step, StepStatus
  <2>3. CASE ~(steps[k].id = id)
    BY <1>1, <2>1, <2>3
  <2> QED BY <2>2, <2>3
<1>3. t \in Seq(Step) /\ Len(t) = Len(steps)
  BY <1>1, <1>2, MapOfPlan
<1> QED BY <1>1, <1>2, <1>3 DEF SamePlan

\* What settling does, step by step.
Settled(steps, id, status, n, t) ==
  /\ SamePlan(steps, t)
  /\ \A k \in DOMAIN steps :
       /\ steps[k].id = id => t[k].attempts = n /\ t[k].status = status
       /\ steps[k].id # id => t[k] = steps[k]

LEMMA SettlePlan ==
  ASSUME NEW steps \in Seq(Step), NEW id, NEW status \in StepStatus, NEW n \in Nat,
         NEW t, t = settleStep(steps, id, status, n)
  PROVE  Settled(steps, id, status, n, t)
<1>1. /\ DOMAIN t = DOMAIN steps /\ t = [k \in DOMAIN t |-> t[k]]
      /\ \A k \in DOMAIN steps :
           t[k] = IF steps[k].id = id THEN [steps[k] EXCEPT !.status = status, !.attempts = n]
                                      ELSE steps[k]
  BY DEF settleStep
<1>2. \A k \in DOMAIN steps :
        /\ t[k] \in Step
        /\ t[k].id = steps[k].id /\ t[k].kind = steps[k].kind /\ t[k].deps = steps[k].deps
        /\ steps[k].id = id => t[k].attempts = n /\ t[k].status = status
        /\ steps[k].id # id => t[k] = steps[k]
  <2> TAKE k \in DOMAIN steps
  <2>1. steps[k] \in Step /\ steps[k].attempts \in Nat
    BY StepFields
  <2>2. CASE steps[k].id = id
    <3>1. t[k] = [steps[k] EXCEPT !.status = status, !.attempts = n]
      BY <1>1, <2>2
    <3> QED BY <2>1, <2>2, <3>1 DEF Step, StepStatus
  <2>3. CASE ~(steps[k].id = id)
    BY <1>1, <2>1, <2>3
  <2> QED BY <2>2, <2>3
<1>3. t \in Seq(Step) /\ Len(t) = Len(steps)
  <2>1. DOMAIN t = DOMAIN steps /\ t = [k \in DOMAIN t |-> t[k]]
    BY <1>1
  <2>2. \A k \in DOMAIN steps : t[k] \in Step
    BY <1>2
  <2> QED BY <2>1, <2>2, MapOfPlan
<1> QED BY <1>1, <1>2, <1>3 DEF SamePlan, Settled

LEMMA SetAllPlan ==
  ASSUME NEW steps \in Seq(Step), NEW from, NEW to \in StepStatus,
         NEW t, t = setAll(steps, from, to)
  PROVE  /\ SamePlan(steps, t)
         /\ \A k \in DOMAIN steps :
              /\ t[k].attempts = steps[k].attempts
              /\ t[k].status = IF steps[k].status \in from THEN to ELSE steps[k].status
<1>1. /\ DOMAIN t = DOMAIN steps /\ t = [k \in DOMAIN t |-> t[k]]
      /\ \A k \in DOMAIN steps :
           t[k] = IF steps[k].status \in from THEN [steps[k] EXCEPT !.status = to] ELSE steps[k]
  BY DEF setAll
<1>2. \A k \in DOMAIN steps :
        /\ t[k] \in Step
        /\ t[k].id = steps[k].id /\ t[k].kind = steps[k].kind /\ t[k].deps = steps[k].deps
        /\ t[k].attempts = steps[k].attempts
        /\ t[k].status = IF steps[k].status \in from THEN to ELSE steps[k].status
  <2> TAKE k \in DOMAIN steps
  <2>1. steps[k] \in Step /\ steps[k].attempts \in Nat
    BY StepFields
  <2>2. CASE steps[k].status \in from
    <3>1. t[k] = [steps[k] EXCEPT !.status = to]
      BY <1>1, <2>2
    <3> QED BY <2>1, <2>2, <3>1 DEF Step, StepStatus
  <2>3. CASE ~(steps[k].status \in from)
    BY <1>1, <2>1, <2>3
  <2> QED BY <2>2, <2>3
<1>3. t \in Seq(Step) /\ Len(t) = Len(steps)
  BY <1>1, <1>2, MapOfPlan
<1> QED BY <1>1, <1>2, <1>3 DEF SamePlan

-----------------------------------------------------------------------------
(* What plans keep.                                                        *)

\* A step that may not be attempted again, though its status lets it.
Spent(s) == \/ s.attempts > MaxStepAttempts
            \/ s.attempts = MaxStepAttempts /\ s.status \in {"pending", "interrupted", "running"}

\* Attempts run over only where a step has a namesake, and shares its status.
NoneSpent(steps) ==
  \A k \in DOMAIN steps : Spent(steps[k]) =>
    \E j \in DOMAIN steps : j # k /\ steps[j].id = steps[k].id /\ steps[j].status = steps[k].status

TwoOf(steps, id) == \E j, k \in DOMAIN steps : j # k /\ steps[j].id = id /\ steps[k].id = id

\* The step to attempt has attempts left, or a namesake.
MayAttempt(steps, id) ==
  (\E k \in DOMAIN steps : steps[k].id = id /\ steps[k].attempts >= MaxStepAttempts)
    => TwoOf(steps, id)

\* An attempt ends within the limit, or a namesake shares it.
MaySettle(steps, id, status, n) ==
  /\ n > MaxStepAttempts => TwoOf(steps, id)
  /\ n = MaxStepAttempts => status \notin {"pending", "interrupted", "running"}

VerifyKind(steps) == \A k \in DOMAIN steps : steps[k].id = VerifyStep => steps[k].kind = "verify"

NoFailed(steps) == \A k \in DOMAIN steps : steps[k].status # "failed"

\* A cancelled step that no namesake has done.
Lost(steps, k) ==
  /\ k \in DOMAIN steps
  /\ steps[k].status = "cancelled"
  /\ \A j \in DOMAIN steps : steps[j].id = steps[k].id => steps[j].status \notin Done

NoneLost(steps) == \A k \in DOMAIN steps : ~Lost(steps, k)

\* Nothing is left to do but a verification that waits for a lost step.
OnlyVerify(steps) ==
  /\ \E k \in DOMAIN steps : steps[k].kind = "verify"
  /\ \A k \in DOMAIN steps : steps[k].status \notin TerminalStep =>
       /\ steps[k].id = VerifyStep
       /\ \E l \in DOMAIN steps :
            Lost(steps, l) /\ steps[l].id # VerifyStep /\ steps[l].id \in steps[k].deps

-----------------------------------------------------------------------------
(* The inductive invariant.                                                *)

Plans ==
  /\ VerifyKind(stored.steps) /\ NoneSpent(stored.steps)
  /\ VerifyKind(runner.steps) /\ NoneSpent(runner.steps) /\ NoFailed(runner.steps)
  /\ stored.status # "failed" => NoFailed(stored.steps)

Lifecycle ==
  /\ ActiveTaskHasRunner
  /\ stored.status = "paused" => runner = NoRunner
  /\ runner.pc # "none" => stored.status \in ActiveTask \union {"cancelled"}
  /\ runner.pc \in {"none", "planning"} => ~runner.pause /\ ~runner.registered
  /\ runner.registered => stored.status \in {"running", "verifying"}

Budgets ==
  /\ stored.version <= MaxPlanRevisions /\ runner.version <= MaxPlanRevisions
  /\ runner.pc = "replan" => runner.version < MaxPlanRevisions
  /\ runner.pc = "step" =>
       /\ Len(runner.steps) <= MaxTotalSteps
       /\ MayAttempt(runner.steps, runner.current)
       /\ runner.attempt > MaxStepAttempts => TwoOf(runner.steps, runner.current)

\* The store and the memory hold the same steps, in other states.
SameSteps ==
  runner.pc \in {"step", "replan", "verify"} =>
    /\ DOMAIN stored.steps = DOMAIN runner.steps
    /\ \A k \in DOMAIN stored.steps : stored.steps[k].id = runner.steps[k].id

Cancelled ==
  /\ runner.registered => NoneLost(runner.steps)
  /\ runner.pc = "step" /\ ~runner.aborted => NoneLost(runner.steps)
  /\ runner.pc = "replan" => NoneLost(runner.steps) \/ AllDone(runner.steps)
  /\ runner.pc = "verify" => \A k \in DOMAIN runner.steps :
       runner.steps[k].status \notin TerminalStep => runner.steps[k].id = VerifyStep
  /\ stored.status \notin TerminalTask => NoneLost(stored.steps) \/ OnlyVerify(stored.steps)

IInv == TypeOK /\ Plans /\ Lifecycle /\ Budgets /\ SameSteps /\ Cancelled

LEMMA TransitionKeeps ==
  ASSUME NEW steps \in Seq(Step), NEW id, NEW status \in StepStatus,
         VerifyKind(steps), NoneSpent(steps),
         status \in {"pending", "interrupted", "running"} => MayAttempt(steps, id),
         NEW t, t = transitionStep(steps, id, status)
  PROVE  /\ VerifyKind(t) /\ NoneSpent(t)
         /\ NoFailed(steps) /\ status # "failed" => NoFailed(t)
         /\ NoneLost(steps) /\ status # "cancelled" => NoneLost(t)
<1>1. /\ SamePlan(steps, t)
      /\ \A k \in DOMAIN steps :
           /\ t[k].attempts = steps[k].attempts
           /\ t[k].status = IF steps[k].id = id THEN status ELSE steps[k].status
  BY TransitionPlan
<1>2. DOMAIN t = DOMAIN steps /\ \A k \in DOMAIN steps : t[k].id = steps[k].id
  BY <1>1 DEF SamePlan
<1>3. VerifyKind(t)
  BY <1>1 DEF SamePlan, VerifyKind
<1>4. NoneSpent(t)
  <2> SUFFICES ASSUME NEW k \in DOMAIN steps, Spent(t[k])
               PROVE  \E j \in DOMAIN steps :
                        j # k /\ t[j].id = t[k].id /\ t[j].status = t[k].status
    BY <1>2 DEF NoneSpent
  <2>1. steps[k].attempts \in Nat /\ MaxStepAttempts \in Nat
    BY StepFields, TaskAssumption
  <2>2. CASE Spent(steps[k])
    BY <1>1, <1>2, <2>2 DEF NoneSpent
  <2>3. CASE ~Spent(steps[k])
    <3>1. steps[k].id = id /\ status \in {"pending", "interrupted", "running"}
          /\ steps[k].attempts >= MaxStepAttempts
      BY <1>1, <2>1, <2>3 DEF Spent
    <3>2. TwoOf(steps, id)
      BY <3>1 DEF MayAttempt
    <3>3. PICK j \in DOMAIN steps : j # k /\ steps[j].id = id
      BY <3>2 DEF TwoOf
    <3> QED BY <1>1, <1>2, <3>1, <3>3
  <2> QED BY <2>2, <2>3
<1>5. NoFailed(steps) /\ status # "failed" => NoFailed(t)
  BY <1>1, <1>2 DEF NoFailed
<1>6. NoneLost(steps) /\ status # "cancelled" => NoneLost(t)
  BY <1>1, <1>2 DEF NoneLost, Lost
<1> QED BY <1>3, <1>4, <1>5, <1>6

LEMMA SettleKeeps ==
  ASSUME NEW steps \in Seq(Step), NEW id, NEW status \in StepStatus, NEW n \in Nat,
         VerifyKind(steps), NoneSpent(steps),
         MaySettle(steps, id, status, n),
         NEW t, t = settleStep(steps, id, status, n)
  PROVE  /\ VerifyKind(t) /\ NoneSpent(t)
         /\ NoFailed(steps) /\ status # "failed" => NoFailed(t)
         /\ NoneLost(steps) /\ status # "cancelled" => NoneLost(t)
<1>1. /\ SamePlan(steps, t)
      /\ \A k \in DOMAIN steps :
           /\ steps[k].id = id => t[k].attempts = n /\ t[k].status = status
           /\ steps[k].id # id => t[k] = steps[k]
  <2>1. Settled(steps, id, status, n, t)
    BY SettlePlan
  <2> QED BY <2>1 DEF Settled
<1>2. DOMAIN t = DOMAIN steps /\ \A k \in DOMAIN steps : t[k].id = steps[k].id
  BY <1>1 DEF SamePlan
<1>3. VerifyKind(t)
  BY <1>1 DEF SamePlan, VerifyKind
<1>4. NoneSpent(t)
  <2> SUFFICES ASSUME NEW k \in DOMAIN steps, Spent(t[k])
               PROVE  \E j \in DOMAIN steps :
                        j # k /\ t[j].id = t[k].id /\ t[j].status = t[k].status
    BY <1>2 DEF NoneSpent
  <2>1. CASE steps[k].id = id
    <3>1. n > MaxStepAttempts
      BY <1>1, <2>1, TaskAssumption DEF Spent, MaySettle
    <3>2. PICK j \in DOMAIN steps : j # k /\ steps[j].id = id
      BY <3>1 DEF TwoOf, MaySettle
    <3> QED BY <1>1, <1>2, <2>1, <3>2
  <2>2. CASE steps[k].id # id
    <3>1. Spent(steps[k])
      BY <1>1, <2>2 DEF Spent
    <3> QED BY <1>1, <1>2, <2>2, <3>1 DEF NoneSpent
  <2> QED BY <2>1, <2>2
<1>5. NoFailed(steps) /\ status # "failed" => NoFailed(t)
  BY <1>1, <1>2 DEF NoFailed
<1>6. NoneLost(steps) /\ status # "cancelled" => NoneLost(t)
  BY <1>1, <1>2 DEF NoneLost, Lost
<1> QED BY <1>3, <1>4, <1>5, <1>6

LEMMA SetAllKeeps ==
  ASSUME NEW steps \in Seq(Step), NEW from, NEW to \in StepStatus,
         VerifyKind(steps), NoneSpent(steps),
         to = "cancelled" \/ (from = {"running"} /\ to = "interrupted"),
         NEW t, t = setAll(steps, from, to)
  PROVE  /\ VerifyKind(t) /\ NoneSpent(t)
         /\ NoFailed(steps) => NoFailed(t)
<1>1. /\ SamePlan(steps, t)
      /\ \A k \in DOMAIN steps :
           /\ t[k].attempts = steps[k].attempts
           /\ t[k].status = IF steps[k].status \in from THEN to ELSE steps[k].status
  BY SetAllPlan
<1>2. DOMAIN t = DOMAIN steps /\ \A k \in DOMAIN steps : t[k].id = steps[k].id
  BY <1>1 DEF SamePlan
<1>3. VerifyKind(t)
  BY <1>1 DEF SamePlan, VerifyKind
<1>4. NoneSpent(t)
  <2> SUFFICES ASSUME NEW k \in DOMAIN steps, Spent(t[k])
               PROVE  \E j \in DOMAIN steps :
                        j # k /\ t[j].id = t[k].id /\ t[j].status = t[k].status
    BY <1>2 DEF NoneSpent
  <2>1. Spent(steps[k])
    BY <1>1 DEF Spent
  <2> QED BY <1>1, <1>2, <2>1 DEF NoneSpent
<1>5. NoFailed(steps) => NoFailed(t)
  BY <1>1, <1>2 DEF NoFailed
<1> QED BY <1>3, <1>4, <1>5

\* Steps that were running when the process ended.
LEMMA InterruptKeeps ==
  ASSUME NEW steps \in Seq(Step), NEW t, t = setAll(steps, {"running"}, "interrupted")
  PROVE  /\ NoneLost(steps) => NoneLost(t)
         /\ OnlyVerify(steps) => OnlyVerify(t)
<1>1. SamePlan(steps, t)
  BY SetAllPlan DEF StepStatus
<1>2. \A k \in DOMAIN steps :
        t[k].status = IF steps[k].status \in {"running"} THEN "interrupted" ELSE steps[k].status
  BY SetAllPlan DEF StepStatus
<1>3. \A k \in DOMAIN steps : Lost(t, k) <=> Lost(steps, k)
  BY <1>1, <1>2 DEF SamePlan, Lost, Done
<1>4. NoneLost(steps) => NoneLost(t)
  BY <1>1, <1>3 DEF SamePlan, NoneLost
<1>5. OnlyVerify(steps) => OnlyVerify(t)
  <2> SUFFICES ASSUME OnlyVerify(steps) PROVE OnlyVerify(t)
    OBVIOUS
  <2>1. \E k \in DOMAIN t : t[k].kind = "verify"
    BY <1>1 DEF SamePlan, OnlyVerify
  <2>2. ASSUME NEW k \in DOMAIN t, t[k].status \notin TerminalStep
        PROVE  /\ t[k].id = VerifyStep
               /\ \E l \in DOMAIN t : Lost(t, l) /\ t[l].id # VerifyStep /\ t[l].id \in t[k].deps
    <3>1. k \in DOMAIN steps /\ steps[k].status \notin TerminalStep
      BY <1>1, <1>2, <2>2 DEF SamePlan, TerminalStep
    <3>2. PICK l \in DOMAIN steps :
            Lost(steps, l) /\ steps[l].id # VerifyStep /\ steps[l].id \in steps[k].deps
      BY <3>1 DEF OnlyVerify
    <3>3. steps[k].id = VerifyStep
      BY <3>1 DEF OnlyVerify
    <3> QED BY <1>1, <1>3, <3>1, <3>2, <3>3 DEF SamePlan
  <2> QED BY <2>1, <2>2 DEF OnlyVerify
<1> QED BY <1>4, <1>5

\* What the user skips in a plan without failed steps.
LEMMA SkipKeeps ==
  ASSUME NEW steps \in Seq(Step), NEW id, NoFailed(steps),
         \E k \in DOMAIN steps :
           steps[k].id = id /\ steps[k].status \in {"pending", "failed", "blocked"},
         NEW t, t = transitionStep(steps, id, "skipped"),
         NoneLost(steps) \/ OnlyVerify(steps)
  PROVE  NoneLost(t) \/ OnlyVerify(t)
<1>1. SamePlan(steps, t)
  BY TransitionPlan DEF StepStatus, TerminalStep
<1>2. \A k \in DOMAIN steps :
        t[k].status = IF steps[k].id = id THEN "skipped" ELSE steps[k].status
  BY TransitionPlan DEF StepStatus, TerminalStep
<1>3. DOMAIN t = DOMAIN steps /\ \A k \in DOMAIN steps : t[k].id = steps[k].id
  BY <1>1 DEF SamePlan
<1>4. CASE NoneLost(steps)
  BY <1>2, <1>3, <1>4 DEF NoneLost, Lost, Done
<1>5. CASE OnlyVerify(steps)
  <2>1. PICK m \in DOMAIN steps :
          steps[m].id = id /\ steps[m].status \in {"pending", "failed", "blocked"}
    OBVIOUS
  <2>2. id = VerifyStep
    BY <1>5, <2>1 DEF OnlyVerify, NoFailed, TerminalStep
  <2>3. \A l \in DOMAIN steps : Lost(steps, l) /\ steps[l].id # VerifyStep => Lost(t, l)
    BY <1>2, <1>3, <2>2 DEF Lost
  <2>4. \E k \in DOMAIN t : t[k].kind = "verify"
    BY <1>1, <1>5 DEF SamePlan, OnlyVerify
  <2>5. ASSUME NEW k \in DOMAIN t, t[k].status \notin TerminalStep
        PROVE  /\ t[k].id = VerifyStep
               /\ \E l \in DOMAIN t : Lost(t, l) /\ t[l].id # VerifyStep /\ t[l].id \in t[k].deps
    <3>1. k \in DOMAIN steps /\ steps[k].status \notin TerminalStep
      BY <1>2, <1>3, <2>5 DEF TerminalStep
    <3>2. PICK l \in DOMAIN steps :
            Lost(steps, l) /\ steps[l].id # VerifyStep /\ steps[l].id \in steps[k].deps
      BY <1>5, <3>1 DEF OnlyVerify
    <3>3. steps[k].id = VerifyStep
      BY <1>5, <3>1 DEF OnlyVerify
    <3>4. Lost(t, l)
      BY <2>3, <3>2
    <3> QED BY <1>1, <3>1, <3>2, <3>3, <3>4 DEF SamePlan
  <2> QED BY <2>4, <2>5 DEF OnlyVerify
<1> QED BY <1>4, <1>5

\* The plan with the verification step that the runner adds.
LEMMA AppendKeeps ==
  ASSUME NEW steps \in Seq(Step), VerifyKind(steps), NoneSpent(steps), NoFailed(steps),
         AllDone(steps), ~\E k \in DOMAIN steps : steps[k].kind = "verify",
         NEW v, v = [id |-> VerifyStep, kind |-> "verify", status |-> "pending",
                     deps |-> {steps[k].id : k \in DOMAIN steps}, attempts |-> 0],
         NEW plan, plan = Append(steps, v)
  PROVE  /\ plan \in Seq(Step)
         /\ VerifyKind(plan) /\ NoneSpent(plan) /\ NoFailed(plan)
         /\ MayAttempt(plan, VerifyStep)
         /\ NoneLost(steps) => NoneLost(plan)
         /\ NoneLost(plan) \/ OnlyVerify(plan)
         /\ \A k \in DOMAIN plan : plan[k].status \notin TerminalStep => plan[k].id = VerifyStep
<1> DEFINE n == Len(steps)
<1>1. \A k \in DOMAIN steps : steps[k].id \in StepIds /\ steps[k].id # VerifyStep
  BY StepFields, TaskAssumption DEF VerifyKind
<1>2. v \in Step
  BY <1>1 DEF Step
<1>3. /\ n \in Nat /\ DOMAIN steps = 1..n
      /\ plan \in Seq(Step) /\ DOMAIN plan = 1..(n + 1)
      /\ plan[n + 1] = v /\ \A k \in 1..n : plan[k] = steps[k]
  BY <1>2
<1>4. \A k \in DOMAIN plan :
        \/ k \in DOMAIN steps /\ plan[k] = steps[k]
        \/ k = n + 1 /\ plan[k] = v
  BY <1>3
<1>5. DOMAIN steps \subseteq DOMAIN plan /\ n + 1 \in DOMAIN plan /\ n + 1 \notin DOMAIN steps
  BY <1>3
<1>6. v.id = VerifyStep /\ v.kind = "verify" /\ v.status = "pending" /\ v.attempts = 0
      /\ v.deps = {steps[k].id : k \in DOMAIN steps}
  OBVIOUS
<1>7. \A k \in DOMAIN steps : plan[k] = steps[k]
  BY <1>3
<1> HIDE DEF n
<1>8. VerifyKind(plan)
  BY <1>1, <1>4, <1>6 DEF VerifyKind
<1>9. ~Spent(v)
  BY <1>6, TaskAssumption DEF Spent
<1>10. NoneSpent(plan)
  <2> SUFFICES ASSUME NEW k \in DOMAIN plan, Spent(plan[k])
               PROVE  \E j \in DOMAIN plan :
                        j # k /\ plan[j].id = plan[k].id /\ plan[j].status = plan[k].status
    BY DEF NoneSpent
  <2>1. k \in DOMAIN steps /\ plan[k] = steps[k]
    BY <1>4, <1>9
  <2>2. PICK j \in DOMAIN steps :
          j # k /\ steps[j].id = steps[k].id /\ steps[j].status = steps[k].status
    BY <2>1 DEF NoneSpent
  <2> QED BY <1>5, <1>7, <2>1, <2>2
<1>11. NoFailed(plan)
  BY <1>4, <1>6 DEF NoFailed
<1>12. MayAttempt(plan, VerifyStep)
  BY <1>1, <1>4, <1>6, TaskAssumption DEF MayAttempt
<1>13. \A k \in DOMAIN plan : plan[k].status \notin TerminalStep => k = n + 1 /\ plan[k] = v
  BY <1>4 DEF AllDone
<1>14. \A k \in DOMAIN steps : Lost(steps, k) => Lost(plan, k)
  BY <1>1, <1>4, <1>5, <1>6, <1>7 DEF Lost
<1>15. \A k \in DOMAIN plan : Lost(plan, k) => k \in DOMAIN steps /\ Lost(steps, k)
  BY <1>4, <1>5, <1>6, <1>7 DEF Lost
<1>16. NoneLost(steps) => NoneLost(plan)
  BY <1>15 DEF NoneLost
<1>17. ~NoneLost(steps) => OnlyVerify(plan)
  <2> SUFFICES ASSUME ~NoneLost(steps) PROVE OnlyVerify(plan)
    OBVIOUS
  <2>1. PICK l \in DOMAIN steps : Lost(steps, l)
    BY DEF NoneLost
  <2>2. /\ l \in DOMAIN plan /\ Lost(plan, l) /\ plan[l].id # VerifyStep /\ plan[l].id \in v.deps
    BY <1>1, <1>5, <1>6, <1>7, <1>14, <2>1
  <2> QED BY <1>5, <1>3, <1>6, <1>13, <2>2 DEF OnlyVerify, n
<1> QED BY <1>3, <1>6, <1>8, <1>10, <1>11, <1>12, <1>13, <1>16, <1>17

-----------------------------------------------------------------------------
(* The ways on of the runner keep the invariant.                           *)

LEMMA EmptyPlan ==
  /\ <<>> \in Seq(Step) /\ VerifyKind(<<>>) /\ NoneSpent(<<>>) /\ NoFailed(<<>>) /\ NoneLost(<<>>)
  /\ NoRunner \in Runner /\ NoRunner.steps = <<>> /\ NoRunner.pc = "none" /\ NoRunner.version = 0
  /\ ~NoRunner.pause /\ ~NoRunner.registered
<1>1. <<>> \in Seq(Step) /\ \A k \in DOMAIN <<>> : FALSE
  OBVIOUS
<1>2. VerifyKind(<<>>) /\ NoneSpent(<<>>) /\ NoFailed(<<>>) /\ NoneLost(<<>>)
  BY <1>1 DEF VerifyKind, NoneSpent, NoFailed, NoneLost
<1> QED BY <1>1, <1>2 DEF NoRunner, Runner

\* No runner is left, and the task is in no active status.
LEMMA Stops ==
  ASSUME NEW st \in Stored, stored' = st, runner' = NoRunner, st.status \notin ActiveTask,
         VerifyKind(st.steps), NoneSpent(st.steps), st.version <= MaxPlanRevisions,
         st.status # "failed" => NoFailed(st.steps),
         st.status \notin TerminalTask => NoneLost(st.steps) \/ OnlyVerify(st.steps)
  PROVE  IInv'
<1>1. TypeOK'
  BY EmptyPlan DEF TypeOK
<1>2. Plans'
  BY EmptyPlan DEF Plans
<1>3. Lifecycle'
  BY EmptyPlan DEF Lifecycle, ActiveTaskHasRunner
<1>4. Budgets'
  BY EmptyPlan, TaskAssumption DEF Budgets
<1>5. SameSteps'
  BY EmptyPlan DEF SameSteps
<1>6. Cancelled'
  BY EmptyPlan DEF Cancelled
<1> QED BY <1>1, <1>2, <1>3, <1>4, <1>5, <1>6 DEF IInv

\* What a caller of the step loop hands over.
Fit(w, st) ==
  /\ w \in Runner /\ w.version <= MaxPlanRevisions
  /\ VerifyKind(w.steps) /\ NoneSpent(w.steps) /\ NoFailed(w.steps)
  /\ NoneLost(w.steps) \/ OnlyVerify(w.steps) \/ (AllDone(w.steps) /\ ~w.registered)
  /\ st \in Stored /\ st.version <= MaxPlanRevisions
  /\ VerifyKind(st.steps) /\ NoneSpent(st.steps)

LEMMA RunnerFields ==
  ASSUME NEW w \in Runner
  PROVE  /\ w.steps \in Seq(Step) /\ w.version \in Nat /\ w.attempt \in Nat /\ w.noProgress \in Nat
         /\ w.current \in StepIds \union {VerifyStep}
         /\ w.pause \in BOOLEAN /\ w.registered \in BOOLEAN /\ w.aborted \in BOOLEAN
         /\ w.pc \in {"none", "planning", "step", "replan", "verify"}
BY DEF Runner

LEMMA StoredFields ==
  ASSUME NEW st \in Stored
  PROVE  /\ st.steps \in Seq(Step) /\ st.version \in Nat
         /\ st.status \in {"none", "paused"} \union ActiveTask \union TerminalTask
BY DEF Stored

\* The task fails.
LEMMA Fails ==
  ASSUME NEW st \in Stored, VerifyKind(st.steps), NoneSpent(st.steps),
         st.version <= MaxPlanRevisions,
         NEW why \in {"unexpected_exit", "budget", "stalled", "attempts", "verification"},
         failTask(st, why)
  PROVE  IInv' /\ runner' = NoRunner /\ stored'.status = "failed"
<1> DEFINE t == [st EXCEPT !.status = "failed", !.failure = why]
<1>1. t \in Stored /\ t.status = "failed" /\ t.steps = st.steps /\ t.version = st.version
  BY DEF Stored, TerminalTask
<1>2. stored' = t /\ runner' = NoRunner
  BY DEF failTask
<1> HIDE DEF t
<1> QED BY <1>1, <1>2, Stops DEF ActiveTask, TerminalTask

\* The task is completed or cancelled.
LEMMA Ends ==
  ASSUME NEW st \in Stored, VerifyKind(st.steps), NoneSpent(st.steps), NoFailed(st.steps),
         st.version <= MaxPlanRevisions,
         NEW status \in {"completed", "cancelled"}, End(st, status)
  PROVE  IInv' /\ runner' = NoRunner /\ stored' \in Stored /\ stored'.status = status
         /\ stored'.steps = st.steps
<1> DEFINE t == [st EXCEPT !.status = status]
<1>1. t \in Stored /\ t.status = status /\ t.steps = st.steps /\ t.version = st.version
  BY DEF Stored, TerminalTask
<1>2. stored' = t /\ runner' = NoRunner
  BY DEF End
<1> HIDE DEF t
<1> QED BY <1>1, <1>2, Stops DEF ActiveTask, TerminalTask

LEMMA StartStep ==
  ASSUME NEW w, NEW st, Fit(w, st), ~Stopped(w),
         NEW k \in getReadySteps(w.steps), startStep(w, st, k)
  PROVE  IInv' /\ ~w.pause /\ stored'.status = "running"
<1> DEFINE id == w.steps[k].id
           t  == transitionStep(w.steps, id, "running")
           r  == [w EXCEPT !.pc = "step", !.steps = t, !.current = id,
                           !.attempt = w.steps[k].attempts + 1, !.aborted = FALSE]
           s  == [st EXCEPT !.status = "running", !.version = w.version, !.steps = t]
<1>1. /\ w.steps \in Seq(Step) /\ w.version \in Nat /\ w.registered \in BOOLEAN
      /\ w.pause \in BOOLEAN /\ w.version <= MaxPlanRevisions
      /\ VerifyKind(w.steps) /\ NoneSpent(w.steps) /\ NoFailed(w.steps)
  BY RunnerFields DEF Fit
<1>2. /\ k \in DOMAIN w.steps /\ w.steps[k].status \in {"pending", "interrupted"}
      /\ w.steps[k].deps \subseteq {w.steps[j].id : j \in {i \in DOMAIN w.steps :
                                                             w.steps[i].status \in Done}}
  BY DEF getReadySteps
<1>3. /\ w.steps[k].attempts \in Nat /\ id \in StepIds \union {VerifyStep}
      /\ MaxStepAttempts \in Nat
  BY <1>1, <1>2, StepFields, TaskAssumption
<1>4. w.steps[k].attempts >= MaxStepAttempts => TwoOf(w.steps, id)
  <2> SUFFICES ASSUME w.steps[k].attempts >= MaxStepAttempts PROVE TwoOf(w.steps, id)
    OBVIOUS
  <2>1. Spent(w.steps[k])
    BY <1>2, <1>3 DEF Spent
  <2> QED BY <1>1, <1>2, <2>1 DEF NoneSpent, TwoOf
<1>5. MayAttempt(w.steps, id)
  <2> SUFFICES ASSUME NEW j \in DOMAIN w.steps, w.steps[j].id = id,
                      w.steps[j].attempts >= MaxStepAttempts
               PROVE  TwoOf(w.steps, id)
    BY DEF MayAttempt
  <2>1. CASE j = k
    BY <1>4, <2>1
  <2>2. CASE j # k
    BY <1>2, <2>2 DEF TwoOf
  <2> QED BY <2>1, <2>2
<1>6. NoneLost(w.steps)
  <2>1. ~AllDone(w.steps)
    BY <1>2 DEF AllDone, TerminalStep
  <2>2. ~OnlyVerify(w.steps)
    <3> SUFFICES ASSUME OnlyVerify(w.steps) PROVE FALSE
      OBVIOUS
    <3>1. PICK l \in DOMAIN w.steps : Lost(w.steps, l) /\ w.steps[l].id \in w.steps[k].deps
      BY <1>2 DEF OnlyVerify, TerminalStep
    <3>2. PICK j \in DOMAIN w.steps : w.steps[j].status \in Done /\ w.steps[j].id = w.steps[l].id
      BY <1>2, <3>1
    <3> QED BY <3>1, <3>2 DEF Lost
  <2> QED BY <2>1, <2>2 DEF Fit
<1>7. "running" \in StepStatus
  BY DEF StepStatus
<1>8. SamePlan(w.steps, t) /\ \A j \in DOMAIN w.steps : t[j].attempts = w.steps[j].attempts
  BY <1>1, <1>7, TransitionPlan
<1>9. VerifyKind(t) /\ NoneSpent(t) /\ NoFailed(t) /\ NoneLost(t)
  BY <1>1, <1>5, <1>6, <1>7, TransitionKeeps
<1>10. MayAttempt(t, id) /\ (w.steps[k].attempts + 1 > MaxStepAttempts => TwoOf(t, id))
  <2>1. TwoOf(w.steps, id) => TwoOf(t, id)
    BY <1>8 DEF TwoOf, SamePlan
  <2>2. MayAttempt(t, id)
    BY <1>5, <1>8, <2>1 DEF MayAttempt, SamePlan
  <2> QED BY <1>3, <1>4, <2>1, <2>2
<1>11. Len(t) <= MaxTotalSteps /\ ~w.pause
  BY <1>1, <1>8, TaskAssumption DEF Stopped, OverBudget, SamePlan
<1>12. t \in Seq(Step)
  BY <1>8 DEF SamePlan
<1>13. runner' = r /\ stored' = s
  BY DEF startStep
<1> HIDE DEF t, id
<1>14. /\ r \in Runner /\ r.pc = "step" /\ r.steps = t /\ r.current = id /\ ~r.aborted
       /\ r.attempt = w.steps[k].attempts + 1 /\ r.version = w.version
       /\ r.registered = w.registered
       /\ r.pause = w.pause
  <2>1. w \in Runner /\ w.steps[k].attempts + 1 \in Nat
    BY <1>3 DEF Fit
  <2>2. r \in Runner
    BY <1>3, <1>12, <2>1 DEF Runner
  <2> QED BY <2>1, <2>2 DEF Runner
<1>15. s \in Stored /\ s.status = "running" /\ s.steps = t /\ s.version = w.version
  BY <1>1, <1>12 DEF Fit, Stored, ActiveTask
<1> HIDE DEF r, s
<1>16. TypeOK'
  BY <1>13, <1>14, <1>15 DEF TypeOK
<1>17. Plans'
  BY <1>9, <1>13, <1>14, <1>15 DEF Plans
<1>18. Lifecycle'
  BY <1>13, <1>14, <1>15 DEF Lifecycle, ActiveTaskHasRunner, ActiveTask
<1>19. Budgets'
  BY <1>1, <1>10, <1>11, <1>13, <1>14, <1>15 DEF Budgets
<1>20. SameSteps'
  BY <1>13, <1>14, <1>15 DEF SameSteps
<1>21. Cancelled'
  BY <1>9, <1>13, <1>14, <1>15 DEF Cancelled
<1> QED BY <1>11, <1>13, <1>15, <1>16, <1>17, <1>18, <1>19, <1>20, <1>21 DEF IInv

LEMMA RunVerification ==
  ASSUME NEW w, NEW st, Fit(w, st), AllDone(w.steps),
         ~\E k \in DOMAIN w.steps : w.steps[k].kind = "verify", runVerification(w, st)
  PROVE  IInv' /\ stored'.status = "verifying"
<1> DEFINE v == [id |-> VerifyStep, kind |-> "verify", status |-> "pending",
                 deps |-> {w.steps[k].id : k \in DOMAIN w.steps}, attempts |-> 0]
           plan == Append(w.steps, v)
           t == transitionStep(plan, VerifyStep, "running")
           r == [w EXCEPT !.pc = "verify", !.current = VerifyStep, !.attempt = 1,
                          !.aborted = FALSE, !.steps = t]
           s == [st EXCEPT !.status = "verifying", !.version = w.version, !.steps = plan]
<1>1. /\ w.steps \in Seq(Step) /\ w.version \in Nat /\ w.registered \in BOOLEAN
      /\ w.version <= MaxPlanRevisions
      /\ VerifyKind(w.steps) /\ NoneSpent(w.steps) /\ NoFailed(w.steps)
  BY RunnerFields DEF Fit
<1>2. /\ plan \in Seq(Step)
      /\ VerifyKind(plan) /\ NoneSpent(plan) /\ NoFailed(plan)
      /\ MayAttempt(plan, VerifyStep)
      /\ NoneLost(w.steps) => NoneLost(plan)
      /\ NoneLost(plan) \/ OnlyVerify(plan)
      /\ \A k \in DOMAIN plan : plan[k].status \notin TerminalStep => plan[k].id = VerifyStep
  BY <1>1, AppendKeeps
<1>3. runner' = r /\ stored' = s
  BY DEF runVerification
<1> HIDE DEF plan
<1>4. "running" \in StepStatus
  BY DEF StepStatus
<1>5. SamePlan(plan, t) /\ \A k \in DOMAIN plan :
        t[k].status = IF plan[k].id = VerifyStep THEN "running" ELSE plan[k].status
  BY <1>2, <1>4, TransitionPlan
<1>6. VerifyKind(t) /\ NoneSpent(t) /\ NoFailed(t) /\ (NoneLost(plan) => NoneLost(t))
  BY <1>2, <1>4, TransitionKeeps
<1>7. t \in Seq(Step) /\ DOMAIN t = DOMAIN plan /\ \A k \in DOMAIN plan : t[k].id = plan[k].id
  BY <1>5 DEF SamePlan
<1>8. \A k \in DOMAIN t : t[k].status \notin TerminalStep => t[k].id = VerifyStep
  BY <1>2, <1>5, <1>7
<1> HIDE DEF t
<1>9. /\ r \in Runner /\ r.pc = "verify" /\ r.steps = t /\ ~r.aborted
      /\ r.version = w.version /\ r.registered = w.registered
  BY <1>7, RunnerFields DEF Fit, Runner
<1>10. s \in Stored /\ s.status = "verifying" /\ s.steps = plan /\ s.version = w.version
  BY <1>1, <1>2 DEF Fit, Stored, ActiveTask
<1>11. w.registered => NoneLost(t)
  <2>1. ~OnlyVerify(w.steps)
    BY DEF OnlyVerify
  <2> QED BY <1>2, <1>6, <2>1 DEF Fit
<1> HIDE DEF r, s
<1>12. TypeOK'
  BY <1>3, <1>9, <1>10 DEF TypeOK
<1>13. Plans'
  BY <1>2, <1>3, <1>6, <1>9, <1>10 DEF Plans
<1>14. Lifecycle'
  BY <1>3, <1>9, <1>10 DEF Lifecycle, ActiveTaskHasRunner, ActiveTask
<1>15. Budgets'
  BY <1>1, <1>3, <1>9, <1>10 DEF Budgets
<1>16. SameSteps'
  BY <1>3, <1>7, <1>9, <1>10 DEF SameSteps
<1>17. Cancelled'
  BY <1>2, <1>3, <1>8, <1>9, <1>10, <1>11 DEF Cancelled
<1> QED BY <1>3, <1>10, <1>12, <1>13, <1>14, <1>15, <1>16, <1>17 DEF IInv

\* The step loop, from its top to its next await.
LEMMA LoopTop ==
  ASSUME NEW w, NEW st, Fit(w, st), NoFailed(st.steps), loopTop(w, st)
  PROVE  /\ IInv'
         /\ w.pause => runner' = NoRunner
         /\ stored'.status = "completed" => AllDone(w.steps) /\ stored'.steps = st.steps
<1>1. /\ st \in Stored /\ VerifyKind(st.steps) /\ NoneSpent(st.steps)
      /\ st.version <= MaxPlanRevisions /\ w.pause \in BOOLEAN
  BY RunnerFields DEF Fit
<1>2. CASE w.pause /\ ReturnPaused(st)
  <2>1. failTask(st, "unexpected_exit")
    BY <1>2 DEF ReturnPaused
  <2>2. IInv' /\ runner' = NoRunner /\ stored'.status = "failed"
    BY <1>1, <2>1, Fails
  <2> QED BY <2>2
<1>3. ASSUME ~w.pause, NEW why \in {"unexpected_exit", "budget", "stalled"}, failTask(st, why)
      PROVE  IInv' /\ stored'.status = "failed"
  BY <1>1, <1>3, Fails
<1>4. CASE ~w.pause /\ Stopped(w) /\ failTask(st, IF OverBudget(w) THEN "budget" ELSE "stalled")
  <2>1. PICK why \in {"budget", "stalled"} : failTask(st, why)
    BY <1>4
  <2>2. IInv' /\ stored'.status = "failed"
    BY <1>3, <1>4, <2>1
  <2> QED BY <1>4, <2>2
<1>5. CASE ~Stopped(w) /\ \E k \in getReadySteps(w.steps) : startStep(w, st, k)
  <2>1. PICK k \in getReadySteps(w.steps) : startStep(w, st, k)
    BY <1>5
  <2>2. IInv' /\ ~w.pause /\ stored'.status = "running"
    BY <1>5, <2>1, StartStep
  <2> QED BY <2>2
<1>6. CASE ~Stopped(w) /\ AllDone(w.steps) /\ End(st, "completed")
  <2>1. IInv' /\ runner' = NoRunner /\ stored'.steps = st.steps
    BY <1>1, <1>6, Ends
  <2> QED BY <1>6, <2>1
<1>7. CASE /\ ~Stopped(w) /\ AllDone(w.steps) /\ runVerification(w, st)
           /\ ~\E k \in DOMAIN w.steps : w.steps[k].kind = "verify"
  <2>1. IInv' /\ stored'.status = "verifying"
    BY <1>7, RunVerification
  <2> QED BY <1>7, <2>1 DEF Stopped
<1>8. CASE ~Stopped(w) /\ ~w.pause /\ (ReturnPaused(st) \/ failTask(st, "stalled"))
  <2>1. PICK why \in {"unexpected_exit", "stalled"} : failTask(st, why)
    BY <1>8 DEF ReturnPaused
  <2>2. IInv' /\ stored'.status = "failed"
    BY <1>3, <1>8, <2>1
  <2> QED BY <1>8, <2>2
<1>9. \/ w.pause /\ ReturnPaused(st)
      \/ ~w.pause /\ Stopped(w) /\ failTask(st, IF OverBudget(w) THEN "budget" ELSE "stalled")
      \/ ~Stopped(w) /\ \E k \in getReadySteps(w.steps) : startStep(w, st, k)
      \/ ~Stopped(w) /\ AllDone(w.steps) /\ End(st, "completed")
      \/ /\ ~Stopped(w) /\ AllDone(w.steps) /\ runVerification(w, st)
         /\ ~\E k \in DOMAIN w.steps : w.steps[k].kind = "verify"
      \/ ~Stopped(w) /\ ~w.pause /\ (ReturnPaused(st) \/ failTask(st, "stalled"))
  BY DEF loopTop, Stopped
<1> QED BY <1>2, <1>4, <1>5, <1>6, <1>7, <1>8, <1>9

-----------------------------------------------------------------------------
(* New plans.                                                              *)

LEMMA NewPlan ==
  ASSUME NEW plan \in generatePlan \union buildFallbackPlan
  PROVE  /\ plan \in Seq(Step)
         /\ \A k \in DOMAIN plan : /\ plan[k].id \in StepIds /\ plan[k].status = "pending"
                                   /\ plan[k].attempts = 0
<1> DEFINE fresh == [id : StepIds, kind : {"work", "verify"}, deps : SUBSET StepIds,
                     status : {"pending"}, attempts : {0}]
<1>1. \A x \in fresh : x \in Step /\ x.id \in StepIds /\ x.status = "pending" /\ x.attempts = 0
  BY DEF Step
<1>2. CASE plan \in generatePlan
  <2>1. plan \in NewPlans
    BY <1>2 DEF generatePlan
  <2>2. PICK n \in 1..Cardinality(StepIds) : plan \in [1..n -> fresh]
    BY <2>1 DEF NewPlans
  <2>3. n \in Nat /\ DOMAIN plan = 1..n /\ \A k \in 1..n : plan[k] \in fresh
    BY <2>2, FS_CardinalityType, TaskAssumption
  <2> HIDE DEF fresh
  <2>4. plan \in [1..n -> Step]
    BY <1>1, <2>2, <2>3
  <2>5. plan \in Seq(Step)
    BY <2>3, <2>4
  <2> QED BY <1>1, <2>3, <2>5
<1>3. CASE plan \in buildFallbackPlan
  <2>1. PICK s \in StepIds : plan = <<[id |-> s, kind |-> "work", deps |-> {},
                                       status |-> "pending", attempts |-> 0]>>
    BY <1>3 DEF buildFallbackPlan
  <2> DEFINE x == [id |-> s, kind |-> "work", deps |-> {}, status |-> "pending", attempts |-> 0]
  <2>2. x \in fresh
    OBVIOUS
  <2>3. plan = <<x>>
    BY <2>1
  <2> HIDE DEF x, fresh
  <2>4. x \in Step /\ x.id \in StepIds /\ x.status = "pending" /\ x.attempts = 0
    BY <1>1, <2>2
  <2>5. plan \in Seq(Step) /\ \A k \in DOMAIN plan : plan[k] = x
    BY <2>3, <2>4
  <2> QED BY <2>4, <2>5
<1> QED BY <1>2, <1>3

\* Steps that are done followed by fresh ones.
LEMMA MixedPlan ==
  ASSUME NEW d \in Seq(Step), VerifyKind(d), NoneSpent(d),
         \A k \in DOMAIN d : d[k].status \in Done,
         NEW new \in Seq(Step),
         \A k \in DOMAIN new : /\ new[k].id \in StepIds /\ new[k].status = "pending"
                               /\ new[k].attempts = 0,
         NEW plan, plan = d \o new
  PROVE  /\ plan \in Seq(Step) /\ VerifyKind(plan) /\ NoneSpent(plan)
         /\ NoFailed(plan) /\ NoneLost(plan)
<1>1. /\ Len(d) \in Nat /\ Len(new) \in Nat /\ plan \in Seq(Step)
      /\ DOMAIN d = 1..Len(d) /\ DOMAIN new = 1..Len(new) /\ DOMAIN plan = 1..(Len(d) + Len(new))
      /\ \A k \in DOMAIN plan : plan[k] = IF k <= Len(d) THEN d[k] ELSE new[k - Len(d)]
  OBVIOUS
<1>2. DOMAIN d \subseteq DOMAIN plan /\ \A k \in DOMAIN d : plan[k] = d[k]
  BY <1>1
<1>3. ASSUME NEW k \in DOMAIN plan
      PROVE  \/ k \in DOMAIN d /\ plan[k] = d[k]
             \/ /\ plan[k].id \in StepIds /\ plan[k].status = "pending" /\ plan[k].attempts = 0
  <2>1. CASE k <= Len(d)
    BY <1>1, <2>1
  <2>2. CASE ~(k <= Len(d))
    <3>1. k - Len(d) \in DOMAIN new /\ plan[k] = new[k - Len(d)]
      BY <1>1, <2>2
    <3> QED BY <3>1
  <2> QED BY <2>1, <2>2
<1>4. VerifyKind(plan)
  BY <1>3, TaskAssumption DEF VerifyKind
<1>5. NoneSpent(plan)
  <2> SUFFICES ASSUME NEW k \in DOMAIN plan, Spent(plan[k])
               PROVE  \E j \in DOMAIN plan :
                        j # k /\ plan[j].id = plan[k].id /\ plan[j].status = plan[k].status
    BY DEF NoneSpent
  <2>1. k \in DOMAIN d /\ plan[k] = d[k]
    BY <1>3, TaskAssumption DEF Spent
  <2>2. PICK j \in DOMAIN d : j # k /\ d[j].id = d[k].id /\ d[j].status = d[k].status
    BY <2>1 DEF NoneSpent
  <2> QED BY <1>2, <2>1, <2>2
<1>6. NoFailed(plan) /\ NoneLost(plan)
  BY <1>3 DEF NoFailed, NoneLost, Lost, Done
<1> QED BY <1>1, <1>4, <1>5, <1>6

\* Keeping the done steps keeps a step with its namesakes of the same status.
LEMMA DoneKeeps ==
  ASSUME NEW steps \in Seq(Step), VerifyKind(steps), NoneSpent(steps),
         NEW d \in doneSteps(steps)
  PROVE  /\ d \in Seq(Step) /\ VerifyKind(d) /\ NoneSpent(d)
         /\ \A k \in DOMAIN d : d[k].status \in Done
<1> DEFINE done == {k \in DOMAIN steps : steps[k].status \in Done}
           n    == Cardinality(done)
<1>1. PICK at \in [1..n -> done] :
        /\ \A j, k \in DOMAIN at : j < k => at[j] < at[k]
        /\ d = [k \in 1..n |-> steps[at[k]]]
  BY DEF doneSteps
<1>2. IsFiniteSet(done) /\ n \in Nat
  <2>1. Len(steps) \in Nat /\ DOMAIN steps = 1..Len(steps)
    OBVIOUS
  <2>2. IsFiniteSet(DOMAIN steps)
    BY <2>1, FS_Interval
  <2>3. IsFiniteSet(done)
    BY <2>2, FS_Subset
  <2> QED BY <2>3, FS_CardinalityType
<1>3. \A k \in done : /\ k \in Nat /\ k \in DOMAIN steps
                       /\ steps[k] \in Step /\ steps[k].status \in Done
  OBVIOUS
<1> HIDE DEF done
<1>4. \A j, k \in 1..n : at[j] = at[k] => j = k
  <2> SUFFICES ASSUME NEW j \in 1..n, NEW k \in 1..n, j # k PROVE at[j] # at[k]
    OBVIOUS
  <2>1. at[j] \in Nat /\ at[k] \in Nat
    BY <1>1, <1>3
  <2>2. (j < k => at[j] < at[k]) /\ (k < j => at[k] < at[j])
    BY <1>1
  <2> QED BY <1>2, <2>1, <2>2
<1>5. at \in Injection(1..n, done)
  BY <1>1, <1>4 DEF Injection, IsInjective
<1>6. at \in Surjection(1..n, done)
  <2>1. IsFiniteSet(1..n) /\ Cardinality(1..n) = n
    BY <1>2, FS_Interval
  <2>2. Cardinality(1..n) = Cardinality(done) <=> at \in Surjection(1..n, done)
    BY <1>2, <1>5, FS_Injection
  <2> QED BY <2>1, <2>2
<1>7. \A x \in done : \E k \in 1..n : at[k] = x
  BY <1>6 DEF Surjection
<1>8. DOMAIN d = 1..n /\ \A k \in 1..n : d[k] = steps[at[k]] /\ at[k] \in done
  BY <1>1
<1> HIDE DEF n
<1>9. d \in Seq(Step)
  <2>1. d \in [1..n -> Step]
    BY <1>1, <1>3
  <2> QED BY <1>2, <2>1
<1>10. VerifyKind(d)
  BY <1>3, <1>8 DEF VerifyKind
<1>11. NoneSpent(d)
  <2> SUFFICES ASSUME NEW k \in 1..n, Spent(d[k])
               PROVE  \E j \in 1..n : j # k /\ d[j].id = d[k].id /\ d[j].status = d[k].status
    BY <1>8 DEF NoneSpent
  <2>1. at[k] \in DOMAIN steps /\ Spent(steps[at[k]]) /\ steps[at[k]].status \in Done
    BY <1>3, <1>8
  <2>2. PICK x \in DOMAIN steps : /\ x # at[k] /\ steps[x].id = steps[at[k]].id
                                  /\ steps[x].status = steps[at[k]].status
    BY <2>1 DEF NoneSpent
  <2>3. x \in done
    BY <2>1, <2>2 DEF done
  <2>4. PICK j \in 1..n : at[j] = x
    BY <1>7, <2>3
  <2> QED BY <1>8, <2>2, <2>4
<1>12. \A k \in DOMAIN d : d[k].status \in Done
  BY <1>3, <1>8
<1> QED BY <1>9, <1>10, <1>11, <1>12

-----------------------------------------------------------------------------
(* The actions.  Each keeps the invariant and the two action properties.   *)

PauseKept == runner.pause /\ runner'.pc \in {"step", "verify"} => Work(runner') = Work(runner)

CompletedIsDone ==
  stored'.status = "completed" /\ runner.registered /\ StepIdsUnique' =>
    \A k \in DOMAIN stored'.steps : \/ stored'.steps[k].status \in Done
                                    \/ runner.steps[k].status \in Done

Kept == IInv' /\ PauseKept /\ CompletedIsDone

UniqueIds(steps) == \A j, k \in DOMAIN steps : steps[j].id = steps[k].id => j = k

\* Where ids are unique, a finished plan without failed or lost steps is done.
LEMMA AllAreDone ==
  ASSUME NEW steps \in Seq(Step), AllDone(steps), NoFailed(steps), NoneLost(steps), UniqueIds(steps)
  PROVE  \A k \in DOMAIN steps : steps[k].status \in Done
<1> SUFFICES ASSUME NEW k \in DOMAIN steps, steps[k].status = "cancelled"
             PROVE  FALSE
  BY DEF AllDone, NoFailed, TerminalStep, Done
<1>1. PICK j \in DOMAIN steps : steps[j].id = steps[k].id /\ steps[j].status \in Done
  BY DEF NoneLost, Lost
<1> QED BY <1>1 DEF UniqueIds, Done

\* The step loop, entered by the runner of an unpaused or a paused task.
LEMMA LoopKeeps ==
  ASSUME NEW w, NEW st, Fit(w, st), NoFailed(st.steps), loopTop(w, st),
         runner.pause => w.pause,
         runner.registered /\ AllDone(w.steps) /\ UniqueIds(st.steps) =>
           \A k \in DOMAIN st.steps : \/ st.steps[k].status \in Done
                                      \/ runner.steps[k].status \in Done
  PROVE  Kept
<1>1. /\ IInv' /\ (w.pause => runner' = NoRunner)
      /\ stored'.status = "completed" => AllDone(w.steps) /\ stored'.steps = st.steps
  BY LoopTop
<1>2. PauseKept
  BY <1>1, EmptyPlan DEF PauseKept
<1>3. CompletedIsDone
  BY <1>1 DEF CompletedIsDone, StepIdsUnique, UniqueIds
<1> QED BY <1>1, <1>2, <1>3 DEF Kept

\* A runner that ends leaves nothing that the action properties are about.
LEMMA StopKeeps ==
  ASSUME IInv', runner' = NoRunner, stored'.status # "completed"
  PROVE  Kept
BY EmptyPlan DEF Kept, PauseKept, CompletedIsDone

LEMMA Facts ==
  ASSUME IInv
  PROVE  /\ stored \in Stored /\ runner \in Runner
         /\ stored.steps \in Seq(Step) /\ stored.version \in Nat
         /\ stored.version <= MaxPlanRevisions /\ runner.version <= MaxPlanRevisions
         /\ runner.steps \in Seq(Step) /\ runner.version \in Nat
         /\ runner.attempt \in Nat /\ runner.noProgress \in Nat
         /\ runner.pause \in BOOLEAN /\ runner.registered \in BOOLEAN
         /\ Plans /\ Lifecycle /\ Budgets /\ SameSteps /\ Cancelled
BY RunnerFields, StoredFields DEF IInv, TypeOK, Budgets

\* What a runner without a plan of its own starts from.
LEMMA StartTask ==
  ASSUME ~runner.registered, ~runner.pause,
         NEW st \in Stored, st.version <= MaxPlanRevisions,
         VerifyKind(st.steps), NoneSpent(st.steps), NoFailed(st.steps),
         NoneLost(st.steps) \/ OnlyVerify(st.steps),
         startTaskRunner(st)
  PROVE  Kept
<1> DEFINE w == [NoRunner EXCEPT !.steps = st.steps, !.version = st.version, !.registered = TRUE]
           s == [st EXCEPT !.status = "running"]
<1>1. st.steps \in Seq(Step) /\ st.version \in Nat
  BY StoredFields
<1>2. w \in Runner /\ w.steps = st.steps /\ w.version = st.version
  BY <1>1 DEF NoRunner, Runner
<1>3. s \in Stored /\ s.steps = st.steps /\ s.version = st.version
  BY DEF Stored, ActiveTask
<1>4. loopTop(w, s)
  BY DEF startTaskRunner
<1> HIDE DEF w, s
<1>5. Fit(w, s) /\ NoFailed(s.steps)
  BY <1>2, <1>3 DEF Fit
<1> QED BY <1>4, <1>5, LoopKeeps

LEMMA PlanReady == ASSUME IInv, planReady PROVE Kept
<1>1. runner.pc = "planning" /\ ~runner.pause /\ ~runner.registered
  BY Facts DEF planReady, Lifecycle
<1>2. PICK plan \in generatePlan \union buildFallbackPlan :
        startTaskRunner([stored EXCEPT !.version = 1, !.steps = plan])
  BY DEF planReady
<1> DEFINE st == [stored EXCEPT !.version = 1, !.steps = plan]
<1>3. /\ plan \in Seq(Step)
      /\ \A k \in DOMAIN plan : /\ plan[k].id \in StepIds /\ plan[k].status = "pending"
                                /\ plan[k].attempts = 0
  BY NewPlan
<1>4. VerifyKind(plan) /\ NoneSpent(plan) /\ NoFailed(plan) /\ NoneLost(plan)
  BY <1>3, TaskAssumption DEF VerifyKind, NoneSpent, Spent, NoFailed, NoneLost, Lost
<1>5. st \in Stored /\ st.steps = plan /\ st.version = 1
  BY <1>3, Facts DEF Stored
<1>6. 1 <= MaxPlanRevisions
  BY TaskAssumption
<1>7. startTaskRunner(st)
  BY <1>2
<1> HIDE DEF st
<1> QED BY <1>1, <1>4, <1>5, <1>6, <1>7, StartTask

LEMMA Resume == ASSUME IInv, resumeTask(stored.steps) PROVE Kept
<1> DEFINE st == [stored EXCEPT !.steps = stored.steps]
<1>1. stored.status = "paused" /\ startTaskRunner(st)
  BY DEF resumeTask
<1>2. st = stored
  BY Facts DEF Stored
<1>3. ~runner.registered /\ ~runner.pause
  BY <1>1, Facts, EmptyPlan DEF Lifecycle
<1>4. /\ VerifyKind(stored.steps) /\ NoneSpent(stored.steps) /\ NoFailed(stored.steps)
      /\ NoneLost(stored.steps) \/ OnlyVerify(stored.steps)
  BY <1>1, Facts DEF Plans, Cancelled, TerminalTask
<1> HIDE DEF st
<1> QED BY <1>1, <1>2, <1>3, <1>4, Facts, StartTask

\* The plan as a settled step leaves it, in memory and in the store.
LEMMA Settles ==
  ASSUME IInv, runner.pc = "step", ~runner.aborted, NEW status \in StepStatus,
         status # "cancelled",
         status \in {"pending", "interrupted", "running"} => runner.attempt < MaxStepAttempts,
         NEW t, t = settleStep(runner.steps, runner.current, status, runner.attempt)
  PROVE  /\ t \in Seq(Step) /\ VerifyKind(t) /\ NoneSpent(t)
         /\ status # "failed" => NoFailed(t)
         /\ NoneLost(t)
         /\ SamePlan(runner.steps, t)
         /\ Saved(t) \in Stored /\ Saved(t).steps = t /\ Saved(t).version = runner.version
<1>1. MaySettle(runner.steps, runner.current, status, runner.attempt)
  BY Facts, TaskAssumption DEF MaySettle, Budgets
<1>2. VerifyKind(runner.steps) /\ NoneSpent(runner.steps) /\ NoFailed(runner.steps)
  BY Facts DEF Plans
<1>3. NoneLost(runner.steps)
  BY Facts DEF Cancelled
<1>4. runner.steps \in Seq(Step) /\ runner.attempt \in Nat
  BY Facts
<1>5. Settled(runner.steps, runner.current, status, runner.attempt, t)
  BY <1>4, SettlePlan
<1>6. SamePlan(runner.steps, t)
  BY <1>5 DEF Settled
<1>7. t \in Seq(Step)
  BY <1>6 DEF SamePlan
<1>8. /\ VerifyKind(t) /\ NoneSpent(t)
      /\ NoFailed(runner.steps) /\ status # "failed" => NoFailed(t)
      /\ NoneLost(runner.steps) /\ status # "cancelled" => NoneLost(t)
  BY <1>1, <1>2, <1>4, SettleKeeps
<1>9. Saved(t) \in Stored /\ Saved(t).steps = t /\ Saved(t).version = runner.version
  BY <1>7, Facts DEF Saved, Stored
<1> QED BY <1>2, <1>3, <1>6, <1>7, <1>8, <1>9

LEMMA StepCompleted == ASSUME IInv, stepCompleted PROVE Kept
<1> DEFINE t == settleStep(runner.steps, runner.current, "completed", runner.attempt)
           w == [runner EXCEPT !.steps = t, !.noProgress = 0]
<1>1. runner.pc = "step" /\ ~runner.aborted /\ loopTop(w, Saved(t))
  BY DEF stepCompleted
<1>2. "completed" \in StepStatus
  BY DEF StepStatus, TerminalStep
<1>3. /\ t \in Seq(Step) /\ VerifyKind(t) /\ NoneSpent(t) /\ NoFailed(t) /\ NoneLost(t)
      /\ Saved(t) \in Stored /\ Saved(t).steps = t /\ Saved(t).version = runner.version
  BY <1>1, <1>2, Settles
<1> HIDE DEF t
<1>4. /\ w \in Runner /\ w.steps = t /\ w.version = runner.version /\ w.pause = runner.pause
  BY <1>3, Facts DEF Runner
<1> HIDE DEF w
<1>5. Fit(w, Saved(t)) /\ NoFailed(Saved(t).steps)
  BY <1>3, <1>4, Facts DEF Fit
<1>6. AllDone(t) /\ UniqueIds(t) => \A k \in DOMAIN t : t[k].status \in Done
  BY <1>3, AllAreDone
<1> QED BY <1>1, <1>3, <1>4, <1>5, <1>6, LoopKeeps

LEMMA StepFailed == ASSUME IInv, stepFailed PROVE Kept
<1> DEFINE again == settleStep(runner.steps, runner.current, "pending", runner.attempt)
           over  == settleStep(runner.steps, runner.current, "failed", runner.attempt)
           w     == [runner EXCEPT !.steps = again, !.noProgress = @ + 1]
<1>1. /\ runner.pc = "step" /\ ~runner.aborted
      /\ \/ runner.attempt < MaxStepAttempts /\ loopTop(w, Saved(again))
         \/ failTask(Saved(over), "attempts")
  BY DEF stepFailed
<1>2. CASE failTask(Saved(over), "attempts")
  <2>1. "failed" \in StepStatus
    BY DEF StepStatus, TerminalStep
  <2>2. /\ over \in Seq(Step) /\ VerifyKind(over) /\ NoneSpent(over)
        /\ Saved(over) \in Stored /\ Saved(over).steps = over
        /\ Saved(over).version = runner.version
    BY <1>1, <2>1, Settles
  <2> HIDE DEF over
  <2>3. IInv' /\ runner' = NoRunner /\ stored'.status = "failed"
    BY <1>2, <2>2, Facts, Fails
  <2> QED BY <2>3, StopKeeps
<1>3. CASE runner.attempt < MaxStepAttempts /\ loopTop(w, Saved(again))
  <2>1. "pending" \in StepStatus
    BY DEF StepStatus
  <2>2. /\ again \in Seq(Step) /\ VerifyKind(again) /\ NoneSpent(again) /\ NoFailed(again)
        /\ NoneLost(again)
        /\ Saved(again) \in Stored /\ Saved(again).steps = again
        /\ Saved(again).version = runner.version
    BY <1>1, <1>3, <2>1, Settles
  <2> HIDE DEF again
  <2>3. /\ w \in Runner /\ w.steps = again /\ w.version = runner.version
        /\ w.pause = runner.pause
    <3>1. runner \in Runner /\ runner.noProgress + 1 \in Nat
      BY Facts
    <3> QED BY <2>2, <3>1 DEF Runner
  <2> HIDE DEF w
  <2>4. Fit(w, Saved(again)) /\ NoFailed(Saved(again).steps)
    BY <2>2, <2>3, Facts DEF Fit
  <2>5. AllDone(again) /\ UniqueIds(again) => \A k \in DOMAIN again : again[k].status \in Done
    BY <2>2, AllAreDone
  <2> QED BY <1>3, <2>2, <2>3, <2>4, <2>5, LoopKeeps
<1> QED BY <1>1, <1>2, <1>3

LEMMA StepBlocked == ASSUME IInv, stepBlocked PROVE Kept
<1> DEFINE t == settleStep(runner.steps, runner.current, "blocked", runner.attempt)
<1>1. runner.pc = "step" /\ ~runner.aborted /\ failTask(Saved(t), "unexpected_exit")
  BY DEF stepBlocked, ReturnPaused
<1>2. "blocked" \in StepStatus
  BY DEF StepStatus
<1>3. /\ VerifyKind(t) /\ NoneSpent(t)
      /\ Saved(t) \in Stored /\ Saved(t).steps = t /\ Saved(t).version = runner.version
  BY <1>1, <1>2, Settles
<1> HIDE DEF t
<1>4. IInv' /\ runner' = NoRunner /\ stored'.status = "failed"
  BY <1>1, <1>3, Facts, Fails
<1> QED BY <1>4, StopKeeps

LEMMA StoredIsOpen ==
  ASSUME IInv, runner.pc # "none"
  PROVE  /\ NoFailed(stored.steps) /\ VerifyKind(stored.steps) /\ NoneSpent(stored.steps)
         /\ stored \in Stored /\ stored.version <= MaxPlanRevisions
BY Facts DEF Plans, Lifecycle, ActiveTask

\* Where the store's ids are unique, so are the runner's.
LEMMA UniqueInMemory ==
  ASSUME IInv, runner.pc \in {"step", "replan", "verify"}, UniqueIds(stored.steps)
  PROVE  UniqueIds(runner.steps) /\ DOMAIN stored.steps = DOMAIN runner.steps
BY Facts DEF SameSteps, UniqueIds

LEMMA StepAmbiguous == ASSUME IInv, stepAmbiguous PROVE Kept
<1>1. runner.pc = "step" /\ ~runner.aborted /\ loopTop(runner, stored)
  BY DEF stepAmbiguous
<1>2. NoneLost(runner.steps) /\ NoFailed(runner.steps) /\ NoFailed(stored.steps)
  BY <1>1, StoredIsOpen, Facts DEF Cancelled, Plans
<1>3. Fit(runner, stored)
  BY <1>2, Facts DEF Fit, Plans
<1>4. AllDone(runner.steps) /\ UniqueIds(stored.steps) =>
        \A k \in DOMAIN stored.steps : runner.steps[k].status \in Done
  BY <1>1, <1>2, Facts, UniqueInMemory, AllAreDone
<1> QED BY <1>1, <1>2, <1>3, <1>4, LoopKeeps

LEMMA StepAsksForReplan == ASSUME IInv, stepAsksForReplan PROVE Kept
<1> DEFINE t == settleStep(runner.steps, runner.current, "completed", runner.attempt)
           r == [runner EXCEPT !.pc = "replan", !.steps = t]
<1>1. /\ runner.pc = "step" /\ ~runner.aborted
      /\ \/ failTask(stored, "budget")
         \/ runner.version < MaxPlanRevisions /\ runner' = r /\ UNCHANGED stored
  BY DEF stepAsksForReplan
<1>2. CASE failTask(stored, "budget")
  <2>1. IInv' /\ runner' = NoRunner /\ stored'.status = "failed"
    BY <1>1, <1>2, StoredIsOpen, Fails
  <2> QED BY <2>1, StopKeeps
<1>3. CASE runner.version < MaxPlanRevisions /\ runner' = r /\ UNCHANGED stored
  <2>1. "completed" \in StepStatus
    BY DEF StepStatus, TerminalStep
  <2>2. /\ t \in Seq(Step) /\ VerifyKind(t) /\ NoneSpent(t) /\ NoFailed(t) /\ NoneLost(t)
        /\ SamePlan(runner.steps, t)
    BY <1>1, <2>1, Settles
  <2> HIDE DEF t
  <2>3. /\ r \in Runner /\ r.pc = "replan" /\ r.steps = t /\ r.version = runner.version
        /\ r.registered = runner.registered /\ r.aborted = runner.aborted
    BY <2>2, Facts DEF Runner
  <2> HIDE DEF r
  <2>4. runner' = r /\ stored' = stored
    BY <1>3
  <2>5. TypeOK'
    BY <2>3, <2>4, Facts DEF TypeOK
  <2>6. Plans'
    BY <2>2, <2>3, <2>4, Facts DEF Plans
  <2>7. Lifecycle'
    BY <1>1, <2>3, <2>4, Facts, EmptyPlan DEF Lifecycle, ActiveTaskHasRunner
  <2>8. Budgets'
    BY <1>3, <2>3, <2>4, Facts DEF Budgets
  <2>9. SameSteps'
    BY <1>1, <2>2, <2>3, <2>4, Facts DEF SameSteps, SamePlan
  <2>10. Cancelled'
    BY <2>2, <2>3, <2>4, Facts DEF Cancelled
  <2>11. IInv'
    BY <2>5, <2>6, <2>7, <2>8, <2>9, <2>10 DEF IInv
  <2>12. stored'.status # "completed"
    BY <1>1, <2>4, Facts DEF Lifecycle, ActiveTask
  <2> QED BY <2>3, <2>4, <2>11, <2>12 DEF Kept, PauseKept, CompletedIsDone
<1> QED BY <1>1, <1>2, <1>3

LEMMA StepCancelled == ASSUME IInv, stepCancelled PROVE Kept
<1> DEFINE u == transitionStep(runner.steps, runner.current, "interrupted")
           t == setAll(u, {"pending"}, "cancelled")
<1>1. runner.pc = "step" /\ End(Saved(t), "cancelled")
  BY DEF stepCancelled
<1>2. "interrupted" \in StepStatus /\ "cancelled" \in StepStatus
  BY DEF StepStatus, TerminalStep
<1>3. /\ runner.steps \in Seq(Step) /\ MayAttempt(runner.steps, runner.current)
      /\ VerifyKind(runner.steps) /\ NoneSpent(runner.steps) /\ NoFailed(runner.steps)
  BY <1>1, Facts DEF Budgets, Plans
<1>4. VerifyKind(u) /\ NoneSpent(u) /\ NoFailed(u)
  BY <1>2, <1>3, TransitionKeeps
<1>5. u \in Seq(Step)
  <2>1. SamePlan(runner.steps, u)
    BY <1>2, <1>3, TransitionPlan
  <2> QED BY <2>1 DEF SamePlan
<1> HIDE DEF u
<1>6. VerifyKind(t) /\ NoneSpent(t) /\ NoFailed(t)
  BY <1>2, <1>4, <1>5, SetAllKeeps
<1>7. t \in Seq(Step)
  <2>1. SamePlan(u, t)
    BY <1>2, <1>5, SetAllPlan
  <2> QED BY <2>1 DEF SamePlan
<1> HIDE DEF t
<1>8. Saved(t) \in Stored /\ Saved(t).steps = t /\ Saved(t).version = runner.version
  BY <1>7, Facts DEF Saved, Stored
<1>9. IInv' /\ runner' = NoRunner /\ stored'.status = "cancelled"
  BY <1>1, <1>6, <1>8, Facts, Ends
<1> QED BY <1>9, StopKeeps

LEMMA ReplanSucceeds == ASSUME IInv, replanSucceeds PROVE Kept
<1>1. runner.pc = "replan"
  BY DEF replanSucceeds
<1>2. PICK d \in doneSteps(runner.steps), new \in generatePlan :
        loopTop([runner EXCEPT !.steps = d \o new, !.version = runner.version + 1],
                [stored EXCEPT !.status = "running", !.steps = d \o new,
                               !.version = runner.version + 1])
  BY DEF replanSucceeds
<1> DEFINE plan == d \o new
           v    == runner.version + 1
           w    == [runner EXCEPT !.steps = plan, !.version = v]
           st   == [stored EXCEPT !.status = "running", !.steps = plan, !.version = v]
<1>3. v \in Nat /\ v <= MaxPlanRevisions
  BY <1>1, Facts, TaskAssumption DEF Budgets
<1>4. /\ d \in Seq(Step) /\ VerifyKind(d) /\ NoneSpent(d)
      /\ \A k \in DOMAIN d : d[k].status \in Done
  BY Facts, DoneKeeps DEF Plans
<1>5. /\ new \in Seq(Step)
      /\ \A k \in DOMAIN new : /\ new[k].id \in StepIds /\ new[k].status = "pending"
                               /\ new[k].attempts = 0
  BY NewPlan
<1>6. /\ plan \in Seq(Step) /\ VerifyKind(plan) /\ NoneSpent(plan)
      /\ NoFailed(plan) /\ NoneLost(plan)
  BY <1>4, <1>5, MixedPlan
<1>7. loopTop(w, st)
  BY <1>2
<1> HIDE DEF plan, v
<1>8. w \in Runner /\ w.steps = plan /\ w.version = v /\ w.pause = runner.pause
  BY <1>3, <1>6, Facts DEF Runner
<1>9. st \in Stored /\ st.steps = plan /\ st.version = v
  BY <1>3, <1>6, Facts DEF Stored, ActiveTask
<1> HIDE DEF w, st
<1>10. Fit(w, st) /\ NoFailed(st.steps)
  BY <1>3, <1>6, <1>8, <1>9 DEF Fit
<1>11. AllDone(plan) /\ UniqueIds(plan) => \A k \in DOMAIN plan : plan[k].status \in Done
  BY <1>6, AllAreDone
<1> QED BY <1>7, <1>8, <1>9, <1>10, <1>11, LoopKeeps

LEMMA ReplanFails == ASSUME IInv, replanFails PROVE Kept
<1> DEFINE w == [runner EXCEPT !.noProgress = @ + 1]
<1>1. runner.pc = "replan" /\ loopTop(w, stored)
  BY DEF replanFails
<1>2. /\ w \in Runner /\ w.steps = runner.steps /\ w.version = runner.version
      /\ w.pause = runner.pause /\ w.registered = runner.registered
  <2>1. runner \in Runner /\ runner.noProgress + 1 \in Nat
    BY Facts
  <2> QED BY <2>1 DEF Runner
<1> HIDE DEF w
<1>3. NoFailed(runner.steps) /\ NoFailed(stored.steps)
  BY <1>1, StoredIsOpen, Facts DEF Plans
<1>4. NoneLost(runner.steps) \/ (AllDone(runner.steps) /\ ~runner.registered)
  BY <1>1, Facts DEF Cancelled
<1>5. Fit(w, stored)
  BY <1>2, <1>4, Facts DEF Fit, Plans
<1>6. runner.registered /\ AllDone(runner.steps) /\ UniqueIds(stored.steps) =>
        \A k \in DOMAIN stored.steps : runner.steps[k].status \in Done
  BY <1>1, <1>3, <1>4, Facts, UniqueInMemory, AllAreDone
<1> QED BY <1>1, <1>2, <1>3, <1>5, <1>6, LoopKeeps

LEMMA VerificationPasses == ASSUME IInv, verificationPasses PROVE Kept
<1> DEFINE t == transitionStep(runner.steps, VerifyStep, "completed")
<1>1. runner.pc = "verify" /\ End(Saved(t), "completed")
  BY DEF verificationPasses
<1>2. "completed" \in StepStatus
  BY DEF StepStatus, TerminalStep
<1>3. /\ runner.steps \in Seq(Step) /\ VerifyKind(runner.steps) /\ NoneSpent(runner.steps)
      /\ NoFailed(runner.steps)
      /\ \A k \in DOMAIN runner.steps :
           runner.steps[k].status \notin TerminalStep => runner.steps[k].id = VerifyStep
      /\ runner.registered => NoneLost(runner.steps)
  BY <1>1, Facts DEF Plans, Cancelled
<1>4. /\ VerifyKind(t) /\ NoneSpent(t) /\ NoFailed(t)
      /\ NoneLost(runner.steps) => NoneLost(t)
  BY <1>2, <1>3, TransitionKeeps
<1>5. SamePlan(runner.steps, t) /\ \A k \in DOMAIN runner.steps :
        t[k].status = IF runner.steps[k].id = VerifyStep THEN "completed"
                                                         ELSE runner.steps[k].status
  BY <1>2, <1>3, TransitionPlan
<1>6. t \in Seq(Step) /\ AllDone(t)
  BY <1>3, <1>5 DEF SamePlan, AllDone, TerminalStep
<1> HIDE DEF t
<1>7. Saved(t) \in Stored /\ Saved(t).steps = t /\ Saved(t).version = runner.version
  BY <1>6, Facts DEF Saved, Stored
<1>8. IInv' /\ runner' = NoRunner /\ stored'.steps = t
  BY <1>1, <1>4, <1>7, Facts, Ends
<1>9. runner.registered /\ UniqueIds(t) => \A k \in DOMAIN t : t[k].status \in Done
  BY <1>3, <1>4, <1>6, AllAreDone
<1> QED BY <1>8, <1>9, EmptyPlan DEF Kept, PauseKept, CompletedIsDone, StepIdsUnique, UniqueIds

LEMMA VerificationEnds ==
  ASSUME IInv, verificationFails \/ verificationCancelled PROVE Kept
<1>1. runner.pc = "verify" /\ (failTask(stored, "verification") \/ End(stored, "cancelled"))
  BY DEF verificationFails, verificationCancelled
<1>2. CASE failTask(stored, "verification")
  <2>1. IInv' /\ runner' = NoRunner /\ stored'.status = "failed"
    BY <1>1, <1>2, StoredIsOpen, Fails
  <2> QED BY <2>1, StopKeeps
<1>3. CASE End(stored, "cancelled")
  <2>1. IInv' /\ runner' = NoRunner /\ stored'.status = "cancelled"
    BY <1>1, <1>3, StoredIsOpen, Ends
  <2> QED BY <2>1, StopKeeps
<1> QED BY <1>1, <1>2, <1>3

LEMMA CreateTask == ASSUME IInv, createTask PROVE Kept
<1>1. stored.status = "none" /\ runner.pc = "none" /\ ~runner.registered /\ ~runner.pause
  BY Facts DEF createTask, Lifecycle, ActiveTask
<1>2. /\ VerifyKind(stored.steps) /\ NoneSpent(stored.steps) /\ NoFailed(stored.steps)
      /\ NoneLost(stored.steps) \/ OnlyVerify(stored.steps)
  BY <1>1, Facts DEF Plans, Cancelled, TerminalTask
<1> DEFINE s == [stored EXCEPT !.status = "planning"]
           f == [stored EXCEPT !.status = "failed", !.failure = "no_config"]
           r == [NoRunner EXCEPT !.pc = "planning"]
<1>3. (stored' = s /\ runner' = r) \/ (stored' = f /\ runner' = runner)
  BY DEF createTask
<1>4. s \in Stored /\ s.status = "planning" /\ s.steps = stored.steps /\ s.version = stored.version
  BY Facts DEF Stored, ActiveTask
<1>5. f \in Stored /\ f.status = "failed" /\ f.steps = stored.steps /\ f.version = stored.version
  BY Facts DEF Stored, TerminalTask
<1>6. /\ r \in Runner /\ r.pc = "planning" /\ r.steps = <<>> /\ r.version = 0
      /\ ~r.pause /\ ~r.registered
  BY EmptyPlan DEF NoRunner, Runner
<1> HIDE DEF s, f, r
<1>7. TypeOK'
  BY <1>3, <1>4, <1>5, <1>6, Facts DEF TypeOK
<1>8. Plans'
  BY <1>2, <1>3, <1>4, <1>5, <1>6, Facts, EmptyPlan DEF Plans
<1>9. Lifecycle'
  BY <1>1, <1>3, <1>4, <1>5, <1>6, Facts
     DEF Lifecycle, ActiveTaskHasRunner, ActiveTask
<1>10. Budgets'
  BY <1>1, <1>3, <1>4, <1>5, <1>6, Facts, TaskAssumption DEF Budgets
<1>11. SameSteps'
  BY <1>1, <1>3, <1>6 DEF SameSteps
<1>12. Cancelled'
  BY <1>1, <1>2, <1>3, <1>4, <1>5, <1>6 DEF Cancelled, TerminalTask
<1>13. IInv'
  BY <1>7, <1>8, <1>9, <1>10, <1>11, <1>12 DEF IInv
<1> QED BY <1>1, <1>13 DEF Kept, PauseKept, CompletedIsDone

LEMMA PauseTask == ASSUME IInv, pauseTask PROVE Kept
<1> DEFINE r == [runner EXCEPT !.pause = TRUE]
<1>1. /\ runner.registered /\ stored.status \in {"running", "verifying"}
      /\ runner' = r /\ stored' = stored
  BY DEF pauseTask
<1>2. /\ r \in Runner /\ r.pc = runner.pc /\ r.steps = runner.steps /\ r.version = runner.version
      /\ r.current = runner.current /\ r.attempt = runner.attempt
      /\ r.registered = runner.registered /\ r.aborted = runner.aborted
  BY Facts DEF Runner
<1> HIDE DEF r
<1>3. runner.pc \notin {"none", "planning"}
  BY <1>1, Facts DEF Lifecycle
<1>4. TypeOK'
  BY <1>1, <1>2, Facts DEF TypeOK
<1>5. Plans'
  BY <1>1, <1>2, Facts DEF Plans
<1>6. Lifecycle'
  BY <1>1, <1>2, <1>3, Facts DEF Lifecycle, ActiveTaskHasRunner
<1>7. Budgets'
  BY <1>1, <1>2, Facts DEF Budgets
<1>8. SameSteps'
  BY <1>1, <1>2, Facts DEF SameSteps
<1>9. Cancelled'
  BY <1>1, <1>2, Facts DEF Cancelled
<1>10. IInv'
  BY <1>4, <1>5, <1>6, <1>7, <1>8, <1>9 DEF IInv
<1> QED BY <1>1, <1>2, <1>10 DEF Kept, PauseKept, CompletedIsDone, Work

LEMMA CancelTask == ASSUME IInv, cancelTask PROVE Kept
<1> DEFINE t == setAll(runner.steps, Open, "cancelled")
           r == [runner EXCEPT !.steps = t, !.registered = FALSE,
                               !.aborted = (runner.pc # "replan")]
           s == [Saved(t) EXCEPT !.status = "cancelled"]
<1>1. runner.registered /\ runner' = r /\ stored' = s
  BY DEF cancelTask
<1>2. runner.pc \in {"step", "replan", "verify"}
  BY <1>1, Facts, RunnerFields DEF Lifecycle
<1>3. "cancelled" \in StepStatus
  BY DEF StepStatus, TerminalStep
<1>4. /\ runner.steps \in Seq(Step) /\ VerifyKind(runner.steps) /\ NoneSpent(runner.steps)
      /\ NoFailed(runner.steps)
  BY Facts DEF Plans
<1>5. VerifyKind(t) /\ NoneSpent(t) /\ NoFailed(t)
  BY <1>3, <1>4, SetAllKeeps
<1>6. SamePlan(runner.steps, t) /\ \A k \in DOMAIN runner.steps :
        /\ t[k].attempts = runner.steps[k].attempts
        /\ t[k].status = IF runner.steps[k].status \in Open THEN "cancelled"
                                                            ELSE runner.steps[k].status
  BY <1>3, <1>4, SetAllPlan
<1>7. /\ t \in Seq(Step) /\ DOMAIN t = DOMAIN runner.steps /\ Len(t) = Len(runner.steps)
      /\ \A k \in DOMAIN t : t[k].id = runner.steps[k].id
  BY <1>6 DEF SamePlan
<1>8. AllDone(t)
  <2> SUFFICES ASSUME NEW k \in DOMAIN t PROVE t[k].status \in TerminalStep
    BY DEF AllDone
  <2>1. runner.steps[k].status \in StepStatus
    BY <1>4, <1>7, StepFields
  <2> QED BY <1>6, <1>7, <2>1 DEF StepStatus, Open, TerminalStep
<1>9. \A id : TwoOf(runner.steps, id) => TwoOf(t, id)
  BY <1>7 DEF TwoOf
<1>10. runner.pc = "step" =>
        /\ Len(t) <= MaxTotalSteps /\ MayAttempt(t, runner.current)
        /\ runner.attempt > MaxStepAttempts => TwoOf(t, runner.current)
  <2> SUFFICES ASSUME runner.pc = "step"
               PROVE  /\ Len(t) <= MaxTotalSteps /\ MayAttempt(t, runner.current)
                      /\ runner.attempt > MaxStepAttempts => TwoOf(t, runner.current)
    OBVIOUS
  <2>1. /\ Len(runner.steps) <= MaxTotalSteps /\ MayAttempt(runner.steps, runner.current)
        /\ runner.attempt > MaxStepAttempts => TwoOf(runner.steps, runner.current)
    BY Facts DEF Budgets
  <2>2. MayAttempt(t, runner.current)
    BY <1>6, <1>7, <1>9, <2>1 DEF MayAttempt
  <2> QED BY <1>7, <1>9, <2>1, <2>2
<1> HIDE DEF t
<1>11. /\ r \in Runner /\ r.pc = runner.pc /\ r.steps = t /\ r.version = runner.version
       /\ r.current = runner.current /\ r.attempt = runner.attempt
       /\ ~r.registered /\ (runner.pc # "replan" => r.aborted)
  BY <1>7, Facts DEF Runner
<1>12. s \in Stored /\ s.status = "cancelled" /\ s.steps = t /\ s.version = runner.version
  BY <1>7, Facts DEF Stored, Saved, TerminalTask
<1> HIDE DEF r, s
<1>13. TypeOK'
  BY <1>1, <1>11, <1>12 DEF TypeOK
<1>14. Plans'
  BY <1>1, <1>5, <1>11, <1>12 DEF Plans
<1>15. Lifecycle'
  BY <1>1, <1>2, <1>11, <1>12 DEF Lifecycle, ActiveTaskHasRunner, ActiveTask
<1>16. Budgets'
  BY <1>1, <1>10, <1>11, <1>12, Facts DEF Budgets
<1>17. SameSteps'
  BY <1>1, <1>11, <1>12 DEF SameSteps
<1>18. Cancelled'
  BY <1>1, <1>8, <1>11, <1>12 DEF Cancelled, AllDone, TerminalTask
<1>19. IInv'
  BY <1>13, <1>14, <1>15, <1>16, <1>17, <1>18 DEF IInv
<1> QED BY <1>1, <1>11, <1>12, <1>19 DEF Kept, PauseKept, CompletedIsDone, Work

\* The user edits the stored plan and nothing else.
LEMMA EditKeeps ==
  ASSUME IInv, NEW t, SamePlan(stored.steps, t), VerifyKind(t), NoneSpent(t),
         stored.status # "failed" => NoFailed(t),
         stored.status \notin TerminalTask => NoneLost(t) \/ OnlyVerify(t),
         stored.status = "completed" /\ runner.registered => FALSE,
         stored' = [stored EXCEPT !.steps = t], UNCHANGED runner
  PROVE  Kept
<1> DEFINE s == [stored EXCEPT !.steps = t]
<1>1. t \in Seq(Step) /\ DOMAIN t = DOMAIN stored.steps
      /\ \A k \in DOMAIN t : t[k].id = stored.steps[k].id
  BY DEF SamePlan
<1>2. s \in Stored /\ s.status = stored.status /\ s.steps = t /\ s.version = stored.version
  BY <1>1, Facts DEF Stored
<1>3. stored' = s /\ runner' = runner
  OBVIOUS
<1> HIDE DEF s
<1>4. TypeOK'
  BY <1>2, <1>3, Facts DEF TypeOK
<1>5. Plans'
  BY <1>2, <1>3, Facts DEF Plans
<1>6. Lifecycle'
  BY <1>2, <1>3, Facts DEF Lifecycle, ActiveTaskHasRunner
<1>7. Budgets'
  BY <1>2, <1>3, Facts DEF Budgets
<1>8. SameSteps'
  BY <1>1, <1>2, <1>3, Facts DEF SameSteps
<1>9. Cancelled'
  BY <1>2, <1>3, Facts DEF Cancelled
<1>10. IInv'
  BY <1>4, <1>5, <1>6, <1>7, <1>8, <1>9 DEF IInv
<1> QED BY <1>2, <1>3, <1>10 DEF Kept, PauseKept, CompletedIsDone, Work

LEMMA FirstWith ==
  ASSUME NEW steps \in Seq(Step), NEW id, \E k \in DOMAIN steps : steps[k].id = id
  PROVE  firstWith(steps, id) \in DOMAIN steps /\ steps[firstWith(steps, id)].id = id
<1> DEFINE S == {k \in DOMAIN steps : steps[k].id = id}
<1>1. Len(steps) \in Nat /\ DOMAIN steps = 1..Len(steps)
  OBVIOUS
<1>2. S \subseteq Nat /\ S # {}
  BY <1>1
<1>3. PICK n \in S : \A m \in S : <<m, n>> \notin OpToRel(<, Nat)
  BY <1>2, NatLessThanWellFounded, WFMin
<1>4. \A m \in S : ~(m < n)
  BY <1>2, <1>3 DEF OpToRel
<1>5. \A j \in 1..(n - 1) : steps[j].id # id
  BY <1>1, <1>2, <1>4
<1>6. n \in DOMAIN steps /\ steps[n].id = id
  OBVIOUS
<1> QED BY <1>5, <1>6 DEF firstWith

\* A failed step is found in a failed task only, which has no runner.
LEMMA RetryStep ==
  ASSUME IInv, NEW id \in StepIds \union {VerifyStep}, retryStep(id) PROVE Kept
<1> DEFINE t == settleStep(stored.steps, id, "pending", 0)
<1>1. /\ \E k \in DOMAIN stored.steps : stored.steps[k].id = id
      /\ stored.steps[firstWith(stored.steps, id)].status = "failed"
  BY DEF retryStep
<1>2. ~NoFailed(stored.steps)
  BY <1>1, Facts, FirstWith DEF NoFailed
<1>3. stored.status = "failed"
  BY <1>2, Facts DEF Plans
<1>4. stored' = [stored EXCEPT !.steps = t] /\ UNCHANGED runner
  BY <1>3 DEF retryStep
<1>5. "pending" \in StepStatus
  BY DEF StepStatus
<1>6. MaySettle(stored.steps, id, "pending", 0)
  BY TaskAssumption DEF MaySettle
<1>7. stored.steps \in Seq(Step) /\ VerifyKind(stored.steps) /\ NoneSpent(stored.steps)
  BY Facts DEF Plans
<1>8. Settled(stored.steps, id, "pending", 0, t)
  BY <1>5, <1>7, SettlePlan
<1>9. SamePlan(stored.steps, t)
  BY <1>8 DEF Settled
<1>10. VerifyKind(t) /\ NoneSpent(t)
  BY <1>5, <1>6, <1>7, SettleKeeps
<1> HIDE DEF t
<1> QED BY <1>3, <1>4, <1>9, <1>10, EditKeeps DEF TerminalTask

LEMMA SkipStep ==
  ASSUME IInv, NEW id \in StepIds \union {VerifyStep}, skipStep(id) PROVE Kept
<1> DEFINE t == transitionStep(stored.steps, id, "skipped")
<1>1. /\ \E k \in DOMAIN stored.steps : stored.steps[k].id = id
      /\ stored.steps[firstWith(stored.steps, id)].status \in {"pending", "failed", "blocked"}
      /\ stored' = [stored EXCEPT !.steps = t] /\ UNCHANGED runner
  BY DEF skipStep
<1>2. \E k \in DOMAIN stored.steps :
        stored.steps[k].id = id /\ stored.steps[k].status \in {"pending", "failed", "blocked"}
  BY <1>1, Facts, FirstWith
<1>3. "skipped" \in StepStatus
  BY DEF StepStatus, TerminalStep
<1>4. stored.steps \in Seq(Step) /\ VerifyKind(stored.steps) /\ NoneSpent(stored.steps)
  BY Facts DEF Plans
<1>5. SamePlan(stored.steps, t)
  BY <1>3, <1>4, TransitionPlan
<1>6. /\ VerifyKind(t) /\ NoneSpent(t)
      /\ NoFailed(stored.steps) => NoFailed(t)
  BY <1>3, <1>4, TransitionKeeps
<1>7. stored.status # "failed" => NoFailed(t)
  BY <1>6, Facts DEF Plans
<1>8. stored.status \notin TerminalTask => NoneLost(t) \/ OnlyVerify(t)
  <2> SUFFICES ASSUME stored.status \notin TerminalTask PROVE NoneLost(t) \/ OnlyVerify(t)
    OBVIOUS
  <2>1. NoFailed(stored.steps) /\ (NoneLost(stored.steps) \/ OnlyVerify(stored.steps))
    BY Facts DEF Plans, Cancelled, TerminalTask
  <2> QED BY <1>2, <1>4, <2>1, SkipKeeps
<1>9. stored.status = "completed" /\ runner.registered => FALSE
  BY Facts DEF Lifecycle
<1> HIDE DEF t
<1> QED BY <1>1, <1>5, <1>6, <1>7, <1>8, <1>9, EditKeeps

LEMMA Crash == ASSUME IInv, Restart PROVE Kept
<1> DEFINE t == setAll(stored.steps, {"running"}, "interrupted")
           s == [stored EXCEPT !.status = "paused", !.steps = t]
<1>1. /\ runner' = NoRunner
      /\ \/ stored.status \in ActiveTask /\ stored' = s
         \/ stored.status \notin ActiveTask /\ stored' = stored
  BY DEF Restart
<1>2. CASE stored.status \notin ActiveTask /\ stored' = stored
  <2>1. /\ stored \in Stored /\ stored.version <= MaxPlanRevisions
        /\ VerifyKind(stored.steps) /\ NoneSpent(stored.steps)
        /\ stored.status # "failed" => NoFailed(stored.steps)
        /\ stored.status \notin TerminalTask => NoneLost(stored.steps) \/ OnlyVerify(stored.steps)
    BY Facts DEF Plans, Cancelled
  <2>2. IInv'
    BY <1>1, <1>2, <2>1, Stops
  <2>3. stored'.status = "completed" => ~runner.registered
    BY <1>2, Facts DEF Lifecycle
  <2> QED BY <1>1, <2>2, <2>3, EmptyPlan DEF Kept, PauseKept, CompletedIsDone
<1>3. CASE stored.status \in ActiveTask /\ stored' = s
  <2>1. "interrupted" \in StepStatus
    BY DEF StepStatus
  <2>2. /\ stored.steps \in Seq(Step) /\ VerifyKind(stored.steps) /\ NoneSpent(stored.steps)
        /\ NoFailed(stored.steps) /\ (NoneLost(stored.steps) \/ OnlyVerify(stored.steps))
    BY <1>3, Facts DEF Plans, Cancelled, ActiveTask, TerminalTask
  <2>3. SamePlan(stored.steps, t)
    BY <2>1, <2>2, SetAllPlan
  <2>4. t \in Seq(Step)
    BY <2>3 DEF SamePlan
  <2>5. VerifyKind(t) /\ NoneSpent(t) /\ NoFailed(t)
    BY <2>1, <2>2, SetAllKeeps
  <2>6. NoneLost(t) \/ OnlyVerify(t)
    BY <2>2, InterruptKeeps
  <2> HIDE DEF t
  <2>7. s \in Stored /\ s.status = "paused" /\ s.steps = t /\ s.version = stored.version
    BY <2>4, Facts DEF Stored
  <2> HIDE DEF s
  <2>8. s.status \notin ActiveTask
    BY <2>7 DEF ActiveTask
  <2>9. IInv'
    BY <1>1, <1>3, <2>5, <2>6, <2>7, <2>8, Facts, Stops
  <2> QED BY <1>1, <1>3, <2>7, <2>9, StopKeeps
<1> QED BY <1>1, <1>2, <1>3

-----------------------------------------------------------------------------
(* Theorems.                                                               *)

LEMMA Starts == Init => IInv
<1> SUFFICES ASSUME Init PROVE IInv
  OBVIOUS
<1>1. /\ stored.status = "none" /\ stored.version = 0 /\ stored.steps = <<>> /\ runner = NoRunner
      /\ stored \in Stored
  BY EmptyPlan DEF Init, Stored
<1> QED BY <1>1, EmptyPlan, TaskAssumption
        DEF IInv, TypeOK, Plans, Lifecycle, ActiveTaskHasRunner, ActiveTask, Budgets,
            SameSteps, Cancelled

LEMMA Steps == ASSUME IInv, Next PROVE Kept
<1>1. CASE RunnerStep
  BY <1>1, PlanReady, StepCompleted, StepAsksForReplan, StepFailed, StepBlocked, StepAmbiguous,
     StepCancelled, ReplanSucceeds, ReplanFails, VerificationPasses, VerificationEnds
     DEF RunnerStep, runTaskStep
<1>2. CASE UserStep
  BY <1>2, CreateTask, Resume, PauseTask, CancelTask, RetryStep, SkipStep DEF UserStep
<1>3. CASE Restart
  BY <1>3, Crash
<1> QED BY <1>1, <1>2, <1>3 DEF Next

LEMMA Stutters ==
  ASSUME IInv, UNCHANGED vars PROVE Kept
<1>1. stored' = stored /\ runner' = runner
  BY DEF vars
<1>2. IInv'
  BY <1>1 DEF IInv, TypeOK, Plans, Lifecycle, ActiveTaskHasRunner, Budgets, SameSteps, Cancelled
<1>3. PauseKept
  BY <1>1 DEF PauseKept, Work
<1>4. CompletedIsDone
  BY <1>1, Facts DEF CompletedIsDone, Lifecycle
<1> QED BY <1>2, <1>3, <1>4 DEF Kept

\* The inductive invariant holds in every state of every run of the task runtime.
THEOREM Invariant == Spec => []IInv
<1>1. IInv /\ [Next]_vars => IInv'
  BY Steps, Stutters DEF Kept
<1> QED BY Starts, <1>1, PTL DEF Spec

\* The store and the runner have the types that TypeOK gives them.
THEOREM TypeCorrect == Spec => []TypeOK
<1>1. IInv => TypeOK
  BY DEF IInv
<1> QED BY <1>1, Invariant, PTL

\* A task that the store shows as planning, running or verifying has a runner, through
\* crashes, cancellations and resumes (startTaskRunner, reconcileInterruptedTasks).
THEOREM ActiveIsAlive == Spec => []ActiveTaskHasRunner
<1>1. IInv => ActiveTaskHasRunner
  BY DEF IInv, Lifecycle
<1> QED BY <1>1, Invariant, PTL

\* The budgets of TASK_LIMITS hold for what is stored, whatever planner, steps and user do:
\* for plan revisions and the length of the plan always, for attempts while ids are unique.
THEOREM BudgetsHold == Spec => []WithinBudget
<1>1. ASSUME IInv PROVE WithinBudget
  <2>1. /\ stored.version <= MaxPlanRevisions
        /\ runner.pc = "step" => Len(runner.steps) <= MaxTotalSteps
    BY <1>1, Facts DEF Budgets
  <2>2. ASSUME StepIdsUnique, NEW k \in DOMAIN stored.steps
        PROVE  stored.steps[k].attempts <= MaxStepAttempts
    <3>1. ~Spent(stored.steps[k])
      BY <1>1, <2>2, Facts DEF Plans, NoneSpent, StepIdsUnique
    <3>2. stored.steps[k].attempts \in Nat
      BY <1>1, Facts, StepFields
    <3> QED BY <3>1, <3>2, TaskAssumption DEF Spent
  <2> QED BY <2>1, <2>2 DEF WithinBudget
<1> QED BY <1>1, Invariant, PTL

\* After a pause request no step, no attempt and no verification is started (pauseTask).
THEOREM PauseIsKept == Spec => PauseStartsNothing
<1>1. ASSUME IInv, [Next]_vars
      PROVE  runner.pause /\ runner'.pc \in {"step", "verify"} => Work(runner') = Work(runner)
  BY <1>1, Steps, Stutters DEF Kept, PauseKept
<1>2. IInv /\ [Next]_vars =>
        [runner.pause /\ runner'.pc \in {"step", "verify"} => Work(runner') = Work(runner)]_vars
  BY <1>1
<1> QED BY <1>2, Invariant, PTL DEF Spec, PauseStartsNothing

\* A runner that was not cancelled ends the task as completed only with every step of its
\* plan done, as long as the ids are unique.
THEOREM CompletedMeansDone == Spec => CompletedTaskIsDone
<1>1. ASSUME IInv, [Next]_vars PROVE CompletedIsDone
  BY <1>1, Steps, Stutters DEF Kept
<1>2. IInv /\ [Next]_vars => [CompletedIsDone]_vars
  BY <1>1
<1> QED BY <1>2, Invariant, PTL DEF Spec, CompletedTaskIsDone, CompletedIsDone

-----------------------------------------------------------------------------
(***************************************************************************)
(* The multi-agent mode of a task, for any number of items, proposals,     *)
(* attempts and turns.                                                     *)
(*                                                                         *)
(* Every continuation of the orchestration settles the item that ran and   *)
(* goes on through dispatch or nextTurn from the values it computed.       *)
(* Between says what those values are: no item runs, no instance works and *)
(* what is assigned is what is left to do.  DispatchGood and NextTurnGood  *)
(* lead from there to the invariant, and each action only has to get there.*)
(***************************************************************************)

Bounded(wk) == \A w \in MA!Items : wk[w].attempts <= MaxAttempts

\* Where the continuation of a run stands before it goes on.
Between(wk, l, ws) == /\ wk \in [MA!Items -> MA!WorkItem] /\ Bounded(wk)
                      /\ l \in MA!Loop
                      /\ MA!WithStatus(wk, {"running"}) = {} /\ ws = {}
                      /\ l.todo = MA!WithStatus(wk, {"assigned"})

ProposalsOK == proposals \in [Proposals -> {"unused", "pending", "accepted", "resolved"}]

\* Statuses of a task that has been started and is not to be resumed.
Started == MA!TaskStatus \ {"ready", "paused"}

\* A task that can be started or resumed has left nothing assigned behind.
Rested ==
  task \notin Started => loop = MA!NoLoop /\ MA!WithStatus(work, {"assigned"}) = {}

MultiAgentIInv ==
  /\ MA!TypeOK
  /\ MA!AttemptsBounded
  /\ MA!RunningHasWorker
  /\ MA!AssignedIsScheduled
  /\ loop.pc \in {"coordinator", "applying"} => loop.turn < MaxTurns
  /\ loop.pc = "worker" => loop.current \in MA!Items /\ loop.current \notin loop.todo
  /\ Rested

-----------------------------------------------------------------------------
LEMMA Constants == /\ MaxItems \in Nat /\ MaxActions \in Nat
                   /\ MaxAttempts \in Nat \ {0} /\ MaxTurns \in Nat \ {0}
  BY MultiAgentAssumption

\* Statuses are written item by item and leave attempts and dependencies alone.
LEMMA SetStatus ==
  ASSUME NEW wk \in [MA!Items -> MA!WorkItem], NEW set,
         NEW status \in {"unused", "pending", "assigned", "running", "completed",
                         "failed", "blocked", "interrupted"}
  PROVE  /\ MA!setStatus(wk, set, status) \in [MA!Items -> MA!WorkItem]
         /\ \A w \in MA!Items :
              /\ MA!setStatus(wk, set, status)[w].attempts = wk[w].attempts
              /\ MA!setStatus(wk, set, status)[w].status
                   = IF w \in set THEN status ELSE wk[w].status
  BY DEF MA!setStatus, MA!WorkItem

LEMMA InitIInv == MA!Init => MultiAgentIInv
  BY Constants
  DEF MA!Init, MultiAgentIInv, Rested, Started, MA!TypeOK, MA!AttemptsBounded,
      MA!RunningHasWorker, MA!AssignedIsScheduled, MA!NoLoop, MA!Loop,
      MA!WorkItem, MA!TaskStatus, MA!WithStatus, MA!Items

\* A loop that is left has no run; an aborted one leaves nothing assigned.
LEMMA LeaveGood ==
  ASSUME NEW wk, NEW l, wk \in [MA!Items -> MA!WorkItem],
         Bounded(wk), l \in MA!Loop,
         MA!WithStatus(wk, {"running"}) = {}, MA!Leave(wk, l)
  PROVE  /\ work' \in [MA!Items -> MA!WorkItem]
         /\ Bounded(work') /\ MA!WithStatus(work', {"running"}) = {}
  <1>1. CASE l.aborted
    <2>1. work' = MA!setStatus(wk, MA!WithStatus(wk, {"assigned", "running"}), "interrupted")
      BY <1>1 DEF MA!Leave
    <2>2. /\ work' \in [MA!Items -> MA!WorkItem]
          /\ \A w \in MA!Items :
               /\ work'[w].attempts = wk[w].attempts
               /\ work'[w].status = IF w \in MA!WithStatus(wk, {"assigned", "running"})
                                      THEN "interrupted" ELSE wk[w].status
      BY <2>1, SetStatus
    <2> QED BY <2>2 DEF Bounded, MA!WithStatus
  <1>2. CASE ~l.aborted
    BY <1>2 DEF MA!Leave
  <1> QED BY <1>1, <1>2

LEMMA EndPausedGood ==
  ASSUME NEW wk, NEW l, wk \in [MA!Items -> MA!WorkItem],
         Bounded(wk), l \in MA!Loop,
         MA!WithStatus(wk, {"running"}) = {}, workers' = {}, ProposalsOK', MA!EndPaused(wk, l)
  PROVE  MultiAgentIInv'
  <1>1. /\ work' \in [MA!Items -> MA!WorkItem] /\ Bounded(work')
        /\ MA!WithStatus(work', {"running"}) = {}
    BY LeaveGood DEF MA!EndPaused
  <1>2. loop' = MA!NoLoop /\ task' = "failed"
    BY DEF MA!EndPaused
  <1> QED
    BY <1>1, <1>2, Constants
    DEF MultiAgentIInv, Rested, Started, MA!TaskStatus, MA!TypeOK, ProposalsOK,
        MA!AttemptsBounded, Bounded, MA!RunningHasWorker,
        MA!AssignedIsScheduled, MA!NoLoop, MA!Loop, MA!WithStatus

LEMMA HandOverGood ==
  ASSUME NEW wk, NEW l, NEW status \in Started, wk \in [MA!Items -> MA!WorkItem], Bounded(wk),
         l \in MA!Loop, MA!WithStatus(wk, {"running"}) = {}, workers' = {}, ProposalsOK',
         MA!HandOver(wk, l, status)
  PROVE  MultiAgentIInv'
  <1>1. /\ work' \in [MA!Items -> MA!WorkItem] /\ Bounded(work')
        /\ MA!WithStatus(work', {"running"}) = {}
    BY LeaveGood DEF MA!HandOver
  <1>2. loop' = [l EXCEPT !.pc = "handed", !.todo = {}] /\ task' = status
    BY DEF MA!HandOver
  <1> QED
    BY <1>1, <1>2
    DEF MultiAgentIInv, Rested, Started, MA!TaskStatus, MA!TypeOK, ProposalsOK,
        MA!AttemptsBounded, Bounded, MA!RunningHasWorker,
        MA!AssignedIsScheduled, MA!Loop, MA!WithStatus

\* The next turn starts with nothing assigned, unless the loop is left.
LEMMA NextTurnGood ==
  ASSUME NEW wk, NEW l, wk \in [MA!Items -> MA!WorkItem],
         Bounded(wk), l \in MA!Loop,
         MA!WithStatus(wk, {"running"}) = {}, workers' = {}, ProposalsOK', task \in Started,
         l.aborted \/ MA!WithStatus(wk, {"assigned"}) = {}, MA!nextTurn(wk, l)
  PROVE  MultiAgentIInv'
  <1>1. CASE MA!EndPaused(wk, l)
    BY <1>1, EndPausedGood
  <1>2. CASE /\ ~(l.aborted \/ l.turn >= MaxTurns)
             /\ loop' = [l EXCEPT !.pc = "coordinator", !.acts = 0, !.todo = {}, !.current = 0]
             /\ work' = wk
             /\ UNCHANGED task
    <2>1. loop' \in MA!Loop /\ loop'.pc = "coordinator" /\ loop'.turn < MaxTurns
      <3>1. l.turn \in 0..MaxTurns /\ l.turn < MaxTurns
        BY <1>2, Constants DEF MA!Loop
      <3>2. 0 \in 0..MaxActions /\ 0 \in 0..MaxItems
        BY Constants
      <3> QED BY <1>2, <3>1, <3>2 DEF MA!Loop
    <2> QED
      BY <1>2, <2>1
      DEF MultiAgentIInv, Rested, Started, MA!TaskStatus, MA!TypeOK, ProposalsOK,
          MA!AttemptsBounded, Bounded, MA!RunningHasWorker,
          MA!AssignedIsScheduled, MA!WithStatus
  <1> QED BY <1>1, <1>2 DEF MA!nextTurn

-----------------------------------------------------------------------------
(* dispatch *)

\* No item has an attempt left: all that were assigned fail.
LEMMA NoneAble ==
  ASSUME NEW wk, NEW l, NEW ws, Between(wk, l, ws), workers' = ws, ProposalsOK',
         task \in Started, MA!nextTurn(MA!setStatus(wk, l.todo, "failed"), l)
  PROVE  MultiAgentIInv'
  <1> DEFINE w2 == MA!setStatus(wk, l.todo, "failed")
  <1>1. /\ w2 \in [MA!Items -> MA!WorkItem]
        /\ \A w \in MA!Items :
             /\ w2[w].attempts = wk[w].attempts
             /\ w2[w].status = IF w \in l.todo THEN "failed" ELSE wk[w].status
    BY SetStatus DEF Between
  <1>2. Bounded(w2)
    BY <1>1 DEF Between, Bounded
  <1>3. MA!WithStatus(w2, {"running"}) = {} /\ MA!WithStatus(w2, {"assigned"}) = {}
    BY <1>1 DEF Between, MA!WithStatus
  <1> HIDE DEF w2
  <1> QED BY <1>1, <1>2, <1>3, NextTurnGood DEF Between, w2

\* Item w begins: it alone runs, and what is assigned beyond it is left to do.
LEMMA WorkerBegins ==
  ASSUME NEW wk, NEW l, NEW ws, Between(wk, l, ws), ProposalsOK', task \in Started,
         NEW w \in l.todo, wk[w].attempts < MaxAttempts,
         work' = MA!begin(MA!setStatus(wk, {v \in l.todo : v < w}, "failed"), w),
         workers' = ws \union {w},
         loop' = [l EXCEPT !.pc = "worker", !.current = w, !.todo = {v \in @ : v > w}],
         UNCHANGED task
  PROVE  MultiAgentIInv'
  <1> DEFINE w2 == MA!setStatus(wk, {v \in l.todo : v < w}, "failed")
  <1>1. l.todo \subseteq MA!Items /\ w \in MA!Items
    BY DEF Between, MA!Loop
  <1>2. /\ w2 \in [MA!Items -> MA!WorkItem]
        /\ \A v \in MA!Items :
             /\ w2[v].attempts = wk[v].attempts
             /\ w2[v].status = IF v \in {u \in l.todo : u < w} THEN "failed"
                                                               ELSE wk[v].status
    BY SetStatus DEF Between
  <1>3. work' = [w2 EXCEPT ![w].status = "running", ![w].attempts = @ + 1]
    BY DEF MA!begin
  <1> HIDE DEF w2
  <1>4. work' \in [MA!Items -> MA!WorkItem]
    BY <1>1, <1>2, <1>3 DEF MA!WorkItem
  <1>5. \A v \in MA!Items :
          /\ work'[v].attempts = IF v = w THEN wk[v].attempts + 1 ELSE wk[v].attempts
          /\ work'[v].status = IF v = w THEN "running"
                               ELSE IF v \in l.todo /\ v < w THEN "failed" ELSE wk[v].status
    BY <1>1, <1>2, <1>3 DEF MA!WorkItem
  <1>6. /\ loop' \in MA!Loop /\ loop'.pc = "worker" /\ loop'.current = w
        /\ loop'.todo = {v \in l.todo : v > w}
    BY <1>1, w \in 0..MaxItems, Constants DEF Between, MA!Loop, MA!Items
  <1>7. MA!WithStatus(work', {"running"}) = {w}
    BY <1>1, <1>5 DEF Between, MA!WithStatus
  <1>8. MA!WithStatus(work', {"assigned"}) = {v \in l.todo : v > w}
    <2>1. \A v \in MA!Items : work'[v].status = "assigned" <=> v \in l.todo /\ v > w
      <3>1. \A v \in MA!Items : v \in l.todo <=> wk[v].status = "assigned"
        BY DEF Between, MA!WithStatus
      <3> QED BY <1>1, <1>5, <3>1, Constants DEF MA!Items
    <2> QED BY <1>1, <2>1 DEF MA!WithStatus
  <1>9. \A v \in MA!Items : work'[v].attempts <= MaxAttempts
    <2>1. \A v \in MA!Items : wk[v].attempts \in Nat /\ wk[v].attempts <= MaxAttempts
      BY DEF Between, Bounded, MA!WorkItem
    <2> QED BY <1>5, <2>1, Constants
  <1>10. MA!TypeOK'
    BY <1>1, <1>4, <1>6 DEF MA!TypeOK, ProposalsOK, Between, Started
  <1> QED
    BY <1>1, <1>6, <1>7, <1>8, <1>9, <1>10, Constants
    DEF MultiAgentIInv, Rested, MA!AttemptsBounded, MA!RunningHasWorker, MA!AssignedIsScheduled,
        Between, MA!Items

LEMMA DispatchGood ==
  ASSUME NEW wk, NEW l, NEW ws, Between(wk, l, ws), ProposalsOK', task \in Started,
         MA!dispatch(wk, l, ws)
  PROVE  MultiAgentIInv'
  <1>1. CASE l.aborted /\ workers' = ws /\ MA!nextTurn(wk, l)
    BY <1>1, NextTurnGood DEF Between
  <1>2. CASE workers' = ws /\ MA!nextTurn(MA!setStatus(wk, l.todo, "failed"), l)
    BY <1>2, NoneAble
  <1>3. CASE \E w \in l.todo :
               /\ wk[w].attempts < MaxAttempts
               /\ work' = MA!begin(MA!setStatus(wk, {v \in l.todo : v < w}, "failed"), w)
               /\ workers' = ws \union {w}
               /\ loop' = [l EXCEPT !.pc = "worker", !.current = w, !.todo = {v \in @ : v > w}]
               /\ UNCHANGED task
    BY <1>3, WorkerBegins
  <1> QED BY <1>1, <1>2, <1>3 DEF MA!dispatch

-----------------------------------------------------------------------------
(* The runner, its user and the process *)

LEMMA StartGood == ASSUME MultiAgentIInv, MA!start PROVE MultiAgentIInv'
  <1>1. loop = MA!NoLoop /\ MA!WithStatus(work, {"assigned"}) = {}
    BY DEF MA!start, MultiAgentIInv, Rested, Started
  <1>2. loop' = [MA!NoLoop EXCEPT !.pc = "coordinator", !.registered = TRUE] /\ task' = "running"
    BY DEF MA!start
  <1>3. loop' \in MA!Loop /\ loop'.pc = "coordinator" /\ loop'.turn = 0
    <2>1. MA!NoLoop \in MA!Loop /\ MA!NoLoop.turn = 0
      BY Constants DEF MA!NoLoop, MA!Loop
    <2> QED BY <1>2, <2>1 DEF MA!Loop
  <1>4. MA!WithStatus(work, {"running"}) = {} /\ workers = {}
    BY <1>1 DEF MultiAgentIInv, MA!RunningHasWorker, MA!NoLoop
  <1>5. UNCHANGED <<work, proposals, workers>>
    BY DEF MA!start
  <1> QED
    BY <1>1, <1>2, <1>3, <1>4, <1>5, Constants
    DEF MultiAgentIInv, MA!TypeOK, MA!TaskStatus, Started, Rested, MA!AttemptsBounded,
        MA!RunningHasWorker,
        MA!AssignedIsScheduled, MA!WithStatus

\* A flag of the loop is set: nothing the invariant speaks of changes.
LEMMA FlagsGood == ASSUME MultiAgentIInv, MA!pauseTask \/ MA!pauseWatcher PROVE MultiAgentIInv'
  <1>1. UNCHANGED <<task, work, proposals, workers>>
    BY DEF MA!pauseTask, MA!pauseWatcher
  <1>2. loop \in MA!Loop /\ loop # MA!NoLoop
    BY DEF MultiAgentIInv, MA!TypeOK, MA!pauseTask, MA!pauseWatcher, MA!NoLoop
  <1>3. /\ loop' \in MA!Loop
        /\ loop'.pc = loop.pc /\ loop'.todo = loop.todo
        /\ loop'.current = loop.current /\ loop'.turn = loop.turn
    BY <1>2 DEF MA!pauseTask, MA!pauseWatcher, MA!Loop
  <1> QED
    BY <1>1, <1>2, <1>3
    DEF MultiAgentIInv, MA!TypeOK, Rested, MA!AttemptsBounded, MA!RunningHasWorker,
        MA!AssignedIsScheduled, MA!WithStatus

LEMMA CancelGood == ASSUME MultiAgentIInv, MA!cancelTask PROVE MultiAgentIInv'
  <1>1. UNCHANGED <<work, proposals, workers>> /\ task' = "cancelled"
    BY DEF MA!cancelTask
  <1>2. /\ loop' \in MA!Loop
        /\ loop'.pc = loop.pc /\ loop'.todo = loop.todo
        /\ loop'.current = loop.current /\ loop'.turn = loop.turn
    BY DEF MA!cancelTask, MultiAgentIInv, MA!TypeOK, MA!Loop
  <1> QED
    BY <1>1, <1>2
    DEF MultiAgentIInv, MA!TypeOK, MA!TaskStatus, Started, Rested, MA!AttemptsBounded,
        MA!RunningHasWorker,
        MA!AssignedIsScheduled, MA!WithStatus

LEMMA RestartGood == ASSUME MultiAgentIInv, MA!Restart PROVE MultiAgentIInv'
  <1> DEFINE busy == MA!WithStatus(work, {"assigned", "running"})
  <1>1. /\ work' \in [MA!Items -> MA!WorkItem]
        /\ \A w \in MA!Items :
             /\ work'[w].attempts = work[w].attempts
             /\ work'[w].status = IF w \in busy THEN "interrupted" ELSE work[w].status
    BY SetStatus DEF MA!Restart, MultiAgentIInv, MA!TypeOK
  <1>2. MA!WithStatus(work', {"running"}) = {} /\ MA!WithStatus(work', {"assigned"}) = {}
    BY <1>1 DEF MA!WithStatus
  <1>3. MA!AttemptsBounded'
    BY <1>1 DEF MultiAgentIInv, MA!AttemptsBounded
  <1>4. MA!NoLoop \in MA!Loop /\ MA!NoLoop.pc = "none"
    BY Constants DEF MA!NoLoop, MA!Loop
  <1>5. MA!TypeOK'
    BY <1>1, <1>4 DEF MA!Restart, MultiAgentIInv, MA!TypeOK, MA!TaskStatus
  <1> QED
    BY <1>2, <1>3, <1>4, <1>5
    DEF MA!Restart, MultiAgentIInv, Rested, MA!RunningHasWorker, MA!AssignedIsScheduled,
        MA!WithStatus

-----------------------------------------------------------------------------
(* The coordinator *)

\* While the coordinator has the word nothing runs.
LEMMA CoordinatorQuiet ==
  ASSUME MultiAgentIInv, loop.pc \in {"coordinator", "applying"}
  PROVE  /\ work \in [MA!Items -> MA!WorkItem] /\ Bounded(work) /\ loop \in MA!Loop
         /\ MA!WithStatus(work, {"running"}) = {} /\ workers = {}
         /\ task \in Started /\ loop.turn + 1 \in 0..MaxTurns
  <1>1. loop.turn \in 0..MaxTurns /\ loop.turn < MaxTurns
    BY DEF MultiAgentIInv, MA!TypeOK, MA!Loop
  <1>2. task \in Started
    BY DEF MultiAgentIInv, Rested, MA!NoLoop
  <1> QED
    BY <1>1, <1>2, Constants DEF MultiAgentIInv, MA!TypeOK, MA!AttemptsBounded, Bounded,
                                 MA!RunningHasWorker

LEMMA CoordinatorRunGood ==
  ASSUME MultiAgentIInv, MA!coordinatorFails \/ MA!coordinatorUnparsable \/ MA!coordinatorPlans
  PROVE  MultiAgentIInv'
  <1>0. loop.pc = "coordinator" /\ MA!WithStatus(work, {"assigned"}) = {} /\ ProposalsOK
    BY DEF MA!coordinatorFails, MA!coordinatorUnparsable, MA!coordinatorPlans, MultiAgentIInv,
           MA!AssignedIsScheduled,
           MA!TypeOK, ProposalsOK
  <1>1. CASE MA!coordinatorFails
    BY <1>0, <1>1, CoordinatorQuiet, EndPausedGood DEF MA!coordinatorFails, ProposalsOK
  <1>2. CASE MA!coordinatorUnparsable
    <2> DEFINE l == [loop EXCEPT !.turn = @ + 1]
    <2>1. l \in MA!Loop
      BY <1>0, CoordinatorQuiet DEF MA!Loop
    <2>2. MA!nextTurn(work, l) /\ workers' = {} /\ ProposalsOK'
      BY <1>0, <1>2, CoordinatorQuiet DEF MA!coordinatorUnparsable, ProposalsOK
    <2> HIDE DEF l
    <2> QED BY <1>0, <2>1, <2>2, CoordinatorQuiet, NextTurnGood
  <1>3. CASE MA!coordinatorPlans
    <2>1. UNCHANGED <<task, work, proposals, workers>>
      BY <1>3 DEF MA!coordinatorPlans
    <2>2. loop' \in MA!Loop /\ loop'.pc = "applying" /\ loop'.turn = loop.turn
      BY <1>3 DEF MA!coordinatorPlans, MultiAgentIInv, MA!TypeOK, MA!Loop
    <2> QED
      BY <1>0, <2>1, <2>2, CoordinatorQuiet
      DEF MultiAgentIInv, MA!TypeOK, Rested, MA!AttemptsBounded, MA!RunningHasWorker,
          MA!AssignedIsScheduled, MA!WithStatus
  <1> QED BY <1>1, <1>2, <1>3

\* One action of a plan: it starts nothing and leaves attempts alone or new.
LEMMA ApplyGood ==
  ASSUME MultiAgentIInv, MA!Apply, ProposalsOK', work' \in [MA!Items -> MA!WorkItem],
         \A w \in MA!Items :
           /\ work'[w].attempts \in {0, work[w].attempts}
           /\ work'[w].status # "running" \/ work'[w].status = work[w].status
  PROVE  MultiAgentIInv'
  <1>1. loop.pc = "applying" /\ UNCHANGED <<task, workers>>
    BY DEF MA!Apply
  <1>2. loop' \in MA!Loop /\ loop'.pc = "applying" /\ loop'.turn = loop.turn
    <2>1. loop \in MA!Loop /\ loop.acts + 1 \in 0..MaxActions
      BY Constants DEF MA!Apply, MultiAgentIInv, MA!TypeOK, MA!Loop
    <2> QED BY <2>1 DEF MA!Apply, MA!Loop
  <1>3. MA!WithStatus(work', {"running"}) = {}
    BY <1>1, CoordinatorQuiet DEF MA!WithStatus
  <1>4. MA!AttemptsBounded'
    <2>1. 0 <= MaxAttempts /\ \A w \in MA!Items : work[w].attempts <= MaxAttempts
      BY Constants DEF MultiAgentIInv, MA!AttemptsBounded
    <2>2. \A w \in MA!Items : work'[w].attempts = 0 \/ work'[w].attempts = work[w].attempts
      OBVIOUS
    <2> QED BY <2>1, <2>2 DEF MA!AttemptsBounded
  <1> QED
    BY <1>1, <1>2, <1>3, <1>4, CoordinatorQuiet
    DEF MultiAgentIInv, MA!TypeOK, ProposalsOK, Rested, MA!RunningHasWorker,
        MA!AssignedIsScheduled, MA!WithStatus

\* An action of the plan that adds an item: it has no attempt and does not run.
LEMMA NewItem ==
  ASSUME MultiAgentIInv, NEW w \in MA!Items, NEW deps \in SUBSET MA!Items,
         work' = [work EXCEPT ![w] = MA!newWorkItem(deps)]
  PROVE  /\ work' \in [MA!Items -> MA!WorkItem]
         /\ \A v \in MA!Items :
              /\ work'[v].attempts \in {0, work[v].attempts}
              /\ work'[v].status # "running" \/ work'[v].status = work[v].status
  <1>1. MA!newWorkItem(deps) \in MA!WorkItem
    BY DEF MA!newWorkItem, MA!WorkItem
  <1> QED BY <1>1 DEF MA!newWorkItem, MultiAgentIInv, MA!TypeOK

LEMMA PlanGood ==
  ASSUME MultiAgentIInv,
         \/ \E deps \in SUBSET MA!Created : MA!createWorkItem(deps)
         \/ \E w \in MA!Created : MA!assignWorkItem(w)
         \/ \E p \in Proposals : MA!acceptSubtask(p) \/ MA!resolveSubtask(p)
         \/ \E w \in MA!Created : MA!requestReview(w)
  PROVE  MultiAgentIInv'
  <1> USE DEF ProposalsOK
  <1>0. /\ work \in [MA!Items -> MA!WorkItem] /\ ProposalsOK
        /\ MA!Created \subseteq MA!Items /\ MA!Fresh \subseteq MA!Items
    BY DEF MultiAgentIInv, MA!TypeOK, MA!Created, MA!Fresh
  <1>1. CASE \E deps \in SUBSET MA!Created : MA!createWorkItem(deps)
    <2>1. PICK deps \in SUBSET MA!Items, w \in MA!Items :
            MA!Apply /\ work' = [work EXCEPT ![w] = MA!newWorkItem(deps)] /\ UNCHANGED proposals
      BY <1>0, <1>1 DEF MA!createWorkItem
    <2> QED BY <1>0, <2>1, NewItem, ApplyGood
  <1>2. CASE \E w \in MA!Created : MA!assignWorkItem(w)
    <2>1. PICK w \in MA!Items :
            MA!Apply /\ work' = MA!setStatus(work, {w}, "assigned") /\ UNCHANGED proposals
      BY <1>0, <1>2 DEF MA!assignWorkItem
    <2>2. /\ work' \in [MA!Items -> MA!WorkItem]
          /\ \A v \in MA!Items :
               /\ work'[v].attempts = work[v].attempts
               /\ work'[v].status = IF v \in {w} THEN "assigned" ELSE work[v].status
      BY <1>0, <2>1, SetStatus
    <2> QED BY <1>0, <2>1, <2>2, ApplyGood
  <1>3. CASE \E p \in Proposals : MA!acceptSubtask(p) \/ MA!resolveSubtask(p)
    <2>1. MA!Apply /\ ProposalsOK'
      BY <1>0, <1>3 DEF MA!acceptSubtask, MA!resolveSubtask
    <2>2. CASE UNCHANGED work
      BY <1>0, <2>1, <2>2, ApplyGood
    <2>3. CASE \E w \in MA!Fresh : work' = [work EXCEPT ![w] = MA!newWorkItem({})]
      <3>1. PICK w \in MA!Items, deps \in SUBSET MA!Items :
              work' = [work EXCEPT ![w] = MA!newWorkItem(deps)]
        BY <1>0, <2>3
      <3> QED BY <1>0, <2>1, <3>1, NewItem, ApplyGood
    <2> QED BY <1>3, <2>2, <2>3 DEF MA!acceptSubtask, MA!resolveSubtask
  <1>4. CASE \E w \in MA!Created : MA!requestReview(w)
    <2>1. MA!Apply /\ UNCHANGED proposals
      BY <1>4 DEF MA!requestReview
    <2>2. CASE UNCHANGED work
      BY <1>0, <2>1, <2>2, ApplyGood
    <2>3. CASE \E r, w \in MA!Items : work' = [work EXCEPT ![r] = MA!newWorkItem({w})]
      <3>1. PICK r \in MA!Items, deps \in SUBSET MA!Items :
              work' = [work EXCEPT ![r] = MA!newWorkItem(deps)]
        BY <2>3
      <3> QED BY <1>0, <2>1, <3>1, NewItem, ApplyGood
    <2> QED BY <1>0, <1>4, <2>2, <2>3 DEF MA!requestReview
  <1> QED BY <1>1, <1>2, <1>3, <1>4

LEMMA EndTurnGood == ASSUME MultiAgentIInv, MA!endTurn PROVE MultiAgentIInv'
  <1> DEFINE l == [loop EXCEPT !.turn = @ + 1, !.todo = MA!WithStatus(work, {"assigned"})]
  <1>1. loop.pc = "applying" /\ UNCHANGED proposals /\ ProposalsOK'
    BY DEF MA!endTurn, MultiAgentIInv, MA!TypeOK, ProposalsOK
  <1>2. l \in MA!Loop /\ l.todo = MA!WithStatus(work, {"assigned"})
    <2>1. MA!WithStatus(work, {"assigned"}) \in SUBSET MA!Items
      BY DEF MA!WithStatus
    <2> QED BY <1>1, <2>1, CoordinatorQuiet DEF MA!Loop
  <1>3. \/ MA!HandOver(work, l, "verifying") /\ UNCHANGED workers
        \/ MA!HandOver(work, l, task) /\ UNCHANGED workers
        \/ MA!EndPaused(work, l) /\ UNCHANGED workers
        \/ MA!dispatch(work, l, workers)
    BY DEF MA!endTurn
  <1> HIDE DEF l
  <1>4. CASE MA!HandOver(work, l, "verifying") /\ UNCHANGED workers
    BY <1>1, <1>2, <1>4, CoordinatorQuiet, HandOverGood DEF Started, MA!TaskStatus
  <1>5. CASE MA!HandOver(work, l, task) /\ UNCHANGED workers
    BY <1>1, <1>2, <1>5, CoordinatorQuiet, HandOverGood
  <1>6. CASE MA!EndPaused(work, l) /\ UNCHANGED workers
    BY <1>1, <1>2, <1>6, CoordinatorQuiet, EndPausedGood
  <1>7. CASE MA!dispatch(work, l, workers)
    BY <1>1, <1>2, <1>7, CoordinatorQuiet, DispatchGood DEF Between
  <1> QED BY <1>3, <1>4, <1>5, <1>6, <1>7

-----------------------------------------------------------------------------
(* The workers *)

\* When the live run has ended, its item is settled and nothing else runs.
LEMMA WorkerGood ==
  ASSUME MultiAgentIInv, loop.pc = "worker", ProposalsOK',
         NEW status \in {"pending", "completed", "failed", "blocked", "interrupted"},
         MA!dispatch(MA!setStatus(work, {loop.current}, status), loop, workers \ {loop.current})
  PROVE  MultiAgentIInv'
  <1> DEFINE w2 == MA!setStatus(work, {loop.current}, status)
  <1>1. /\ w2 \in [MA!Items -> MA!WorkItem]
        /\ \A v \in MA!Items :
             /\ w2[v].attempts = work[v].attempts
             /\ w2[v].status = IF v \in {loop.current} THEN status ELSE work[v].status
    BY SetStatus DEF MultiAgentIInv, MA!TypeOK
  <1> HIDE DEF w2
  <1>2. /\ MA!WithStatus(work, {"running"}) = {loop.current} /\ workers = {loop.current}
        /\ MA!WithStatus(work, {"assigned"}) = loop.todo /\ loop.current \notin loop.todo
    BY DEF MultiAgentIInv, MA!RunningHasWorker, MA!AssignedIsScheduled
  <1>3. MA!WithStatus(w2, {"running"}) = {}
    BY <1>1, <1>2 DEF MA!WithStatus
  <1>4. MA!WithStatus(w2, {"assigned"}) = loop.todo
    BY <1>1, <1>2 DEF MA!WithStatus
  <1>5. Bounded(w2)
    BY <1>1 DEF MultiAgentIInv, MA!AttemptsBounded, Bounded
  <1>6. task \in Started /\ loop \in MA!Loop
    BY DEF MultiAgentIInv, MA!TypeOK, Rested, MA!NoLoop
  <1>7. Between(w2, loop, workers \ {loop.current})
    BY <1>1, <1>2, <1>3, <1>4, <1>5, <1>6 DEF Between
  <1> QED BY <1>6, <1>7, DispatchGood DEF w2

LEMMA WorkerRunGood ==
  ASSUME MultiAgentIInv,
         \/ \E outcome \in MA!Outcomes, found \in SUBSET Proposals :
              MA!workerReturns(outcome, found)
         \/ MA!workerInterrupted
  PROVE  MultiAgentIInv'
  <1>1. ASSUME NEW outcome \in MA!Outcomes, NEW found \in SUBSET Proposals,
               MA!workerReturns(outcome, found)
        PROVE  MultiAgentIInv'
    <2>1. ProposalsOK'
      BY <1>1 DEF MA!workerReturns, MultiAgentIInv, MA!TypeOK, ProposalsOK
    <2> QED BY <1>1, <2>1, WorkerGood DEF MA!workerReturns, MA!Outcomes, MA!WorkItemResult,
                                          MA!finalStatus
  <1>2. CASE MA!workerInterrupted
    <2>1. ProposalsOK'
      BY <1>2 DEF MA!workerInterrupted, MultiAgentIInv, MA!TypeOK, ProposalsOK
    <2> QED BY <1>2, <2>1, WorkerGood DEF MA!workerInterrupted
  <1> QED BY <1>1, <1>2

-----------------------------------------------------------------------------
(* The theorems *)

LEMMA NextIInv == MultiAgentIInv /\ [MA!Next]_(MA!vars) => MultiAgentIInv'
  <1> SUFFICES ASSUME MultiAgentIInv, [MA!Next]_(MA!vars) PROVE MultiAgentIInv'
    OBVIOUS
  <1>1. CASE MA!start
    BY <1>1, StartGood
  <1>2. CASE MA!pauseTask \/ MA!pauseWatcher
    BY <1>2, FlagsGood
  <1>3. CASE MA!cancelTask
    BY <1>3, CancelGood
  <1>4. CASE MA!Orchestrate
    <2>1. CASE MA!coordinatorFails \/ MA!coordinatorUnparsable \/ MA!coordinatorPlans
      BY <2>1, CoordinatorRunGood
    <2>2. CASE MA!applyCoordinatorActions
      <3>1. CASE MA!endTurn
        BY <3>1, EndTurnGood
      <3>2. CASE ~MA!endTurn
        BY <2>2, <3>2, PlanGood DEF MA!applyCoordinatorActions
      <3> QED BY <3>1, <3>2
    <2>3. CASE \/ \E outcome \in MA!Outcomes, found \in SUBSET Proposals :
                    MA!workerReturns(outcome, found)
               \/ MA!workerInterrupted
      BY <2>3, WorkerRunGood
    <2> QED BY <1>4, <2>1, <2>2, <2>3 DEF MA!Orchestrate, MA!runWorkItemStep
  <1>5. CASE MA!Restart
    BY <1>5, RestartGood
  <1>6. CASE UNCHANGED MA!vars
    BY <1>6
    DEF MA!vars, MultiAgentIInv, MA!TypeOK, Rested, MA!AttemptsBounded, MA!RunningHasWorker,
        MA!AssignedIsScheduled,
        MA!WithStatus
  <1> QED BY <1>1, <1>2, <1>3, <1>4, <1>5, <1>6 DEF MA!Next

\* The invariant holds in every reachable state of the orchestration.
THEOREM MultiAgentInvariant == MA!Spec => []MultiAgentIInv
  BY InitIInv, NextIInv, PTL DEF MA!Spec

\* Every stored status, counter and the loop in memory keep their types.
THEOREM MultiAgentTypeCorrect == MA!Spec => []MA!TypeOK
  <1>1. MultiAgentIInv => MA!TypeOK
    BY DEF MultiAgentIInv
  <1> QED BY <1>1, MultiAgentInvariant, PTL

\* MultiAgentState states the promises on the store of a task, MultiAgent on its own copy of
\* the definitions: they say the same.
LEMMA SamePromises ==
  /\ MA!AttemptsBounded => AttemptsBounded
  /\ MA!RunningHasWorker => RunningHasWorker
  /\ MA!AssignedIsScheduled => AssignedIsScheduled
  BY DEF MA!AttemptsBounded, MA!RunningHasWorker,
         MA!AssignedIsScheduled, MA!WithStatus, MA!Items,
         AttemptsBounded, RunningHasWorker, AssignedIsScheduled, WithStatus, Items

\* MA_MAX_ATTEMPTS bounds the runs of every work item, whatever the coordinator
\* assigns again and however often the process starts again.
THEOREM Attempts == MA!Spec => []AttemptsBounded
  <1>1. MultiAgentIInv => AttemptsBounded
    BY SamePromises DEF MultiAgentIInv
  <1> QED BY <1>1, MultiAgentInvariant, PTL

\* Items and instances are stored as busy exactly while a worker run is live.
THEOREM Running == MA!Spec => []RunningHasWorker
  <1>1. MultiAgentIInv => RunningHasWorker
    BY SamePromises DEF MultiAgentIInv
  <1> QED BY <1>1, MultiAgentInvariant, PTL

\* The coordinator is only asked when no assigned item is left over, and while
\* a worker runs the rest of the assigned items are those still to be run.
THEOREM Scheduled == MA!Spec => []AssignedIsScheduled
  <1>1. MultiAgentIInv => AssignedIsScheduled
    BY SamePromises DEF MultiAgentIInv
  <1> QED BY <1>1, MultiAgentInvariant, PTL

-----------------------------------------------------------------------------
(* The pause *)

\* From an aborted loop every way on is out, and no way out begins an item.
LEMMA AbortedLeaves ==
  ASSUME NEW wk \in [MA!Items -> MA!WorkItem], NEW l, l.aborted,
         \/ MA!Leave(wk, l)
         \/ MA!nextTurn(wk, l)
         \/ \E ws : MA!dispatch(wk, l, ws)
  PROVE  \A w \in MA!Items : work'[w].attempts = wk[w].attempts
  <1>1. MA!Leave(wk, l)
    BY DEF MA!dispatch, MA!nextTurn, MA!EndPaused
  <1> QED BY <1>1, SetStatus DEF MA!Leave

LEMMA PauseStep ==
  MultiAgentIInv /\ [MA!Next]_(MA!vars) =>
    (loop.aborted => \A w \in MA!Items : ~MA!Begun(w))
  <1> SUFFICES ASSUME MultiAgentIInv, [MA!Next]_(MA!vars), loop.aborted, NEW w \in MA!Items
               PROVE  ~MA!Begun(w)
    OBVIOUS
  <1>0. work \in [MA!Items -> MA!WorkItem] /\ work[w].attempts \in Nat
    BY DEF MultiAgentIInv, MA!TypeOK, MA!WorkItem
  <1> SUFFICES work'[w].attempts \in {0, work[w].attempts}
    BY <1>0 DEF MA!Begun
  <1>1. CASE UNCHANGED work
    BY <1>1
  <1>2. CASE MA!coordinatorFails
    BY <1>0, <1>2, AbortedLeaves DEF MA!coordinatorFails, MA!EndPaused
  <1>3. CASE MA!coordinatorUnparsable
    <2> DEFINE l == [loop EXCEPT !.turn = @ + 1]
    <2>1. l.aborted
      BY DEF MultiAgentIInv, MA!TypeOK, MA!Loop
    <2>2. MA!nextTurn(work, l)
      BY <1>3 DEF MA!coordinatorUnparsable
    <2> HIDE DEF l
    <2> QED BY <1>0, <2>1, <2>2, AbortedLeaves
  <1>4. CASE \E deps \in SUBSET MA!Items, v \in MA!Items :
               work' = [work EXCEPT ![v] = MA!newWorkItem(deps)]
    BY <1>0, <1>4 DEF MA!newWorkItem
  <1>5. CASE \E v \in MA!Created : MA!assignWorkItem(v)
    BY <1>0, <1>5, SetStatus DEF MA!assignWorkItem
  <1>6. CASE MA!endTurn
    <2> DEFINE l == [loop EXCEPT !.turn = @ + 1, !.todo = MA!WithStatus(work, {"assigned"})]
    <2>1. l.aborted
      BY DEF MultiAgentIInv, MA!TypeOK, MA!Loop
    <2>2. MA!Leave(work, l) \/ MA!dispatch(work, l, workers)
      BY <1>6 DEF MA!endTurn, MA!HandOver, MA!EndPaused
    <2> HIDE DEF l
    <2> QED BY <1>0, <2>1, <2>2, AbortedLeaves
  <1>7. ASSUME NEW status \in {"pending", "completed", "failed", "blocked", "interrupted"},
               MA!dispatch(MA!setStatus(work, {loop.current}, status), loop,
               workers \ {loop.current})
        PROVE  work'[w].attempts = work[w].attempts
    <2> DEFINE w2 == MA!setStatus(work, {loop.current}, status)
    <2>1. w2 \in [MA!Items -> MA!WorkItem] /\ w2[w].attempts = work[w].attempts
      BY <1>0, SetStatus
    <2> HIDE DEF w2
    <2> QED BY <1>7, <2>1, AbortedLeaves DEF w2
  <1>8. CASE MA!Restart
    BY <1>0, <1>8, SetStatus DEF MA!Restart
  <1>9. CASE MA!Orchestrate
    <2>1. CASE MA!coordinatorPlans
      BY <1>1, <2>1 DEF MA!coordinatorPlans
    <2>2. CASE MA!applyCoordinatorActions
      <3>1. MA!Created \subseteq MA!Items /\ MA!Fresh \subseteq MA!Items
        BY DEF MA!Created, MA!Fresh
      <3> QED
        BY <1>1, <1>4, <1>5, <1>6, <2>2, <3>1
        DEF MA!applyCoordinatorActions, MA!createWorkItem, MA!acceptSubtask, MA!resolveSubtask,
            MA!requestReview
    <2>3. CASE MA!workerInterrupted
      BY <1>7, <2>3 DEF MA!workerInterrupted
    <2>4. CASE \E outcome \in MA!Outcomes, found \in SUBSET Proposals :
                 MA!workerReturns(outcome, found)
      BY <1>7, <2>4 DEF MA!workerReturns, MA!Outcomes, MA!WorkItemResult, MA!finalStatus
    <2> QED BY <1>2, <1>3, <1>9, <2>1, <2>2, <2>3, <2>4 DEF MA!Orchestrate, MA!runWorkItemStep
  <1> QED
    BY <1>1, <1>8, <1>9 DEF MA!Next, MA!start, MA!pauseTask, MA!pauseWatcher, MA!cancelTask, MA!vars

\* Once the watcher has seen a pause request, no worker begins.
THEOREM Pause == MA!Spec => PauseStopsWorkers
  <1>1. MultiAgentIInv /\ [MA!Next]_(MA!vars)
          => [loop.aborted => \A w \in Items : ~Begun(w)]_work
    BY PauseStep DEF MA!Begun, Begun, MA!Items, Items, MA!vars
  <1> QED BY <1>1, MultiAgentInvariant, PTL DEF MA!Spec, PauseStopsWorkers

\* For any number of items, proposals, attempts and turns: attempts stay within their
\* limit, what is stored as busy has its worker, and no assigned item is forgotten.
THEOREM Accounted == MA!Spec => []WorkIsAccounted
  BY Attempts, Running, Scheduled, PTL DEF WorkIsAccounted

=============================================================================
