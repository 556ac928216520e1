------------------------ MODULE CommandManagerProofs ------------------------
(***************************************************************************)
(* Proofs about CommandManager, for any number of commands, script bodies  *)
(* and any limits.                                                         *)
(*                                                                         *)
(* What makes the safety properties inductive is CommandOK: a command that *)
(* is not decided has left no trace, and one with a process is running or  *)
(* cancelled, so that the end of a process never changes an answer that    *)
(* was given.  The two parts that look at all commands, the limit on       *)
(* processes and the list a restart reconciles, rest on the cardinality of *)
(* subsets.                                                                *)
(***************************************************************************)
EXTENDS CommandManager, FiniteSetTheorems, TLAPS

Undecided == {"unused", "awaiting_approval", "blocked"}

CommandOK(c) ==
  /\ starts[c] <= 1
  /\ command[c].state \in Undecided =>
       starts[c] = 0 /\ process[c] = "none" /\ c \notin spawned /\ told[c] = "none"
  /\ starts[c] > 0 => command[c].auth \in {"approved_once", "trusted"}
  /\ process[c] # "none" => command[c].state \in {"running", "cancelled"}
  /\ told[c] \in Terminal \ {"cancelled"} => command[c].state = told[c]

IInv == /\ TypeOK
        /\ \A c \in Commands : CommandOK(c)
        /\ RunningHasProcess
        /\ WithinConcurrency

-----------------------------------------------------------------------------
(* Sets of commands *)

LEMMA CommandsFinite ==
  ASSUME NEW S \in SUBSET Commands
  PROVE  IsFiniteSet(S) /\ Cardinality(S) \in Nat
  <1>1. IsFiniteSet(Commands)
    BY CommandAssumption, FS_Interval DEF Commands
  <1>2. IsFiniteSet(S)
    BY <1>1, FS_Subset
  <1> QED BY <1>2, FS_CardinalityType

LEMMA Smaller ==
  ASSUME NEW S \in SUBSET Commands, NEW T \in SUBSET S
  PROVE  Cardinality(T) <= Cardinality(S)
  BY CommandsFinite, FS_Subset

\* Fewer processes stay within the limit.
LEMMA FewerLive ==
  ASSUME WithinConcurrency, Live' \subseteq Live
  PROVE  WithinConcurrency'
  <1>1. Live \in SUBSET Commands /\ Live' \in SUBSET Live
    BY DEF Live, Commands
  <1>2. Live' \in SUBSET Commands
    BY <1>1
  <1>3. Cardinality(Live') <= Cardinality(Live)
    BY <1>1, Smaller
  <1>4. Cardinality(Live') \in Nat /\ Cardinality(Live) \in Nat
    BY <1>1, <1>2, CommandsFinite
  <1> QED BY <1>3, <1>4, CommandAssumption DEF WithinConcurrency

\* A command that is listed was listed before, if it was there.
LEMMA ListShrinks ==
  ASSUME Created \subseteq Created', NEW c \in Listed', c \in Created
  PROVE  c \in Listed
  <1> DEFINE Later == {d \in Created : d > c}
  <1>1. Later' \in SUBSET Commands /\ Later \in SUBSET Later' /\ Later \in SUBSET Commands
    BY DEF Created, Commands
  <1>2. Cardinality(Later) <= Cardinality(Later')
    BY <1>1, Smaller
  <1>3. Cardinality(Later) \in Nat /\ Cardinality(Later') \in Nat
    BY <1>1, CommandsFinite
  <1>4. Cardinality(Later') < ListLimit
    BY DEF Listed
  <1>5. Cardinality(Later) < ListLimit
    BY <1>2, <1>3, <1>4, CommandAssumption
  <1> QED BY <1>5 DEF Listed

-----------------------------------------------------------------------------
(* The initial states and the actions *)

LEMMA InitIInv == Init => IInv
  <1> SUFFICES ASSUME Init PROVE IInv
    OBVIOUS
  <1>1. TypeOK
    BY DEF Init, TypeOK, Command, Specs, Process, Rule
  <1>2. \A c \in Commands : CommandOK(c)
    BY DEF Init, CommandOK, Undecided, Terminal
  <1>3. RunningHasProcess
    BY DEF Init, RunningHasProcess, Listed, Created
  <1>4. WithinConcurrency
    <2>1. Live = {}
      BY DEF Init, Live
    <2> QED BY <2>1, FS_EmptySet, CommandAssumption DEF WithinConcurrency
  <1> QED BY <1>1, <1>2, <1>3, <1>4 DEF IInv

\* The launch of a command that has left no trace yet.  The caller settles
\* what was told of it.
LEMMA LaunchGood ==
  ASSUME IInv, NEW c \in Commands, NEW record \in Command,
         record.state = "queued", record.auth \in {"approved_once", "trusted"},
         command[c].state \in {"unused", "awaiting_approval"},
         doLaunch(c, record), rules' \in Seq(Rule), UNCHANGED body,
         told' \in [Commands -> {"none", "polling", "gave_up"} \union Terminal],
         told'[c] \in {"none", "polling"},
         \A d \in Commands \ {c} : told'[d] = told[d]
  PROVE  IInv'
  <1>1. starts[c] = 0 /\ process[c] = "none" /\ c \notin spawned
    BY DEF IInv, CommandOK, Undecided
  <1>2. spawned' \subseteq Commands
    BY DEF doLaunch, spawn, IInv, TypeOK
  <1>3. CASE /\ command' = [command EXCEPT ![c] = [record EXCEPT !.state = "failed"]]
             /\ UNCHANGED <<process, starts>>
    <2>1. TypeOK'
      <3>1. [record EXCEPT !.state = "failed"] \in Command
        BY DEF Command, Terminal
      <3> QED BY <1>2, <1>3, <3>1 DEF IInv, TypeOK
    <2>2. \A d \in Commands : CommandOK(d)'
      BY <1>1, <1>3 DEF doLaunch, spawn, IInv, TypeOK, CommandOK, Command, Undecided, Terminal
    <2>3. RunningHasProcess'
      <3> SUFFICES ASSUME NEW d \in Listed', command'[d].state \in {"queued", "running"}
                   PROVE  process'[d] # "none"
        BY DEF RunningHasProcess
      <3>1. d \in Commands /\ d # c
        BY <1>3 DEF Listed, Created, IInv, TypeOK, Command
      <3>2. Created \subseteq Created' /\ d \in Created
        BY <1>3, <3>1 DEF Listed, Created, IInv, TypeOK, Command
      <3>3. d \in Listed
        BY <3>2, ListShrinks
      <3> QED BY <1>3, <3>1, <3>3 DEF IInv, TypeOK, RunningHasProcess
    <2>4. WithinConcurrency'
      <3>1. Live' \subseteq Live
        BY <1>3 DEF Live
      <3> QED BY <3>1, FewerLive DEF IInv
    <2> QED BY <2>1, <2>2, <2>3, <2>4 DEF IInv
  <1>4. ASSUME NEW handle \in {"runs", "deaf"},
               Cardinality(Live) < MaxConcurrent,
               command' = [command EXCEPT ![c] = [record EXCEPT !.state = "running"]],
               process' = [process EXCEPT ![c] = handle],
               starts' = [starts EXCEPT ![c] = @ + 1]
        PROVE  IInv'
    <2>1. TypeOK'
      <3>1. [record EXCEPT !.state = "running"] \in Command
        BY DEF Command, Terminal
      <3>2. command' \in [Commands -> Command] /\ process' \in [Commands -> Process]
        BY <1>4, <3>1 DEF IInv, TypeOK, Process
      <3>3. starts' \in [Commands -> Nat]
        BY <1>4 DEF IInv, TypeOK
      <3> QED BY <1>2, <3>2, <3>3 DEF IInv, TypeOK
    <2>2. \A d \in Commands : CommandOK(d)'
      BY <1>1, <1>4 DEF doLaunch, spawn, IInv, TypeOK, CommandOK, Command, Undecided, Terminal
    <2>3. RunningHasProcess'
      <3> SUFFICES ASSUME NEW d \in Listed', command'[d].state \in {"queued", "running"}, d # c
                   PROVE  process'[d] # "none"
        BY <1>4 DEF RunningHasProcess, IInv, TypeOK
      <3>1. d \in Commands
        BY DEF Listed, Created
      <3>2. Created \subseteq Created' /\ d \in Created
        BY <1>4, <3>1 DEF Listed, Created, IInv, TypeOK, Command
      <3>3. d \in Listed
        BY <3>2, ListShrinks
      <3> QED BY <1>4, <3>1, <3>3 DEF IInv, TypeOK, RunningHasProcess
    <2>4. WithinConcurrency'
      <3>1. Live' = Live \cup {c}
        BY <1>4 DEF Live, IInv, TypeOK
      <3>2. Live \in SUBSET Commands
        BY DEF Live
      <3>3. IsFiniteSet(Live) /\ Cardinality(Live) \in Nat
        BY <3>2, CommandsFinite
      <3>4. Cardinality(Live') <= Cardinality(Live) + 1
        <4>1. Cardinality(Live \cup {c}) = IF c \in Live THEN Cardinality(Live)
                                                       ELSE Cardinality(Live) + 1
          BY <3>3, FS_AddElement
        <4> QED BY <3>1, <3>3, <4>1
      <3>5. Live' \in SUBSET Commands
        BY DEF Live, Commands
      <3>6. Cardinality(Live') \in Nat
        BY <3>5, CommandsFinite
      <3> QED BY <1>4, <3>3, <3>4, <3>6, CommandAssumption DEF WithinConcurrency
    <2> QED BY <2>1, <2>2, <2>3, <2>4 DEF IInv
  <1> QED BY <1>1, <1>3, <1>4 DEF doLaunch, spawn

\* A step that spawns nothing, adds no process to a command, adds none to the
\* ones that are shown as running and creates none of those.
LEMMA QuietGood ==
  ASSUME IInv, TypeOK', Live' \subseteq Live, Created \subseteq Created',
         \A d \in Commands : CommandOK(d)',
         \A d \in Commands : command'[d].state \in {"queued", "running"} =>
            /\ command[d].state = command'[d].state
            /\ process'[d] = "none" => process[d] = "none"
  PROVE  IInv'
  <1>1. RunningHasProcess'
    <2> SUFFICES ASSUME NEW d \in Listed', command'[d].state \in {"queued", "running"}
                 PROVE  process'[d] # "none"
      BY DEF RunningHasProcess
    <2>1. d \in Commands /\ d \in Created
      BY DEF Listed, Created
    <2>2. d \in Listed
      BY <2>1, ListShrinks
    <2> QED BY <2>1, <2>2 DEF IInv, RunningHasProcess
  <1>2. WithinConcurrency'
    BY FewerLive DEF IInv
  <1> QED BY <1>1, <1>2 DEF IInv

LEMMA ProposeGood ==
  ASSUME IInv, NEW c \in Commands, NEW spec \in Specs, NEW byAgent \in BOOLEAN,
         propose(c, spec, byAgent)
  PROVE  IInv'
  <1> DEFINE record(state, auth) == [spec |-> spec, state |-> state, auth |-> auth]
  <1>1. command[c].state = "unused"
    BY DEF propose, Fresh, Created
  <1>2. told[c] = "none" /\ starts[c] = 0 /\ process[c] = "none" /\ c \notin spawned
    BY <1>1 DEF IInv, CommandOK, Undecided
  <1>3. CASE Trusted(spec)
    <2>1. /\ doLaunch(c, record("queued", "trusted"))
          /\ told' = [told EXCEPT ![c] = IF byAgent THEN "polling" ELSE @]
      BY <1>3 DEF propose
    <2>2. record("queued", "trusted") \in Command
      BY DEF Command
    <2>3. rules' \in Seq(Rule) /\ UNCHANGED body
      BY DEF propose, IInv, TypeOK
    <2>4. /\ told' \in [Commands -> {"none", "polling", "gave_up"} \union Terminal]
          /\ told'[c] \in {"none", "polling"}
          /\ \A d \in Commands \ {c} : told'[d] = told[d]
      BY <1>2, <2>1 DEF IInv, TypeOK
    <2> QED BY <1>1, <2>1, <2>2, <2>3, <2>4, LaunchGood
  <1>4. CASE ~Trusted(spec)
    <2>1. PICK new \in {record("blocked", "blocked_by_policy"),
                        record("awaiting_approval", "pending")} :
            /\ command' = [command EXCEPT ![c] = new]
            /\ UNCHANGED <<rules, body, process, spawned, told, starts>>
      BY <1>4 DEF propose
    <2>2. new \in Command /\ new.state \in {"blocked", "awaiting_approval"}
      BY DEF Command, Terminal
    <2>3. TypeOK'
      BY <2>1, <2>2 DEF IInv, TypeOK
    <2>4. \A d \in Commands : CommandOK(d)'
      BY <1>2, <2>1, <2>2 DEF IInv, TypeOK, CommandOK, Undecided, Terminal
    <2>5. Live' \subseteq Live /\ Created \subseteq Created'
      BY <2>1, <2>2 DEF Live, Created, IInv, TypeOK
    <2>6. \A d \in Commands : command'[d].state \in {"queued", "running"} =>
            /\ command[d].state = command'[d].state
            /\ process'[d] = "none" => process[d] = "none"
      BY <2>1, <2>2 DEF IInv, TypeOK
    <2> QED BY <2>3, <2>4, <2>5, <2>6, QuietGood
  <1> QED BY <1>3, <1>4

LEMMA ApproveGood ==
  ASSUME IInv, NEW c \in Commands, NEW mode \in {"once", "trust"}, approveCommand(c, mode)
  PROVE  IInv'
  <1>1. command[c].state = "awaiting_approval" /\ told[c] = "none"
    BY DEF approveCommand, IInv, CommandOK, Undecided
  <1>2. Approved(c, mode) \in Command
    BY DEF Approved, Command, IInv, TypeOK
  <1>3. /\ Approved(c, mode).state = "queued"
        /\ Approved(c, mode).auth \in {"approved_once", "trusted"}
    BY DEF Approved, Command, IInv, TypeOK
  <1>4. rules' \in Seq(Rule)
    <2>1. bodyOf(command[c].spec) \in Bodies \union {NoBody} /\ command[c].spec \in Specs
      BY DEF bodyOf, IInv, TypeOK, Command
    <2>2. <<[spec |-> command[c].spec, hash |-> bodyOf(command[c].spec)]>> \in Seq(Rule)
      BY <2>1 DEF Rule
    <2> QED BY <2>2 DEF approveCommand, Granted, IInv, TypeOK
  <1>5. doLaunch(c, Approved(c, mode)) /\ UNCHANGED <<body, told>>
    BY DEF approveCommand
  <1>6. told' \in [Commands -> {"none", "polling", "gave_up"} \union Terminal]
    BY <1>5 DEF IInv, TypeOK
  <1> QED BY <1>1, <1>2, <1>3, <1>4, <1>5, <1>6, LaunchGood

LEMMA RejectGood ==
  ASSUME IInv, NEW c \in Commands, rejectCommand(c)
  PROVE  IInv'
  <1>1. /\ command[c] \in Command /\ command[c].state = "awaiting_approval"
        /\ starts[c] = 0 /\ process[c] = "none" /\ told[c] = "none"
    BY DEF rejectCommand, IInv, TypeOK, CommandOK, Undecided
  <1> DEFINE new == [command[c] EXCEPT !.state = "cancelled", !.auth = "rejected"]
  <1>2. new \in Command /\ new.state = "cancelled"
    BY <1>1 DEF Command, Terminal
  <1>3. /\ command' = [command EXCEPT ![c] = new]
        /\ UNCHANGED <<rules, body, process, spawned, told, starts>>
    BY DEF rejectCommand, IInv, TypeOK
  <1> HIDE DEF new
  <1>4. TypeOK'
    BY <1>2, <1>3 DEF IInv, TypeOK
  <1>5. \A d \in Commands : CommandOK(d)'
    BY <1>1, <1>2, <1>3 DEF IInv, TypeOK, CommandOK, Undecided, Terminal
  <1>6. Live' \subseteq Live /\ Created \subseteq Created'
    BY <1>2, <1>3 DEF Live, Created, IInv, TypeOK
  <1>7. \A d \in Commands : command'[d].state \in {"queued", "running"} =>
          /\ command[d].state = command'[d].state
          /\ process'[d] = "none" => process[d] = "none"
    BY <1>2, <1>3 DEF IInv, TypeOK
  <1> QED BY <1>4, <1>5, <1>6, <1>7, QuietGood

\* A command that is cancelled while it awaits approval was told nothing.
LEMMA CancelAllGood ==
  ASSUME IInv, NEW set \in SUBSET Active, CancelAll(set)
  PROVE  IInv'
  <1>1. \A d \in Commands : [command[d] EXCEPT !.state = "cancelled"] \in Command
    BY DEF IInv, TypeOK, Command, Terminal
  <1>2. TypeOK'
    <2>1. command' \in [Commands -> Command]
      BY <1>1 DEF CancelAll, IInv, TypeOK
    <2>2. process' \in [Commands -> Process]
      BY DEF CancelAll, IInv, TypeOK, Process
    <2> QED BY <2>1, <2>2 DEF CancelAll, IInv, TypeOK
  <1>3. \A d \in Commands : /\ command'[d].auth = command[d].auth
                            /\ d \in set => command'[d].state = "cancelled"
                            /\ d \notin set => command'[d] = command[d]
    BY DEF CancelAll, IInv, TypeOK, Command
  <1>4. \A d \in set : command[d].state \notin Terminal
    BY DEF Active
  <1>5. \A d \in Commands : /\ process'[d] = "none" <=> process[d] = "none"
    BY DEF CancelAll
  <1>6. UNCHANGED <<spawned, told, starts>>
    BY DEF CancelAll
  <1>7. \A d \in Commands : CommandOK(d)'
    BY <1>3, <1>4, <1>5, <1>6 DEF IInv, CommandOK, Undecided, Terminal
  <1>8. Live' \subseteq Live /\ Created \subseteq Created'
    BY <1>3, <1>5 DEF Live, Created
  <1>9. \A d \in Commands : command'[d].state \in {"queued", "running"} =>
          /\ command[d].state = command'[d].state
          /\ process'[d] = "none" => process[d] = "none"
    BY <1>3, <1>5
  <1> QED BY <1>2, <1>7, <1>8, <1>9, QuietGood

\* Steps that touch neither commands nor processes.
Aside ==
  /\ UNCHANGED <<command, process, spawned, starts>>
  /\ \A d \in Commands : \/ told'[d] = told[d]
                         \/ told[d] = "polling" /\ told'[d] \in {"gave_up", command[d].state}

LEMMA AsideGood ==
  ASSUME IInv, TypeOK', Aside
  PROVE  IInv'
  <1>1. \A d \in Commands : CommandOK(d)'
    BY DEF Aside, IInv, CommandOK, Undecided, Terminal
  <1>2. Live' \subseteq Live /\ Created \subseteq Created'
    BY DEF Aside, Live, Created
  <1> QED BY <1>1, <1>2, QuietGood DEF Aside

LEMMA RevokeGood ==
  ASSUME IInv, NEW k \in DOMAIN rules, revokeTrustRule(k)
  PROVE  IInv'
  <1>1. rules \in Seq(Rule) /\ k \in 1..Len(rules)
    BY DEF IInv, TypeOK
  <1>2. rules' \in Seq(Rule)
    <2>1. SubSeq(rules, 1, k - 1) \in Seq(Rule) /\ SubSeq(rules, k + 1, Len(rules)) \in Seq(Rule)
      BY <1>1
    <2> QED BY <2>1 DEF revokeTrustRule
  <1>3. TypeOK'
    BY <1>2 DEF revokeTrustRule, IInv, TypeOK
  <1>4. Aside
    BY DEF revokeTrustRule, Aside
  <1> QED BY <1>3, <1>4, AsideGood

LEMMA TimeoutGood ==
  ASSUME IInv, NEW c \in Commands, timeoutFires(c)
  PROVE  IInv'
  <1>1. TypeOK'
    BY DEF timeoutFires, IInv, TypeOK, Process
  <1>2. \A d \in Commands : process'[d] = "none" <=> process[d] = "none"
    BY DEF timeoutFires, IInv, TypeOK
  <1>3. \A d \in Commands : CommandOK(d)'
    BY <1>2 DEF timeoutFires, IInv, CommandOK
  <1>4. Live' \subseteq Live /\ Created \subseteq Created'
    BY <1>2 DEF timeoutFires, Live, Created
  <1> QED BY <1>1, <1>2, <1>3, <1>4, QuietGood DEF timeoutFires

\* The command was running or cancelled, so nobody was told another end of it.
LEMMA EndGood ==
  ASSUME IInv, NEW c \in Commands, NEW ok \in BOOLEAN, processEnds(c, ok)
  PROVE  IInv'
  <1>1. /\ command[c].state \in {"running", "cancelled"}
        /\ command[c] \in Command
    BY DEF processEnds, fireComplete, IInv, TypeOK, CommandOK
  <1> DEFINE new == [command[c] EXCEPT !.state = Outcome(c, ok)]
  <1>2. Outcome(c, ok) \in {"succeeded", "failed", "cancelled", "timed_out"}
    BY DEF Outcome
  <1>3. new \in Command /\ new.state = Outcome(c, ok) /\ new.auth = command[c].auth
    BY <1>1, <1>2 DEF Command, Terminal
  <1>4. /\ command' = [command EXCEPT ![c] = new]
        /\ process' = [process EXCEPT ![c] = "none"]
        /\ UNCHANGED <<rules, body, spawned, told, starts>>
    BY DEF processEnds, fireComplete, IInv, TypeOK
  <1> HIDE DEF new
  <1>5. TypeOK'
    BY <1>3, <1>4 DEF IInv, TypeOK, Process
  <1>6. \A d \in Commands : CommandOK(d)'
    <2> TAKE d \in Commands
    <2>1. CASE d = c
      <3>1. told[c] \notin Terminal \ {"cancelled"}
        BY <1>1 DEF IInv, CommandOK, Terminal
      <3> QED BY <1>1, <1>2, <1>3, <1>4, <2>1, <3>1
              DEF IInv, TypeOK, CommandOK, Undecided
    <2>2. CASE d # c
      BY <1>4, <2>2 DEF IInv, TypeOK, CommandOK
    <2> QED BY <2>1, <2>2
  <1>7. Live' \subseteq Live /\ Created \subseteq Created'
    BY <1>2, <1>3, <1>4 DEF Live, Created, IInv, TypeOK
  <1>8. \A d \in Commands : command'[d].state \in {"queued", "running"} =>
          /\ command[d].state = command'[d].state
          /\ process'[d] = "none" => process[d] = "none"
    BY <1>2, <1>3, <1>4 DEF IInv, TypeOK
  <1> QED BY <1>5, <1>6, <1>7, <1>8, QuietGood

LEMMA ToolGood ==
  ASSUME IInv, NEW c \in Commands, toolHears(c) \/ toolGivesUp(c)
  PROVE  IInv'
  <1>1. PICK answer \in {"gave_up", command[c].state} :
          /\ told[c] = "polling" /\ told' = [told EXCEPT ![c] = answer]
          /\ answer \in {"gave_up"} \union Terminal
          /\ UNCHANGED <<command, rules, body, process, spawned, starts>>
    BY DEF toolHears, toolGivesUp
  <1>2. TypeOK'
    BY <1>1 DEF IInv, TypeOK
  <1>3. Aside
    BY <1>1 DEF IInv, TypeOK, Aside
  <1> QED BY <1>2, <1>3, AsideGood

\* What the restart lists is no longer running; what it does not list, it need
\* not answer for.
LEMMA RestartGood ==
  ASSUME IInv, Restart
  PROVE  IInv'
  <1>1. \A d \in Commands : [command[d] EXCEPT !.state = "cancelled"] \in Command
    BY DEF IInv, TypeOK, Command, Terminal
  <1>2. TypeOK'
    <2>1. command' \in [Commands -> Command]
      BY <1>1 DEF Restart, IInv, TypeOK
    <2>2. process' \in [Commands -> Process]
      BY DEF Restart, Process
    <2>3. told' \in [Commands -> {"none", "polling", "gave_up"} \union Terminal]
      BY DEF Restart, IInv, TypeOK
    <2> QED BY <2>1, <2>2, <2>3 DEF Restart, IInv, TypeOK
  <1>3. \A d \in Commands :
          /\ command'[d].auth = command[d].auth
          /\ \/ command'[d] = command[d]
             \/ /\ command[d].state \in {"running", "queued"}
                /\ command'[d].state = "cancelled"
    BY DEF Restart, IInv, TypeOK, Command
  <1>4. \A d \in Commands : process'[d] = "none" /\ d \notin spawned' /\ starts'[d] = starts[d]
    BY DEF Restart
  <1>5. \A d \in Commands : \/ told'[d] = told[d]
                            \/ told'[d] = "none"
    BY DEF Restart, IInv, TypeOK
  <1>6. \A d \in Commands : CommandOK(d)'
    BY <1>3, <1>4, <1>5 DEF IInv, CommandOK, Undecided, Terminal
  <1>7. Live' \subseteq Live /\ Created' = Created
    BY <1>3, <1>4 DEF Live, Created
  <1>8. Listed' = Listed
    BY <1>7 DEF Listed
  <1>9. RunningHasProcess'
    <2> SUFFICES ASSUME NEW d \in Listed, command'[d].state \in {"queued", "running"}
                 PROVE  FALSE
      BY <1>8 DEF RunningHasProcess
    <2>1. d \in Commands
      BY DEF Listed, Created
    <2> QED BY <2>1 DEF Restart, IInv, TypeOK, Command
  <1>10. WithinConcurrency'
    BY <1>7, FewerLive DEF IInv
  <1> QED BY <1>2, <1>6, <1>9, <1>10 DEF IInv

LEMMA NextIInv == IInv /\ [Next]_vars => IInv'
  <1> SUFFICES ASSUME IInv, [Next]_vars PROVE IInv'
    OBVIOUS
  <1>1. CASE \E c \in Commands, spec \in Specs, byAgent \in BOOLEAN : propose(c, spec, byAgent)
    BY <1>1, ProposeGood
  <1>2. CASE \E c \in Commands, mode \in {"once", "trust"} : approveCommand(c, mode)
    BY <1>2, ApproveGood
  <1>3. CASE \E c \in Commands : rejectCommand(c)
    BY <1>3, RejectGood
  <1>4. ASSUME NEW c \in Commands, cancelCommand(c) PROVE IInv'
    <2>1. {c} \in SUBSET Active /\ CancelAll({c})
      BY <1>4 DEF cancelCommand
    <2> QED BY <2>1, CancelAllGood
  <1>5. CASE \E k \in DOMAIN rules : revokeTrustRule(k)
    BY <1>5, RevokeGood
  <1>6. ASSUME NEW b \in Bodies \union {NoBody}, editScript(b) PROVE IInv'
    <2>1. TypeOK' /\ Aside
      BY <1>6 DEF editScript, IInv, TypeOK, Aside
    <2> QED BY <2>1, AsideGood
  <1>7. CASE \E c \in Commands : timeoutFires(c)
    BY <1>7, TimeoutGood
  <1>8. CASE \E c \in Commands, ok \in BOOLEAN : processEnds(c, ok)
    BY <1>8, EndGood
  <1>9. CASE \E c \in Commands : toolHears(c) \/ toolGivesUp(c)
    BY <1>9, ToolGood
  <1>10. CASE cancelAllOnQuit
    <2>1. Listed \intersect Active \in SUBSET Active
      OBVIOUS
    <2> QED BY <1>10, <2>1, CancelAllGood DEF cancelAllOnQuit
  <1>11. CASE Restart
    BY <1>11, RestartGood
  <1>12. CASE UNCHANGED vars
    <2>1. TypeOK' /\ Aside
      BY <1>12 DEF vars, IInv, TypeOK, Aside
    <2> QED BY <2>1, AsideGood
  <1> QED BY <1>1, <1>2, <1>3, <1>4, <1>5, <1>6, <1>7, <1>8, <1>9, <1>10, <1>11, <1>12 DEF Next, UserDecides

-----------------------------------------------------------------------------
(* Theorems *)

\* The strengthening is an invariant of the command manager.
THEOREM Invariant == Spec => []IInv
  <1> QED BY InitIInv, NextIInv, PTL DEF Spec

\* The stored commands, rules and handles keep their types.
THEOREM TypeCorrect == Spec => []TypeOK
  <1>1. IInv => TypeOK
    BY DEF IInv
  <1> QED BY Invariant, <1>1, PTL

\* COMMAND_START_ONCE: no command is spawned twice.
THEOREM NoSecondStart == Spec => []StartedOnce
  <1>1. IInv => StartedOnce
    BY DEF IInv, CommandOK, StartedOnce
  <1> QED BY Invariant, <1>1, PTL

\* COMMAND_REQUIRES_AUTHORIZATION: a command that was spawned was approved or
\* trusted.
THEOREM OnlyAuthorizedStart == Spec => []UnauthorizedNeverStarts
  <1>1. IInv => UnauthorizedNeverStarts
    BY DEF IInv, CommandOK, UnauthorizedNeverStarts
  <1> QED BY Invariant, <1>1, PTL

\* Among the commands a restart lists, what is shown as running has a process.
THEOREM NoGhost == Spec => []RunningHasProcess
  <1>1. IInv => RunningHasProcess
    BY DEF IInv
  <1> QED BY Invariant, <1>1, PTL

\* The limit of the project holds for the processes that live.
THEOREM LimitHolds == Spec => []WithinConcurrency
  <1>1. IInv => WithinConcurrency
    BY DEF IInv
  <1> QED BY Invariant, <1>1, PTL

\* The end of a command that an agent was told is the end the store keeps.
THEOREM FinalAnswer == Spec => []AnswerIsFinal
  <1>1. IInv => AnswerIsFinal
    BY DEF IInv, CommandOK, AnswerIsFinal
  <1> QED BY Invariant, <1>1, PTL

\* Only propose and approveCommand spawn, and propose under a rule for the body
\* the script has.
LEMMA StartsStep ==
  IInv /\ [Next]_vars =>
    \A c \in Commands : starts'[c] > starts[c] =>
       \/ \E mode \in {"once", "trust"} : approveCommand(c, mode)
       \/ \E k \in DOMAIN rules : /\ rules[k].spec = command'[c].spec
                                  /\ rules[k].hash \in {NoBody, bodyOf(command'[c].spec)}
  <1> SUFFICES ASSUME IInv, [Next]_vars, NEW c \in Commands, starts'[c] > starts[c],
                      \A mode \in {"once", "trust"} : ~approveCommand(c, mode)
               PROVE  \E k \in DOMAIN rules :
                        /\ rules[k].spec = command'[c].spec
                        /\ rules[k].hash \in {NoBody, bodyOf(command'[c].spec)}
    OBVIOUS
  <1>1. starts[c] \in Nat /\ starts'[c] # starts[c] /\ starts' # starts
    BY DEF IInv, TypeOK
  <1>2. \A d \in Commands, mode \in {"once", "trust"} : ~approveCommand(d, mode)
    BY <1>1 DEF approveCommand, doLaunch, spawn, IInv, TypeOK
  <1>3. PICK d \in Commands, spec \in Specs, byAgent \in BOOLEAN : propose(d, spec, byAgent)
    BY <1>1, <1>2 DEF Next, UserDecides, vars, rejectCommand, cancelCommand, CancelAll, revokeTrustRule,
       editScript, timeoutFires, processEnds, fireComplete, toolHears, toolGivesUp, cancelAllOnQuit, Restart
  <1>4. Trusted(spec) /\ d = c
    BY <1>1, <1>3 DEF propose, doLaunch, spawn, IInv, TypeOK
  <1>5. command'[c].spec = spec
    BY <1>3, <1>4 DEF propose, doLaunch, spawn, IInv, TypeOK
  <1>6. body' = body
    BY <1>3 DEF propose
  <1> QED BY <1>4, <1>5 DEF Trusted

\* COMMAND_TRUST_STILL_VALID: what starts without an approval is trusted in the
\* state it starts from.
THEOREM AutomaticStart == Spec => AutomaticStartIsTrusted
  <1> QED BY Invariant, StartsStep, PTL DEF Spec, AutomaticStartIsTrusted

\* For any number of commands: what starts was authorized, and starts once.
THEOREM Authorized == Spec => []StartsAreAuthorized
BY NoSecondStart, OnlyAuthorizedStart, PTL DEF StartsAreAuthorized

\* For any limits of the list and of the project: a listed command shown as running
\* has a process, and no more processes live than the project allows.
THEOREM Processes == Spec => []ProcessesAreAccounted
BY NoGhost, LimitHolds, PTL DEF ProcessesAreAccounted

=============================================================================
