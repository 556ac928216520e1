--------------------------- MODULE PermissionsProofs ---------------------------
(***************************************************************************)
(* Proofs about Permissions, for any runs, projects, tools and policies.   *)
(*                                                                         *)
(* A question lives in two places: where the main process waits for its    *)
(* answer, and where the user can give it.  The invariant says how the two *)
(* differ: what the window still holds of a question that is not open any  *)
(* more is followed by the event that removes it.                          *)
(***************************************************************************)
EXTENDS Permissions, FiniteSetTheorems, TLAPS

-----------------------------------------------------------------------------
(* The inductive invariant.                                                *)

Event == [kind : {"request", "cancelled"}, approval : Approval]

IsRequest(c) == channel[c].kind = "request"

\* A run waits for one question, and every question has an id of its own.
Questions ==
  /\ \A p, q \in pending : p.id = q.id \/ p.key.run = q.key.run => p = q
  /\ \A p \in pending : p.id <= asked /\ outcome[p.key.run] = "asking"
  /\ \A r \in aborted \ TaskRuns : outcome[r] # "asking"

\* A question is in one place on its way to the user and back.
OnePlace ==
  /\ \A c \in DOMAIN channel : channel[c].approval.id <= asked
  /\ \A d \in DOMAIN dialogs : dialogs[d].id <= asked
  /\ \A a \in answers : a.id <= asked
  /\ \A d, e \in DOMAIN dialogs : dialogs[d].id = dialogs[e].id => d = e
  /\ \A c, e \in DOMAIN channel :
       IsRequest(c) /\ IsRequest(e) /\ channel[c].approval.id = channel[e].approval.id => c = e
  /\ \A c \in DOMAIN channel : IsRequest(c) =>
       /\ \A d \in DOMAIN dialogs : dialogs[d].id # channel[c].approval.id
       /\ \A a \in answers : a.id # channel[c].approval.id
  /\ \A d \in DOMAIN dialogs, a \in answers : a.id # dialogs[d].id

\* A question that is not open any more is removed after it was shown.
Going ==
  /\ \A c \in DOMAIN channel : ~IsRequest(c) => channel[c].approval \notin pending
  /\ \A c \in DOMAIN channel : IsRequest(c) =>
       \/ channel[c].approval \in pending
       \/ \E e \in DOMAIN channel :
            c < e /\ ~IsRequest(e) /\ channel[e].approval = channel[c].approval
  /\ \A d \in DOMAIN dialogs :
       \/ dialogs[d] \in pending
       \/ \E e \in DOMAIN channel : ~IsRequest(e) /\ channel[e].approval = dialogs[d]

\* Grants are counted.
Counted == IsFiniteSet(once) /\ OnceIsCounted

IInv == TypeOK /\ Questions /\ OnePlace /\ Going /\ Counted

-----------------------------------------------------------------------------
(* Types, and what the actions are made of.                                *)

StoreOK == /\ preset \in Preset \union {Unset}
           /\ DOMAIN globals \subseteq KnownCapability
           /\ \A c \in DOMAIN globals : globals[c] \in Policy
           /\ DOMAIN overrides = Projects
           /\ \A p \in Projects : /\ DOMAIN overrides[p] \subseteq KnownCapability
                                  /\ \A c \in DOMAIN overrides[p] : overrides[p][c] \in Policy
           /\ sessions \subseteq KnownCapability \X Scopes

Outcomes == {"none", "malformed", "unknown", "denied", "asking", "withdrawn", "acted"}

MemoryOK == /\ once \subseteq Key
            /\ pending \subseteq Approval
            /\ asked \in 0..MaxAsks
            /\ channel \in Seq(Event)
            /\ dialogs \in Seq(Approval)
            /\ answers \subseteq [id : 1..MaxAsks, action : Action]
            /\ outcome \in [Runs -> Outcomes]
            /\ aborted \subseteq Runs
            /\ credit \in [Runs -> Int]

LEMMA TypeParts == TypeOK <=> StoreOK /\ MemoryOK
BY DEF TypeOK, StoreOK, MemoryOK, Event, Outcomes

LEMMA TypePartsNext == TypeOK' <=> StoreOK' /\ MemoryOK'
BY DEF TypeOK, StoreOK, MemoryOK, Event, Outcomes

LEMMA Fields ==
  /\ \A a \in Approval : a.id \in 1..MaxAsks /\ a.id \in Nat /\ a.key \in Key
                         /\ a.key.run \in Runs /\ a.key.cap \in KnownCapability
  /\ \A e \in Event : e.kind \in {"request", "cancelled"} /\ e.approval \in Approval
  /\ \A k \in Key : k.run \in Runs /\ k.cap \in KnownCapability
<1>1. \A k \in Key : k.run \in Runs /\ k.cap \in KnownCapability
  BY DEF Key
<1>2. \A a \in Approval : a.id \in 1..MaxAsks /\ a.key \in Key
  BY DEF Approval
<1>3. \A e \in Event : e.kind \in {"request", "cancelled"} /\ e.approval \in Approval
  BY DEF Event
<1> QED BY <1>1, <1>2, <1>3

LEMMA Facts ==
  ASSUME IInv
  PROVE  /\ StoreOK /\ MemoryOK /\ Questions /\ OnePlace /\ Going
         /\ IsFiniteSet(once) /\ OnceIsCounted
         /\ asked \in Nat /\ asked <= MaxAsks /\ MaxAsks \in Nat
BY TypeParts, PermissionAssumption DEF IInv, Counted, MemoryOK

\* A policy that is put under a known capability.
LEMMA PutPolicy ==
  ASSUME NEW policies, NEW cap \in KnownCapability, NEW policy \in Policy,
         DOMAIN policies \subseteq KnownCapability,
         \A c \in DOMAIN policies : policies[c] \in Policy
  PROVE  /\ DOMAIN Put(policies, cap, policy) \subseteq KnownCapability
         /\ \A c \in DOMAIN Put(policies, cap, policy) : Put(policies, cap, policy)[c] \in Policy
         /\ cap \in DOMAIN Put(policies, cap, policy) /\ Put(policies, cap, policy)[cap] = policy
BY DEF Put

LEMMA DropPolicy ==
  ASSUME NEW policies, NEW cap,
         DOMAIN policies \subseteq KnownCapability,
         \A c \in DOMAIN policies : policies[c] \in Policy
  PROVE  /\ DOMAIN Drop(policies, cap) \subseteq KnownCapability
         /\ \A c \in DOMAIN Drop(policies, cap) : Drop(policies, cap)[c] \in Policy
BY DEF Drop

\* Overrides of one project change.
LEMMA OverridesOf ==
  ASSUME StoreOK, NEW p \in Projects, NEW policies,
         DOMAIN policies \subseteq KnownCapability,
         \A c \in DOMAIN policies : policies[c] \in Policy,
         overrides' = [overrides EXCEPT ![p] = policies],
         UNCHANGED <<preset, globals, sessions>>
  PROVE  StoreOK' /\ overrides'[p] = policies
<1>1. overrides'[p] = policies /\ DOMAIN overrides' = Projects
  BY DEF StoreOK
<1>2. \A q \in Projects : overrides'[q] = IF q = p THEN policies ELSE overrides[q]
  BY DEF StoreOK
<1>3. \A q \in Projects : /\ DOMAIN overrides'[q] \subseteq KnownCapability
                          /\ \A c \in DOMAIN overrides'[q] : overrides'[q][c] \in Policy
  <2> TAKE q \in Projects
  <2>1. CASE q = p
    BY <1>2, <2>1
  <2>2. CASE q # p
    BY <1>2, <2>2 DEF StoreOK
  <2> QED BY <2>1, <2>2
<1> QED BY <1>1, <1>3 DEF StoreOK

-----------------------------------------------------------------------------
(* The actions.  Each keeps the invariant and the two action properties.   *)

QuestionsStay == \A p \in pending' : (p \in pending => Reachable(p)) => Reachable(p)'

Sticks ==
  \A p \in pending \ pending', action \in {"allow_session", "allow_project", "always_allow"} :
    [id |-> p.id, action |-> action] \in answers \ answers' /\ outcome'[p.key.run] = "acted" =>
      LET project == ProjectOf[p.key.run]
      IN  \/ resolvePermission(p.key.cap, project)' = "ALLOW"
          \/ /\ action = "always_allow"
             /\ project \in Projects
             /\ p.key.cap \in DOMAIN overrides[project]

Kept == IInv' /\ (reload \/ QuestionsStay) /\ Sticks

\* Where no answer arrives there is nothing to stick.
LEMMA NoAnswer ==
  ASSUME answers \subseteq answers'
  PROVE  Sticks
BY DEF Sticks

\* What leaves the questions and the window alone leaves their invariants.
LEMMA WindowFrame ==
  ASSUME IInv, UNCHANGED <<pending, asked, window>>
  PROVE  OnePlace' /\ Going' /\ QuestionsStay /\ Sticks
<1>1. /\ pending' = pending /\ asked' = asked /\ channel' = channel /\ dialogs' = dialogs
      /\ answers' = answers
  BY DEF window
<1>2. OnePlace'
  BY <1>1, Facts DEF OnePlace, IsRequest
<1>3. Going'
  BY <1>1, Facts DEF Going, IsRequest
<1>4. QuestionsStay
  BY <1>1 DEF QuestionsStay, Reachable
<1>5. Sticks
  BY <1>1, NoAnswer
<1> QED BY <1>2, <1>3, <1>4, <1>5

LEMMA GrantsFrame ==
  ASSUME IInv, UNCHANGED <<once, credit>> PROVE Counted'
BY Facts DEF Counted, OnceIsCounted

\* Settings change the policies and the session grants only.
LEMMA SettingsKeep ==
  ASSUME IInv, StoreOK', Settings PROVE Kept
<1>1. /\ pending' = pending /\ asked' = asked /\ channel' = channel /\ dialogs' = dialogs
      /\ answers' = answers /\ outcome' = outcome /\ aborted' = aborted
      /\ credit' = credit /\ once' = once
  BY DEF Settings, window
<1>2. MemoryOK'
  BY <1>1, Facts DEF MemoryOK
<1>3. OnePlace' /\ Going' /\ QuestionsStay /\ Sticks
  BY <1>1, WindowFrame DEF window
<1>4. Questions'
  BY <1>1, Facts DEF Questions
<1>5. Counted'
  BY <1>1, GrantsFrame
<1> QED BY <1>2, <1>3, <1>4, <1>5, TypePartsNext DEF Kept, IInv

LEMMA ChangesSettings ==
  ASSUME IInv, ChangeSettings PROVE Kept
<1>0. StoreOK /\ Settable \subseteq KnownCapability /\ Policies \subseteq Policy
  BY Facts, PermissionAssumption
<1>1. ASSUME NEW cap \in Settable, NEW policy \in Policies, setGlobalPolicy(cap, policy)
      PROVE  StoreOK' /\ Settings
  <2>1. /\ globals' = Put(globals, cap, policy) /\ UNCHANGED <<preset, overrides, sessions>>
        /\ Settings
    BY <1>1 DEF setGlobalPolicy
  <2>2. /\ DOMAIN globals' \subseteq KnownCapability
        /\ \A c \in DOMAIN globals' : globals'[c] \in Policy
    BY <1>0, <2>1, PutPolicy DEF StoreOK
  <2> QED BY <1>0, <2>1, <2>2 DEF StoreOK
<1>2. ASSUME resetGlobalPolicies PROVE StoreOK' /\ Settings
  <2>1. globals' = <<>> /\ UNCHANGED <<preset, overrides, sessions>> /\ Settings
    BY <1>2 DEF resetGlobalPolicies
  <2>2. DOMAIN globals' = {}
    BY <2>1
  <2> QED BY <1>0, <2>1, <2>2 DEF StoreOK
<1>3. ASSUME NEW p \in Projects, NEW cap \in Settable, NEW policy \in Policies,
             setProjectPolicy(p, cap, policy)
      PROVE  StoreOK' /\ Settings
  <2> DEFINE new == Put(overrides[p], cap, policy)
  <2>1. /\ overrides' = [overrides EXCEPT ![p] = new]
        /\ UNCHANGED <<preset, globals, sessions>> /\ Settings
    BY <1>3 DEF setProjectPolicy
  <2>2. DOMAIN new \subseteq KnownCapability /\ \A c \in DOMAIN new : new[c] \in Policy
    BY <1>0, PutPolicy DEF StoreOK
  <2> HIDE DEF new
  <2> QED BY <1>0, <2>1, <2>2, OverridesOf
<1>4. ASSUME NEW p \in Projects, NEW cap \in Settable, clearProjectPolicy(p, cap)
      PROVE  StoreOK' /\ Settings
  <2> DEFINE new == Drop(overrides[p], cap)
  <2>1. /\ overrides' = [overrides EXCEPT ![p] = new]
        /\ UNCHANGED <<preset, globals, sessions>> /\ Settings
    BY <1>4 DEF clearProjectPolicy
  <2>2. DOMAIN new \subseteq KnownCapability /\ \A c \in DOMAIN new : new[c] \in Policy
    BY <1>0, DropPolicy DEF StoreOK
  <2> HIDE DEF new
  <2> QED BY <1>0, <2>1, <2>2, OverridesOf
<1>5. ASSUME NEW p \in Projects, resetProjectPolicies(p) PROVE StoreOK' /\ Settings
  <2>1. /\ overrides' = [overrides EXCEPT ![p] = <<>>]
        /\ UNCHANGED <<preset, globals, sessions>> /\ Settings
    BY <1>5 DEF resetProjectPolicies
  <2>2. DOMAIN <<>> = {}
    OBVIOUS
  <2> QED BY <1>0, <2>1, <2>2, OverridesOf
<1>6. ASSUME (\E p \in Preset : setPreset(p)) \/ clearPreset PROVE StoreOK' /\ Settings
  <2>1. /\ preset' \in Preset \union {Unset} /\ UNCHANGED <<globals, overrides, sessions>>
        /\ Settings
    BY <1>6 DEF setPreset, clearPreset
  <2> QED BY <1>0, <2>1 DEF StoreOK
<1>7. ASSUME NEW cap \in Settable, NEW scope \in Projects \union {Everywhere},
             grantSession(cap, scope) \/ revokeSession(cap, scope)
      PROVE  StoreOK' /\ Settings
  <2>1. /\ sessions' \subseteq sessions \union {<<cap, scope>>}
        /\ UNCHANGED <<preset, globals, overrides>> /\ Settings
    BY <1>7 DEF grantSession, revokeSession, store
  <2>2. <<cap, scope>> \in KnownCapability \X Scopes
    BY <1>0 DEF Scopes
  <2>3. sessions' \subseteq KnownCapability \X Scopes
    BY <1>0, <2>1, <2>2 DEF StoreOK
  <2> QED BY <1>0, <2>1, <2>3 DEF StoreOK
<1>8. StoreOK' /\ Settings
  BY <1>1, <1>2, <1>3, <1>4, <1>5, <1>6, <1>7 DEF ChangeSettings
<1> QED BY <1>8, SettingsKeep

\* A tool call ends without a question, with or without a grant that it uses.
LEMMA CallEnds ==
  ASSUME IInv, NEW r \in Runs, outcome[r] # "asking",
         NEW how \in Outcomes \ {"asking"}, Finish(r, how),
         UNCHANGED <<pending, asked, window>>, UNCHANGED <<store, sessions, aborted>>,
         \/ UNCHANGED <<once, credit>>
         \/ \E key \in once : /\ key.run = r /\ once' = once \ {key}
                              /\ credit' = [credit EXCEPT ![r] = @ - 1]
  PROVE  Kept
<1>1. /\ pending' = pending /\ asked' = asked /\ channel' = channel /\ dialogs' = dialogs
      /\ answers' = answers /\ aborted' = aborted /\ preset' = preset /\ globals' = globals
      /\ overrides' = overrides /\ sessions' = sessions
      /\ outcome' = [outcome EXCEPT ![r] = how]
  BY DEF window, store, Finish
<1>2. OnePlace' /\ Going' /\ QuestionsStay /\ Sticks
  BY WindowFrame
<1>3. /\ outcome' \in [Runs -> Outcomes] /\ outcome'[r] = how
      /\ \A q \in Runs : q # r => outcome'[q] = outcome[q]
  BY <1>1, Facts DEF MemoryOK
<1>4. Questions'
  <2>1. \A p \in pending : p.key.run # r /\ p.key.run \in Runs
    BY Facts, Fields DEF Questions, MemoryOK
  <2>2. \A q \in aborted : q \in Runs
    BY Facts DEF MemoryOK
  <2> QED BY <1>1, <1>3, <2>1, <2>2, Facts DEF Questions
<1>5. Counted' /\ once' \subseteq Key /\ credit' \in [Runs -> Int]
  <2>1. CASE UNCHANGED <<once, credit>>
    BY <2>1, GrantsFrame, Facts DEF MemoryOK
  <2>2. ASSUME NEW key \in once, key.run = r, once' = once \ {key},
               credit' = [credit EXCEPT ![r] = @ - 1]
        PROVE  Counted' /\ once' \subseteq Key /\ credit' \in [Runs -> Int]
    <3> DEFINE mine(q) == {k \in once : k.run = q}
               left(q) == {k \in once \ {key} : k.run = q}
    <3>1. IsFiniteSet(once) /\ OnceIsCounted /\ credit \in [Runs -> Int] /\ once \subseteq Key
      BY Facts DEF MemoryOK
    <3>2. /\ credit' \in [Runs -> Int] /\ credit'[r] = credit[r] - 1
          /\ \A q \in Runs : q # r => credit'[q] = credit[q]
      BY <2>2, <3>1
    <3>3. \A q \in Runs : IsFiniteSet(mine(q)) /\ Cardinality(mine(q)) \in Nat
      BY <3>1, FS_Subset, FS_CardinalityType
    <3>4. left(r) = mine(r) \ {key} /\ key \in mine(r)
      BY <2>2
    <3>5. \A q \in Runs : q # r => left(q) = mine(q)
      BY <2>2
    <3>6. Cardinality(left(r)) = Cardinality(mine(r)) - 1
      BY <3>3, <3>4, FS_RemoveElement
    <3>7. \A q \in Runs : credit[q] \in Int /\ credit[q] >= Cardinality(mine(q))
      BY <3>1 DEF OnceIsCounted
    <3> HIDE DEF mine, left
    <3>8. \A q \in Runs : credit'[q] >= Cardinality(left(q))
      <4> SUFFICES ASSUME NEW q \in Runs PROVE credit'[q] >= Cardinality(left(q))
        OBVIOUS
      <4>1. CASE q = r
        BY <3>2, <3>3, <3>6, <3>7, <4>1
      <4>2. CASE q # r
        BY <3>2, <3>5, <3>7, <4>2
      <4> QED BY <4>1, <4>2
    <3>9. OnceIsCounted'
      BY <2>2, <3>8 DEF OnceIsCounted, left
    <3>10. IsFiniteSet(once')
      BY <2>2, <3>1, FS_Subset
    <3> QED BY <2>2, <3>1, <3>2, <3>9, <3>10 DEF Counted
  <2> QED BY <2>1, <2>2
<1>6. MemoryOK' /\ StoreOK'
  BY <1>1, <1>3, <1>5, Facts DEF MemoryOK, StoreOK
<1> QED BY <1>2, <1>4, <1>5, <1>6, TypePartsNext DEF Kept, IInv

\* A tool call that waits for the user: its question is new everywhere.
LEMMA CallAsks ==
  ASSUME IInv, NEW key \in Key, key.run \notin aborted, outcome[key.run] # "asking", Ask(key),
         UNCHANGED <<store, sessions, aborted>>
  PROVE  Kept
<1> DEFINE new == [id |-> asked + 1, key |-> key]
           ev  == [kind |-> "request", approval |-> new]
<1>1. /\ asked < MaxAsks /\ asked' = asked + 1 /\ pending' = pending \union {new}
      /\ channel' = Append(channel, ev) /\ outcome' = [outcome EXCEPT ![key.run] = "asking"]
      /\ once' = once /\ credit' = credit /\ dialogs' = dialogs /\ answers' = answers
      /\ aborted' = aborted /\ preset' = preset /\ globals' = globals
      /\ overrides' = overrides /\ sessions' = sessions
  BY DEF Ask, Finish, store
<1>2. /\ asked \in Nat /\ asked' \in 0..MaxAsks /\ new \in Approval /\ new.id = asked + 1
      /\ new.key = key /\ ev \in Event /\ ev.kind = "request" /\ ev.approval = new
      /\ key.run \in Runs
  <2>1. asked \in Nat /\ MaxAsks \in Nat /\ asked + 1 \in 1..MaxAsks
    BY <1>1, Facts
  <2> QED BY <1>1, <2>1, Fields DEF Approval, Event
<1> HIDE DEF new, ev
<1>3. /\ channel \in Seq(Event) /\ channel' \in Seq(Event)
      /\ DOMAIN channel' = DOMAIN channel \union {Len(channel) + 1}
      /\ Len(channel) + 1 \notin DOMAIN channel
      /\ \A c \in DOMAIN channel : channel'[c] = channel[c] /\ c < Len(channel) + 1
      /\ channel'[Len(channel) + 1] = ev
  BY <1>1, <1>2, Facts DEF MemoryOK
<1> DEFINE last == Len(channel) + 1
<1> HIDE DEF last
<1>4. /\ DOMAIN channel' = DOMAIN channel \union {last} /\ last \notin DOMAIN channel
      /\ \A c \in DOMAIN channel : channel'[c] = channel[c]
      /\ channel'[last] = ev
  BY <1>3 DEF last
<1>5. /\ outcome' \in [Runs -> Outcomes] /\ outcome'[key.run] = "asking"
      /\ \A q \in Runs : q # key.run => outcome'[q] = outcome[q]
  BY <1>1, <1>2, Facts DEF MemoryOK, Outcomes
<1>6. /\ \A p \in pending : p.id \in Nat /\ p.id <= asked /\ p.key.run # key.run
                            /\ p.key.run \in Runs
      /\ \A c \in DOMAIN channel : channel[c].approval.id \in Nat
                                   /\ channel[c].approval.id <= asked
      /\ \A d \in DOMAIN dialogs : dialogs[d].id \in Nat /\ dialogs[d].id <= asked
      /\ \A a \in answers : a.id \in Nat /\ a.id <= asked
  <2>1. \A p \in pending : p \in Approval
    BY Facts DEF MemoryOK
  <2>2. \A c \in DOMAIN channel : channel[c].approval \in Approval
    BY <1>3, Fields
  <2>3. \A d \in DOMAIN dialogs : dialogs[d] \in Approval
    BY Facts DEF MemoryOK
  <2>4. \A a \in answers : a.id \in 1..MaxAsks
    BY Facts DEF MemoryOK
  <2> QED BY <2>1, <2>2, <2>3, <2>4, Facts, Fields DEF Questions, OnePlace
<1>7. MemoryOK' /\ StoreOK'
  BY <1>1, <1>2, <1>3, <1>5, Facts DEF MemoryOK, StoreOK
<1>8. Questions'
  <2>1. \A r \in aborted \ TaskRuns : outcome'[r] # "asking"
    BY <1>5, Facts DEF Questions, MemoryOK
  <2>2. \A p \in pending \union {new} : p.id <= asked + 1 /\ outcome'[p.key.run] = "asking"
    BY <1>2, <1>5, <1>6, Facts DEF Questions
  <2>3. \A p, q \in pending \union {new} : p.id = q.id \/ p.key.run = q.key.run => p = q
    BY <1>2, <1>6, Facts DEF Questions
  <2> QED BY <1>1, <2>1, <2>2, <2>3 DEF Questions
<1>9. OnePlace'
  <2>1. \A c \in DOMAIN channel' : \/ c \in DOMAIN channel /\ channel'[c] = channel[c]
                                   \/ c = last /\ channel'[c] = ev
    BY <1>4
  <2>2. /\ \A c \in DOMAIN channel' : channel'[c].approval.id <= asked'
        /\ \A d \in DOMAIN dialogs : dialogs[d].id <= asked'
        /\ \A a \in answers : a.id <= asked'
    BY <1>1, <1>2, <1>6, <2>1
  <2>3. \A c, e \in DOMAIN channel' :
          IsRequest(c)' /\ IsRequest(e)' /\ channel'[c].approval.id = channel'[e].approval.id => c = e
    BY <1>2, <1>6, <2>1, Facts DEF OnePlace, IsRequest
  <2>4. \A c \in DOMAIN channel' : IsRequest(c)' =>
          /\ \A d \in DOMAIN dialogs : dialogs[d].id # channel'[c].approval.id
          /\ \A a \in answers : a.id # channel'[c].approval.id
    BY <1>2, <1>6, <2>1, Facts DEF OnePlace, IsRequest
  <2> QED BY <1>1, <2>2, <2>3, <2>4, Facts DEF OnePlace
<1>10. Going'
  <2>1. \A c \in DOMAIN channel' : \/ c \in DOMAIN channel /\ channel'[c] = channel[c]
                                   \/ c = last /\ channel'[c] = ev
    BY <1>4
  <2>2. \A c \in DOMAIN channel' : ~IsRequest(c)' => channel'[c].approval \notin pending'
    BY <1>1, <1>2, <1>6, <2>1, Facts DEF Going, IsRequest
  <2>3. \A c \in DOMAIN channel' : IsRequest(c)' =>
          \/ channel'[c].approval \in pending'
          \/ \E e \in DOMAIN channel' :
               c < e /\ ~IsRequest(e)' /\ channel'[e].approval = channel'[c].approval
    BY <1>1, <1>2, <1>4, <2>1, Facts DEF Going, IsRequest
  <2>4. \A d \in DOMAIN dialogs :
          \/ dialogs[d] \in pending'
          \/ \E e \in DOMAIN channel' : ~IsRequest(e)' /\ channel'[e].approval = dialogs[d]
    BY <1>1, <1>4, Facts DEF Going, IsRequest
  <2> QED BY <1>1, <2>2, <2>3, <2>4 DEF Going
<1>11. Counted'
  BY <1>1, GrantsFrame
<1>12. QuestionsStay
  <2> SUFFICES ASSUME NEW p \in pending', p \in pending => Reachable(p) PROVE Reachable(p)'
    BY DEF QuestionsStay
  <2>1. CASE p = new
    <3>1. last \in DOMAIN channel' /\ channel'[last] = [kind |-> "request", approval |-> p]
      BY <1>4, <2>1 DEF ev
    <3> QED BY <3>1 DEF Reachable
  <2>2. CASE p \in pending
    BY <1>1, <1>4, <2>2 DEF Reachable
  <2> QED BY <1>1, <2>1, <2>2
<1>13. Sticks
  BY <1>1, NoAnswer
<1> QED BY <1>7, <1>8, <1>9, <1>10, <1>11, <1>12, <1>13, TypePartsNext DEF Kept, IInv

LEMMA CallsTool ==
  ASSUME IInv, NEW r \in Runs, NEW tool, NEW callId \in CallIds, NEW args,
         executeProjectTool(r, tool, callId, args)
  PROVE  Kept
<1>1. r \notin aborted /\ outcome[r] # "asking" /\ UNCHANGED <<store, sessions, aborted>>
  BY DEF executeProjectTool
<1>2. ASSUME NEW how \in Outcomes \ {"asking"}, Finish(r, how),
             UNCHANGED <<once, credit, pending, asked, window>>
      PROVE  Kept
  <2>1. UNCHANGED <<pending, asked, window>> /\ UNCHANGED <<once, credit>>
    BY <1>2
  <2> QED BY <1>1, <1>2, <2>1, CallEnds
<1>3. ASSUME NEW cap \in KnownCapability,
             checkPermission([run |-> r, callId |-> callId, cap |-> cap])
      PROVE  Kept
  <2> DEFINE key == [run |-> r, callId |-> callId, cap |-> cap]
             decision == resolvePermission(key.cap, ProjectOf[key.run])
  <2>1. key \in Key /\ key.run = r
    BY DEF Key
  <2>2. checkPermission(key)
    BY <1>3
  <2> HIDE DEF key
  <2>3. CASE key \in once
    <3>1. /\ once' = once \ {key} /\ credit' = [credit EXCEPT ![r] = @ - 1]
          /\ Finish(r, "acted") /\ UNCHANGED <<pending, asked, window>>
      BY <2>1, <2>2, <2>3 DEF checkPermission
    <3>2. "acted" \in Outcomes \ {"asking"}
      BY DEF Outcomes
    <3>3. \E k \in once : k.run = r /\ once' = once \ {k} /\ credit' = [credit EXCEPT ![r] = @ - 1]
      BY <2>1, <2>3, <3>1
    <3> QED BY <1>1, <3>1, <3>2, <3>3, CallEnds
  <2>4. CASE key \notin once /\ Ask(key)
    BY <1>1, <2>1, <2>4, CallAsks
  <2>5. CASE /\ Finish(r, IF decision = "ALLOW" THEN "acted" ELSE "denied")
             /\ UNCHANGED <<once, credit, pending, asked, window>>
    <3>1. (IF decision = "ALLOW" THEN "acted" ELSE "denied") \in Outcomes \ {"asking"}
      BY DEF Outcomes
    <3> QED BY <1>2, <2>5, <3>1
  <2> QED BY <2>1, <2>2, <2>3, <2>4, <2>5 DEF checkPermission
<1>4. \/ \E how \in {"malformed", "acted", "unknown"} :
           Finish(r, how) /\ UNCHANGED <<once, credit, pending, asked, window>>
      \/ \E cap \in KnownCapability :
           checkPermission([run |-> r, callId |-> callId, cap |-> cap])
  BY DEF executeProjectTool, isKnownCapability
<1>5. {"malformed", "acted", "unknown"} \subseteq Outcomes \ {"asking"}
  BY DEF Outcomes
<1> QED BY <1>2, <1>3, <1>4, <1>5

-----------------------------------------------------------------------------
(* The user answers, and the dialogs of the renderer.                      *)

\* What an answer allows: the policies keep their types, a grant for one call is
\* counted, and an answer for longer than that sticks.
LEMMA AppliesAnswer ==
  ASSUME IInv, NEW p \in pending, NEW action \in Action, applyApprovalAction(action, p.key)
  PROVE  /\ StoreOK' /\ once' \subseteq Key /\ credit' \in [Runs -> Int] /\ Counted'
         /\ action \in {"allow_session", "allow_project", "always_allow"} =>
              LET project == ProjectOf[p.key.run]
              IN  \/ resolvePermission(p.key.cap, project)' = "ALLOW"
                  \/ /\ action = "always_allow"
                     /\ project \in Projects
                     /\ p.key.cap \in DOMAIN overrides[project]
<1> DEFINE key     == p.key
           project == ProjectOf[key.run]
<1>1. /\ key \in Key /\ key.run \in Runs /\ key.cap \in KnownCapability
      /\ project \in Projects \union {NoProject}
  BY Facts, Fields, PermissionAssumption DEF MemoryOK
<1>2. /\ StoreOK /\ once \subseteq Key /\ credit \in [Runs -> Int] /\ Counted
      /\ IsFiniteSet(once) /\ OnceIsCounted
  BY Facts DEF MemoryOK, IInv
<1>3. "ALLOW_PROJECT" \in Policy /\ "ALWAYS_ALLOW" \in Policy
  BY DEF Policy
<1>4. policyToDecision("ALLOW_PROJECT") = "ALLOW" /\ policyToDecision("ALWAYS_ALLOW") = "ALLOW"
  BY DEF policyToDecision
<1>5. /\ \/ action = "deny" \/ action = "allow_once" \/ action = "allow_session"
         \/ action = "always_allow" \/ action = "allow_project"
      /\ applyApprovalAction(action, key)
  BY DEF Action
<1> DEFINE Result == /\ StoreOK' /\ once' \subseteq Key /\ credit' \in [Runs -> Int] /\ Counted'
                     /\ action \in {"allow_session", "allow_project", "always_allow"} =>
                          \/ resolvePermission(key.cap, project)' = "ALLOW"
                          \/ /\ action = "always_allow"
                             /\ project \in Projects
                             /\ key.cap \in DOMAIN overrides[project]
<1> SUFFICES Result
  OBVIOUS
<1> HIDE DEF key, project
<1>6. ASSUME UNCHANGED <<once, credit>>
      PROVE  once' \subseteq Key /\ credit' \in [Runs -> Int] /\ Counted'
  BY <1>2, <1>6, GrantsFrame
<1>7. CASE action = "deny"
  <2>1. UNCHANGED <<preset, globals, overrides, sessions>> /\ UNCHANGED <<once, credit>>
    BY <1>5, <1>7 DEF applyApprovalAction, store, grants
  <2>2. StoreOK'
    BY <1>2, <2>1 DEF StoreOK
  <2> QED BY <1>6, <1>7, <2>1, <2>2
<1>8. CASE action = "allow_once"
  <2>1. /\ once' = once \union {key} /\ credit' = [credit EXCEPT ![key.run] = @ + 1]
        /\ UNCHANGED <<preset, globals, overrides, sessions>>
    BY <1>5, <1>8 DEF applyApprovalAction, project, store
  <2>2. StoreOK'
    BY <1>2, <2>1 DEF StoreOK
  <2> DEFINE mine(q) == {k \in once : k.run = q}
             more(q) == {k \in once \union {key} : k.run = q}
  <2>3. /\ credit' \in [Runs -> Int] /\ credit'[key.run] = credit[key.run] + 1
        /\ \A q \in Runs : q # key.run => credit'[q] = credit[q]
    BY <1>1, <1>2, <2>1
  <2>4. \A q \in Runs : IsFiniteSet(mine(q)) /\ Cardinality(mine(q)) \in Nat
    BY <1>2, FS_Subset, FS_CardinalityType
  <2>5. more(key.run) = mine(key.run) \union {key}
    OBVIOUS
  <2>6. \A q \in Runs : q # key.run => more(q) = mine(q)
    OBVIOUS
  <2>7. \A q \in Runs : credit[q] \in Int /\ credit[q] >= Cardinality(mine(q))
    BY <1>2 DEF OnceIsCounted
  <2>8. IsFiniteSet(once') /\ once' \subseteq Key
    BY <1>1, <1>2, <2>1, FS_AddElement
  <2> HIDE DEF mine, more
  <2>9. \/ Cardinality(more(key.run)) = Cardinality(mine(key.run))
        \/ Cardinality(more(key.run)) = Cardinality(mine(key.run)) + 1
    <3>1. IsFiniteSet(mine(key.run))
      BY <1>1, <2>4
    <3> QED BY <2>5, <3>1, FS_AddElement
  <2>10. \A q \in Runs : credit'[q] >= Cardinality(more(q))
    <3> SUFFICES ASSUME NEW q \in Runs PROVE credit'[q] >= Cardinality(more(q))
      OBVIOUS
    <3>1. CASE q = key.run
      BY <1>1, <2>3, <2>4, <2>7, <2>9, <3>1
    <3>2. CASE q # key.run
      BY <2>3, <2>6, <2>7, <3>2
    <3> QED BY <3>1, <3>2
  <2>11. OnceIsCounted'
    BY <2>1, <2>10 DEF OnceIsCounted, more
  <2> QED BY <1>8, <2>2, <2>3, <2>8, <2>11 DEF Counted
<1>9. ASSUME NEW scope \in {project, Everywhere}, sessions' = sessions \union {<<key.cap, scope>>},
             UNCHANGED <<preset, globals, overrides>>
      PROVE  StoreOK' /\ resolvePermission(key.cap, project)' = "ALLOW"
  <2>1. <<key.cap, scope>> \in KnownCapability \X Scopes
    BY <1>1 DEF Scopes
  <2>2. sessions' \subseteq KnownCapability \X Scopes
    BY <1>2, <1>9, <2>1 DEF StoreOK
  <2>3. StoreOK'
    BY <1>2, <1>9, <2>2 DEF StoreOK
  <2>4. {<<key.cap, project>>, <<key.cap, Everywhere>>} \intersect sessions' # {}
    BY <1>9
  <2> QED BY <2>3, <2>4 DEF resolvePermission
<1>10. CASE action = "allow_session"
  <2>1. sessions' = sessions \union {<<key.cap, project>>} /\ UNCHANGED <<preset, globals, overrides>>
        /\ UNCHANGED <<once, credit>>
    BY <1>5, <1>10 DEF applyApprovalAction, project, store
  <2> QED BY <1>6, <1>9, <1>10, <2>1
<1>11. CASE action = "allow_project" /\ project \notin Projects
  <2>1. sessions' = sessions \union {<<key.cap, Everywhere>>}
        /\ UNCHANGED <<preset, globals, overrides>> /\ UNCHANGED <<once, credit>>
    BY <1>5, <1>11 DEF applyApprovalAction, project, store
  <2> QED BY <1>6, <1>9, <1>11, <2>1
<1>12. CASE action = "allow_project" /\ project \in Projects
  <2> DEFINE new == Put(overrides[project], key.cap, "ALLOW_PROJECT")
  <2>1. /\ overrides' = [overrides EXCEPT ![project] = new]
        /\ UNCHANGED <<preset, globals, sessions>> /\ UNCHANGED <<once, credit>>
    BY <1>5, <1>12 DEF applyApprovalAction, project, grants
  <2>2. /\ DOMAIN new \subseteq KnownCapability /\ \A c \in DOMAIN new : new[c] \in Policy
        /\ key.cap \in DOMAIN new /\ new[key.cap] = "ALLOW_PROJECT"
    <3>1. /\ DOMAIN overrides[project] \subseteq KnownCapability
          /\ \A c \in DOMAIN overrides[project] : overrides[project][c] \in Policy
      BY <1>2, <1>12 DEF StoreOK
    <3> QED BY <1>1, <1>3, <3>1, PutPolicy
  <2> HIDE DEF new
  <2>3. StoreOK' /\ overrides'[project] = new
    BY <1>2, <1>12, <2>1, <2>2, OverridesOf
  <2>4. resolvePermission(key.cap, project)' = "ALLOW"
    BY <1>4, <1>12, <2>2, <2>3 DEF resolvePermission
  <2> QED BY <1>6, <2>1, <2>3, <2>4
<1>13. CASE action = "always_allow"
  <2>1. /\ globals' = Put(globals, key.cap, "ALWAYS_ALLOW")
        /\ UNCHANGED <<preset, overrides, sessions>> /\ UNCHANGED <<once, credit>>
    BY <1>5, <1>13 DEF applyApprovalAction, project, grants
  <2>2. /\ DOMAIN globals' \subseteq KnownCapability
        /\ \A c \in DOMAIN globals' : globals'[c] \in Policy
        /\ key.cap \in DOMAIN globals' /\ globals'[key.cap] = "ALWAYS_ALLOW"
    BY <1>1, <1>2, <1>3, <2>1, PutPolicy DEF StoreOK
  <2>3. StoreOK'
    BY <1>2, <2>1, <2>2 DEF StoreOK
  <2>4. CASE project \in Projects /\ key.cap \in DOMAIN overrides[project]
    BY <1>6, <1>13, <2>1, <2>3, <2>4
  <2>5. CASE ~(project \in Projects /\ key.cap \in DOMAIN overrides[project])
    <3>1. resolvePermission(key.cap, project)' = "ALLOW"
      BY <1>4, <2>1, <2>2, <2>5 DEF resolvePermission
    <3> QED BY <1>6, <2>1, <2>3, <3>1
  <2> QED BY <2>4, <2>5
<1> QED BY <1>5, <1>7, <1>8, <1>10, <1>11, <1>12, <1>13

LEMMA Answers ==
  ASSUME IInv, NEW answer \in answers, respondToApproval(answer)
  PROVE  Kept
<1>1. /\ answers' = answers \ {answer} /\ asked' = asked /\ channel' = channel
      /\ dialogs' = dialogs /\ aborted' = aborted
  BY DEF respondToApproval
<1>2. /\ answer \in [id : 1..MaxAsks, action : Action] /\ answer.action \in Action
      /\ answer = [id |-> answer.id, action |-> answer.action]
  <2>1. answer \in [id : 1..MaxAsks, action : Action]
    BY Facts DEF MemoryOK
  <2> QED BY <2>1
\* The question is the one this answer names, and is nowhere else.
<1>3. OnePlace'
  BY <1>1, Facts DEF OnePlace, IsRequest
<1>4. ASSUME pending' \subseteq pending, \A p \in pending' : p.id # answer.id,
             \A p \in pending : p \notin pending' => p.id = answer.id
      PROVE  Going' /\ QuestionsStay
  <2>1. \A c \in DOMAIN channel : IsRequest(c) => channel[c].approval.id # answer.id
    BY Facts DEF OnePlace
  <2>2. \A d \in DOMAIN dialogs : dialogs[d].id # answer.id
    BY Facts DEF OnePlace
  <2>3. Going'
    BY <1>1, <1>4, <2>1, <2>2, Facts DEF Going, IsRequest
  <2>4. QuestionsStay
    BY <1>1, <1>4 DEF QuestionsStay, Reachable
  <2> QED BY <2>3, <2>4
<1>5. CASE /\ \A p \in pending : p.id # answer.id
           /\ UNCHANGED <<pending, outcome, store, grants, credit>>
  <2>1. /\ pending' = pending /\ outcome' = outcome /\ UNCHANGED <<once, credit>>
        /\ UNCHANGED <<preset, globals, overrides, sessions>>
    BY <1>5 DEF store, grants
  <2>2. Going' /\ QuestionsStay
    BY <1>4, <1>5, <2>1
  <2>3. Questions' /\ Counted'
    BY <1>1, <2>1, GrantsFrame, Facts DEF Questions
  <2>4. StoreOK' /\ MemoryOK'
    BY <1>1, <2>1, Facts DEF StoreOK, MemoryOK
  <2>5. Sticks
    BY <2>1 DEF Sticks
  <2> QED BY <1>3, <2>2, <2>3, <2>4, <2>5, TypePartsNext DEF Kept, IInv
<1>6. ASSUME NEW p \in pending, p.id = answer.id, pending' = pending \ {p},
             applyApprovalAction(answer.action, p.key),
             Finish(p.key.run, IF answer.action = "deny" THEN "denied" ELSE "acted")
      PROVE  Kept
  <2>1. /\ p \in Approval /\ p.key.run \in Runs
        /\ \A q \in pending : q \in Approval /\ q.key.run \in Runs
    BY Facts, Fields DEF MemoryOK
  <2>2. \A q \in pending : q # p => q.id # p.id /\ q.key.run # p.key.run
    BY Facts DEF Questions
  <2>3. Going' /\ QuestionsStay
    BY <1>4, <1>6, <2>2
  <2> DEFINE how == IF answer.action = "deny" THEN "denied" ELSE "acted"
  <2>4. how \in Outcomes /\ how # "asking"
    BY DEF Outcomes
  <2> HIDE DEF how
  <2>5. /\ outcome' \in [Runs -> Outcomes] /\ outcome'[p.key.run] = how
        /\ \A q \in Runs : q # p.key.run => outcome'[q] = outcome[q]
    BY <1>6, <2>1, <2>4, Facts DEF MemoryOK, Finish, how
  <2>6. Questions'
    <3>1. \A r \in aborted \ TaskRuns : outcome'[r] # "asking"
      BY <2>4, <2>5, Facts DEF Questions, MemoryOK
    <3> QED BY <1>1, <1>6, <2>1, <2>2, <2>5, <3>1, Facts DEF Questions
  <2>7. /\ StoreOK' /\ once' \subseteq Key /\ credit' \in [Runs -> Int] /\ Counted'
        /\ answer.action \in {"allow_session", "allow_project", "always_allow"} =>
             LET project == ProjectOf[p.key.run]
             IN  \/ resolvePermission(p.key.cap, project)' = "ALLOW"
                 \/ /\ answer.action = "always_allow"
                    /\ project \in Projects
                    /\ p.key.cap \in DOMAIN overrides[project]
    BY <1>2, <1>6, AppliesAnswer
  <2>8. MemoryOK'
    <3>1. pending' \subseteq Approval /\ answers' \subseteq [id : 1..MaxAsks, action : Action]
      BY <1>1, <1>6, Facts DEF MemoryOK
    <3> QED BY <1>1, <2>5, <2>7, <3>1, Facts DEF MemoryOK
  <2>9. Sticks
    <3> SUFFICES ASSUME NEW q \in pending \ pending',
                        NEW action \in {"allow_session", "allow_project", "always_allow"},
                        [id |-> q.id, action |-> action] \in answers \ answers'
                 PROVE  LET project == ProjectOf[q.key.run]
                        IN  \/ resolvePermission(q.key.cap, project)' = "ALLOW"
                            \/ /\ action = "always_allow"
                               /\ project \in Projects
                               /\ q.key.cap \in DOMAIN overrides[project]
      BY DEF Sticks
    <3>1. q = p /\ [id |-> q.id, action |-> action] = answer
      BY <1>1, <1>6
    <3>2. action = answer.action
      BY <3>1
    <3> QED BY <2>7, <3>1, <3>2
  <2> QED BY <1>3, <2>3, <2>6, <2>7, <2>8, <2>9, TypePartsNext DEF Kept, IInv
<1> QED BY <1>5, <1>6 DEF respondToApproval

\* The event shown is gone, and the others move up by one.
LEMMA Moves ==
  ASSUME IInv, channel # <<>>, channel' = Tail(channel)
  PROVE  /\ channel \in Seq(Event) /\ channel' \in Seq(Event)
         /\ 1 \in DOMAIN channel /\ Head(channel) = channel[1] /\ channel[1] \in Event
         /\ \A c \in DOMAIN channel' :
              c \in Int /\ c + 1 \in DOMAIN channel /\ c + 1 # 1 /\ channel'[c] = channel[c + 1]
         /\ \A c \in DOMAIN channel : c # 1 =>
              c \in Int /\ c - 1 \in DOMAIN channel' /\ channel'[c - 1] = channel[c]
<1>1. channel \in Seq(Event) /\ channel # <<>>
  BY Facts DEF MemoryOK
<1>2. /\ channel' \in Seq(Event) /\ Len(channel) \in Nat /\ Len(channel) >= 1
      /\ DOMAIN channel = 1..Len(channel) /\ DOMAIN channel' = 1..(Len(channel) - 1)
      /\ Head(channel) = channel[1]
      /\ \A c \in 1..(Len(channel) - 1) : channel'[c] = channel[c + 1]
  BY <1>1
<1>3. 1 \in DOMAIN channel /\ channel[1] \in Event
  BY <1>1, <1>2
<1>4. \A c \in DOMAIN channel' :
        c \in Int /\ c + 1 \in DOMAIN channel /\ c + 1 # 1 /\ channel'[c] = channel[c + 1]
  BY <1>2
<1>5. \A c \in DOMAIN channel : c # 1 =>
        c \in Int /\ c - 1 \in DOMAIN channel' /\ channel'[c - 1] = channel[c]
  <2> SUFFICES ASSUME NEW c \in DOMAIN channel, c # 1
               PROVE  c \in Int /\ c - 1 \in DOMAIN channel' /\ channel'[c - 1] = channel[c]
    OBVIOUS
  <2>1. c \in Int /\ c - 1 \in 1..(Len(channel) - 1) /\ (c - 1) + 1 = c
    BY <1>2
  <2> QED BY <1>2, <2>1
<1> QED BY <1>1, <1>2, <1>3, <1>4, <1>5

\* The dialogs that stay are those of the other approvals, each once.
LEMMA WithoutKeeps ==
  ASSUME IInv, NEW approval, NEW left \in Without(approval)
  PROVE  /\ left \in Seq(Approval)
         /\ \A d \in DOMAIN left : \E e \in DOMAIN dialogs :
              left[d] = dialogs[e] /\ dialogs[e] # approval
         /\ \A d, e \in DOMAIN left : left[d].id = left[e].id => d = e
         /\ \A e \in DOMAIN dialogs : dialogs[e] # approval =>
              \E d \in DOMAIN left : left[d] = dialogs[e]
<1> DEFINE others == {d \in DOMAIN dialogs : dialogs[d] # approval}
           n      == Cardinality(others)
<1>1. PICK at \in [1..n -> others] :
        /\ \A j, k \in DOMAIN at : j < k => at[j] < at[k]
        /\ left = [k \in 1..n |-> dialogs[at[k]]]
  BY DEF Without
<1>2. dialogs \in Seq(Approval) /\ Len(dialogs) \in Nat /\ DOMAIN dialogs = 1..Len(dialogs)
  BY Facts DEF MemoryOK
<1>3. IsFiniteSet(others) /\ n \in Nat
  <2>1. IsFiniteSet(DOMAIN dialogs)
    BY <1>2, FS_Interval
  <2>2. IsFiniteSet(others)
    BY <2>1, FS_Subset
  <2> QED BY <2>2, FS_CardinalityType
<1>4. \A k \in others : /\ k \in Nat /\ k \in DOMAIN dialogs
                         /\ dialogs[k] \in Approval /\ dialogs[k] # approval
  BY <1>2
<1>5. \A e \in DOMAIN dialogs : dialogs[e] # approval => e \in others
  OBVIOUS
<1> HIDE DEF others
<1>6. \A j, k \in 1..n : at[j] = at[k] => j = k
  <2> SUFFICES ASSUME NEW j \in 1..n, NEW k \in 1..n, j # k PROVE at[j] # at[k]
    OBVIOUS
  <2>1. at[j] \in Nat /\ at[k] \in Nat
    BY <1>1, <1>4
  <2>2. (j < k => at[j] < at[k]) /\ (k < j => at[k] < at[j])
    BY <1>1
  <2> QED BY <1>3, <2>1, <2>2
<1>7. at \in Injection(1..n, others)
  BY <1>1, <1>6 DEF Injection, IsInjective
<1>8. at \in Surjection(1..n, others)
  <2>1. IsFiniteSet(1..n) /\ Cardinality(1..n) = n
    BY <1>3, FS_Interval
  <2>2. Cardinality(1..n) = Cardinality(others) <=> at \in Surjection(1..n, others)
    BY <1>3, <1>7, FS_Injection
  <2> QED BY <2>1, <2>2
<1>9. \A x \in others : \E k \in 1..n : at[k] = x
  BY <1>8 DEF Surjection
<1>10. DOMAIN left = 1..n /\ \A k \in 1..n : left[k] = dialogs[at[k]] /\ at[k] \in others
  BY <1>1
<1> HIDE DEF n
<1>11. left \in Seq(Approval)
  <2>1. left \in [1..n -> Approval]
    BY <1>1, <1>4
  <2> QED BY <1>3, <2>1
<1>12. \A d \in DOMAIN left : \E e \in DOMAIN dialogs :
         left[d] = dialogs[e] /\ dialogs[e] # approval
  BY <1>4, <1>10
<1>13. \A d, e \in DOMAIN left : left[d].id = left[e].id => d = e
  BY <1>4, <1>6, <1>10, Facts DEF OnePlace
<1>14. \A e \in DOMAIN dialogs : dialogs[e] # approval =>
         \E d \in DOMAIN left : left[d] = dialogs[e]
  BY <1>5, <1>9, <1>10
<1> QED BY <1>11, <1>12, <1>13, <1>14

\* What only the window does leaves the main process alone.
LEMMA WindowActs ==
  ASSUME IInv, UNCHANGED <<store, grants, pending, asked, outcome, aborted, credit>>,
         channel' \in Seq(Event), dialogs' \in Seq(Approval),
         answers \subseteq answers', answers' \subseteq [id : 1..MaxAsks, action : Action],
         OnePlace', Going', reload \/ QuestionsStay
  PROVE  Kept
<1>1. /\ pending' = pending /\ asked' = asked /\ outcome' = outcome /\ aborted' = aborted
      /\ UNCHANGED <<once, credit>> /\ UNCHANGED <<preset, globals, overrides, sessions>>
  BY DEF store, grants
<1>2. StoreOK' /\ MemoryOK'
  BY <1>1, Facts DEF StoreOK, MemoryOK
<1>3. Questions' /\ Counted'
  BY <1>1, GrantsFrame, Facts DEF Questions
<1>4. Sticks
  BY NoAnswer
<1> QED BY <1>2, <1>3, <1>4, TypePartsNext DEF Kept, IInv

LEMMA Shows ==
  ASSUME IInv, showApproval
  PROVE  Kept
<1> DEFINE first == channel[1].approval
<1>1. /\ channel # <<>> /\ channel' = Tail(channel)
      /\ IF Head(channel).kind = "cancelled" THEN dialogs' \in Without(Head(channel).approval)
         ELSE dialogs' = Append(dialogs, Head(channel).approval)
      /\ answers' = answers /\ pending' = pending /\ asked' = asked
      /\ UNCHANGED <<store, grants, pending, asked, outcome, aborted, credit>>
  BY DEF showApproval
<1>2. /\ channel \in Seq(Event) /\ channel' \in Seq(Event)
      /\ 1 \in DOMAIN channel /\ Head(channel) = channel[1] /\ channel[1] \in Event
      /\ \A c \in DOMAIN channel' :
           c \in Int /\ c + 1 \in DOMAIN channel /\ c + 1 # 1 /\ channel'[c] = channel[c + 1]
      /\ \A c \in DOMAIN channel : c # 1 =>
           c \in Int /\ c - 1 \in DOMAIN channel' /\ channel'[c - 1] = channel[c]
  BY <1>1, Moves
<1>3. /\ first \in Approval /\ channel[1].kind \in {"request", "cancelled"}
      /\ \A c \in DOMAIN channel : channel[c].kind \in {"request", "cancelled"}
  BY <1>2, Fields
\* What the channel still holds is as it was.
<1>4. /\ \A c \in DOMAIN channel' : channel'[c].approval.id <= asked
      /\ \A c, e \in DOMAIN channel' :
           IsRequest(c)' /\ IsRequest(e)' /\ channel'[c].approval.id = channel'[e].approval.id => c = e
      /\ \A c \in DOMAIN channel' : IsRequest(c)' =>
           /\ \A d \in DOMAIN dialogs : dialogs[d].id # channel'[c].approval.id
           /\ \A a \in answers : a.id # channel'[c].approval.id
      /\ \A c \in DOMAIN channel' : ~IsRequest(c)' => channel'[c].approval \notin pending
  <2>1. \A c \in DOMAIN channel' : IsRequest(c)' <=> IsRequest(c + 1)
    BY <1>2 DEF IsRequest
  <2>2. \A c \in DOMAIN channel' : channel'[c].approval.id <= asked
    BY <1>2, Facts DEF OnePlace
  <2>3. ASSUME NEW c \in DOMAIN channel', NEW e \in DOMAIN channel',
               IsRequest(c)', IsRequest(e)', channel'[c].approval.id = channel'[e].approval.id
        PROVE  c = e
    <3>1. c + 1 = e + 1
      BY <1>2, <2>1, <2>3, Facts DEF OnePlace
    <3> QED BY <1>2, <3>1
  <2>4. ASSUME NEW c \in DOMAIN channel', IsRequest(c)'
        PROVE  /\ \A d \in DOMAIN dialogs : dialogs[d].id # channel'[c].approval.id
               /\ \A a \in answers : a.id # channel'[c].approval.id
    <3>1. c + 1 \in DOMAIN channel /\ IsRequest(c + 1) /\ channel'[c] = channel[c + 1]
      BY <1>2, <2>1, <2>4
    <3>2. /\ \A d \in DOMAIN dialogs : dialogs[d].id # channel[c + 1].approval.id
          /\ \A a \in answers : a.id # channel[c + 1].approval.id
      BY <3>1, Facts DEF OnePlace
    <3> QED BY <3>1, <3>2
  <2>5. \A c \in DOMAIN channel' : ~IsRequest(c)' => channel'[c].approval \notin pending
    BY <1>2, <2>1, Facts DEF Going
  <2> QED BY <2>2, <2>3, <2>4, <2>5
<1>5. ASSUME NEW c \in DOMAIN channel', IsRequest(c)'
      PROVE  \/ channel'[c].approval \in pending
             \/ \E e \in DOMAIN channel' :
                  c < e /\ ~IsRequest(e)' /\ channel'[e].approval = channel'[c].approval
  <2>1. c + 1 \in DOMAIN channel /\ IsRequest(c + 1) /\ c \in Int /\ channel'[c] = channel[c + 1]
    BY <1>2, <1>5 DEF IsRequest
  <2>2. CASE channel[c + 1].approval \in pending
    BY <2>1, <2>2
  <2>3. ASSUME NEW e \in DOMAIN channel, c + 1 < e, ~IsRequest(e),
               channel[e].approval = channel[c + 1].approval
        PROVE  \E f \in DOMAIN channel' :
                 c < f /\ ~IsRequest(f)' /\ channel'[f].approval = channel'[c].approval
    <3>1. e \in Int /\ e # 1
      <4>1. e \in Int
        BY <1>2
      <4>2. c + 1 >= 1
        BY <1>2, <2>1
      <4> QED BY <2>1, <2>3, <4>1, <4>2
    <3>2. e - 1 \in DOMAIN channel' /\ channel'[e - 1] = channel[e] /\ c < e - 1
      BY <1>2, <2>1, <2>3, <3>1
    <3> QED BY <2>1, <2>3, <3>2 DEF IsRequest
  <2> QED BY <2>1, <2>2, <2>3, Facts DEF Going
\* A dialog that stays, and is not the one removed, still awaits its removal.
<1>6. ASSUME NEW a, \/ a \in pending
                    \/ \E e \in DOMAIN channel : ~IsRequest(e) /\ channel[e].approval = a,
             IsRequest(1) \/ a # first
      PROVE  \/ a \in pending
             \/ \E e \in DOMAIN channel' : ~IsRequest(e)' /\ channel'[e].approval = a
  <2>1. ASSUME NEW e \in DOMAIN channel, ~IsRequest(e), channel[e].approval = a
        PROVE  \E f \in DOMAIN channel' : ~IsRequest(f)' /\ channel'[f].approval = a
    <3>1. e # 1
      BY <1>6, <2>1 DEF first
    <3>2. e - 1 \in DOMAIN channel' /\ channel'[e - 1] = channel[e]
      BY <1>2, <3>1
    <3> QED BY <2>1, <3>2 DEF IsRequest
  <2> QED BY <1>6, <2>1
<1>7. dialogs \in Seq(Approval)
  BY Facts DEF MemoryOK
<1>8. CASE IsRequest(1)
  <2>1. dialogs' = Append(dialogs, first)
    BY <1>1, <1>2, <1>8 DEF IsRequest
  <2> HIDE DEF first
  <2> DEFINE last == Len(dialogs) + 1
  <2>2. /\ dialogs' \in Seq(Approval) /\ DOMAIN dialogs' = DOMAIN dialogs \union {last}
        /\ last \notin DOMAIN dialogs /\ dialogs'[last] = first
        /\ \A d \in DOMAIN dialogs : dialogs'[d] = dialogs[d]
    BY <1>3, <1>7, <2>1
  <2> HIDE DEF last
  <2>3. /\ first.id <= asked
        /\ \A d \in DOMAIN dialogs : dialogs[d].id # first.id
        /\ \A a \in answers : a.id # first.id
        /\ \A c \in DOMAIN channel' : IsRequest(c)' => channel'[c].approval.id # first.id
    <3>1. /\ first.id <= asked
          /\ \A d \in DOMAIN dialogs : dialogs[d].id # first.id
          /\ \A a \in answers : a.id # first.id
      BY <1>2, <1>8, Facts DEF OnePlace, first
    <3>2. ASSUME NEW c \in DOMAIN channel', IsRequest(c)' PROVE channel'[c].approval.id # first.id
      <4>1. /\ c + 1 \in DOMAIN channel /\ IsRequest(c + 1) /\ c + 1 # 1
            /\ channel'[c] = channel[c + 1]
        BY <1>2, <3>2 DEF IsRequest
      <4> QED BY <1>2, <1>8, <4>1, Facts DEF OnePlace, first
    <3> QED BY <3>1, <3>2
  <2>4. OnePlace'
    <3>1. \A d \in DOMAIN dialogs' : \/ d \in DOMAIN dialogs /\ dialogs'[d] = dialogs[d]
                                     \/ d = last /\ dialogs'[d] = first
      BY <2>2
    <3>2. \A d, e \in DOMAIN dialogs' : dialogs'[d].id = dialogs'[e].id => d = e
      BY <2>3, <3>1, Facts DEF OnePlace
    <3>3. /\ \A d \in DOMAIN dialogs' : dialogs'[d].id <= asked
          /\ \A d \in DOMAIN dialogs', a \in answers : a.id # dialogs'[d].id
      BY <2>3, <3>1, Facts DEF OnePlace
    <3>4. \A c \in DOMAIN channel' : IsRequest(c)' =>
            /\ \A d \in DOMAIN dialogs' : dialogs'[d].id # channel'[c].approval.id
            /\ \A a \in answers : a.id # channel'[c].approval.id
      BY <1>4, <2>3, <3>1
    <3> QED BY <1>1, <1>4, <3>2, <3>3, <3>4, Facts DEF OnePlace
  <2>5. Going'
    <3>1. \/ first \in pending
          \/ \E e \in DOMAIN channel : ~IsRequest(e) /\ channel[e].approval = first
      BY <1>2, <1>8, Facts DEF Going, first
    <3>2. \A d \in DOMAIN dialogs' :
            \/ dialogs'[d] \in pending
            \/ \E e \in DOMAIN channel : ~IsRequest(e) /\ channel[e].approval = dialogs'[d]
      BY <2>2, <3>1, Facts DEF Going
    <3>3. \A d \in DOMAIN dialogs' :
            \/ dialogs'[d] \in pending
            \/ \E e \in DOMAIN channel' : ~IsRequest(e)' /\ channel'[e].approval = dialogs'[d]
      BY <1>6, <1>8, <3>2
    <3> QED BY <1>1, <1>4, <1>5, <3>3 DEF Going
  <2>6. QuestionsStay
    <3> SUFFICES ASSUME NEW p \in pending, Reachable(p) PROVE Reachable(p)'
      BY <1>1 DEF QuestionsStay
    <3>1. ASSUME NEW d \in DOMAIN dialogs, dialogs[d] = p PROVE Reachable(p)'
      BY <2>2, <3>1 DEF Reachable
    <3>2. ASSUME NEW c \in DOMAIN channel, channel[c] = [kind |-> "request", approval |-> p]
          PROVE  Reachable(p)'
      <4>1. CASE c = 1
        BY <2>2, <3>2, <4>1 DEF Reachable, first
      <4>2. CASE c # 1
        <5>1. c - 1 \in DOMAIN channel' /\ channel'[c - 1] = channel[c]
          BY <1>2, <4>2
        <5> QED BY <3>2, <5>1 DEF Reachable
      <4> QED BY <4>1, <4>2
    <3>3. ASSUME NEW a \in answers, a.id = p.id PROVE Reachable(p)'
      BY <1>1, <3>3 DEF Reachable
    <3> QED BY <3>1, <3>2, <3>3 DEF Reachable
  <2>7. answers \subseteq answers' /\ answers' \subseteq [id : 1..MaxAsks, action : Action]
    BY <1>1, Facts DEF MemoryOK
  <2> QED BY <1>1, <1>2, <2>2, <2>4, <2>5, <2>6, <2>7, WindowActs
<1>9. CASE ~IsRequest(1)
  <2>1. dialogs' \in Without(first)
    BY <1>1, <1>2, <1>3, <1>9 DEF IsRequest
  <2>2. first \notin pending
    BY <1>2, <1>9, Facts DEF Going
  <2>3. /\ dialogs' \in Seq(Approval)
        /\ \A d \in DOMAIN dialogs' : \E e \in DOMAIN dialogs :
             dialogs'[d] = dialogs[e] /\ dialogs[e] # first
        /\ \A d, e \in DOMAIN dialogs' : dialogs'[d].id = dialogs'[e].id => d = e
        /\ \A e \in DOMAIN dialogs : dialogs[e] # first =>
             \E d \in DOMAIN dialogs' : dialogs'[d] = dialogs[e]
    <3> HIDE DEF first
    <3> QED BY <2>1, WithoutKeeps
  <2>4. OnePlace'
    <3>1. /\ \A d \in DOMAIN dialogs' : dialogs'[d].id <= asked
          /\ \A d \in DOMAIN dialogs', a \in answers : a.id # dialogs'[d].id
      BY <2>3, Facts DEF OnePlace
    <3>2. \A c \in DOMAIN channel' : IsRequest(c)' =>
            \A d \in DOMAIN dialogs' : dialogs'[d].id # channel'[c].approval.id
      BY <1>4, <2>3
    <3> QED BY <1>1, <1>4, <2>3, <3>1, <3>2, Facts DEF OnePlace
  <2>5. Going'
    <3>1. \A d \in DOMAIN dialogs' :
            /\ dialogs'[d] # first
            /\ \/ dialogs'[d] \in pending
               \/ \E e \in DOMAIN channel : ~IsRequest(e) /\ channel[e].approval = dialogs'[d]
      BY <2>3, Facts DEF Going
    <3>2. \A d \in DOMAIN dialogs' :
            \/ dialogs'[d] \in pending
            \/ \E e \in DOMAIN channel' : ~IsRequest(e)' /\ channel'[e].approval = dialogs'[d]
      BY <1>6, <3>1
    <3> QED BY <1>1, <1>4, <1>5, <3>2 DEF Going
  <2>6. QuestionsStay
    <3> SUFFICES ASSUME NEW p \in pending, Reachable(p) PROVE Reachable(p)'
      BY <1>1 DEF QuestionsStay
    <3>1. ASSUME NEW d \in DOMAIN dialogs, dialogs[d] = p PROVE Reachable(p)'
      <4>1. \E e \in DOMAIN dialogs' : dialogs'[e] = p
        BY <2>2, <2>3, <3>1
      <4> QED BY <4>1 DEF Reachable
    <3>2. ASSUME NEW c \in DOMAIN channel, channel[c] = [kind |-> "request", approval |-> p]
          PROVE  Reachable(p)'
      <4>1. c # 1
        BY <1>9, <3>2 DEF IsRequest
      <4>2. c - 1 \in DOMAIN channel' /\ channel'[c - 1] = channel[c]
        BY <1>2, <4>1
      <4> QED BY <3>2, <4>2 DEF Reachable
    <3>3. ASSUME NEW a \in answers, a.id = p.id PROVE Reachable(p)'
      BY <1>1, <3>3 DEF Reachable
    <3> QED BY <3>1, <3>2, <3>3 DEF Reachable
  <2>7. answers \subseteq answers' /\ answers' \subseteq [id : 1..MaxAsks, action : Action]
    BY <1>1, Facts DEF MemoryOK
  <2> QED BY <1>1, <1>2, <2>3, <2>4, <2>5, <2>6, <2>7, WindowActs
<1> QED BY <1>8, <1>9

LEMMA Responds ==
  ASSUME IInv, NEW action \in Action, handleApprovalResponse(action)
  PROVE  Kept
<1> DEFINE given == [id |-> Head(dialogs).id, action |-> action]
<1>1. /\ dialogs # <<>> /\ dialogs' = Tail(dialogs) /\ answers' = answers \union {given}
      /\ channel' = channel /\ pending' = pending /\ asked' = asked
      /\ UNCHANGED <<store, grants, pending, asked, outcome, aborted, credit>>
  BY DEF handleApprovalResponse
<1>2. /\ dialogs \in Seq(Approval) /\ channel \in Seq(Event)
      /\ answers \subseteq [id : 1..MaxAsks, action : Action]
  BY Facts DEF MemoryOK
<1>3. /\ dialogs' \in Seq(Approval) /\ 1 \in DOMAIN dialogs /\ Head(dialogs) = dialogs[1]
      /\ dialogs[1] \in Approval
      /\ \A d \in DOMAIN dialogs' :
           d \in Int /\ d + 1 \in DOMAIN dialogs /\ d + 1 # 1 /\ dialogs'[d] = dialogs[d + 1]
  <2>1. /\ dialogs' \in Seq(Approval) /\ Len(dialogs) \in Nat /\ Len(dialogs) >= 1
        /\ DOMAIN dialogs = 1..Len(dialogs) /\ DOMAIN dialogs' = 1..(Len(dialogs) - 1)
        /\ Head(dialogs) = dialogs[1]
        /\ \A d \in 1..(Len(dialogs) - 1) : dialogs'[d] = dialogs[d + 1]
    BY <1>1, <1>2
  <2> QED BY <1>2, <2>1
<1>4. \A d \in DOMAIN dialogs : d # 1 => \E e \in DOMAIN dialogs' : dialogs'[e] = dialogs[d]
  <2> SUFFICES ASSUME NEW d \in DOMAIN dialogs, d # 1
               PROVE  d - 1 \in DOMAIN dialogs' /\ dialogs'[d - 1] = dialogs[d]
    OBVIOUS
  <2> QED BY <1>1, <1>2
<1>5. given \in [id : 1..MaxAsks, action : Action] /\ given.id = dialogs[1].id
  BY <1>3, Fields
<1> HIDE DEF given
<1>6. OnePlace'
  <2>1. /\ \A c \in DOMAIN channel : IsRequest(c) => channel[c].approval.id # given.id
        /\ \A d \in DOMAIN dialogs' : dialogs'[d].id # given.id
        /\ given.id <= asked
    <3>1. \A c \in DOMAIN channel : IsRequest(c) => channel[c].approval.id # given.id
      BY <1>3, <1>5, Facts DEF OnePlace
    <3>2. given.id <= asked
      BY <1>3, <1>5, Facts DEF OnePlace
    <3>3. ASSUME NEW d \in DOMAIN dialogs' PROVE dialogs'[d].id # given.id
      <4>1. d + 1 \in DOMAIN dialogs /\ d + 1 # 1 /\ dialogs'[d] = dialogs[d + 1]
        BY <1>3
      <4> QED BY <1>3, <1>5, <4>1, Facts DEF OnePlace
    <3> QED BY <3>1, <3>2, <3>3
  <2>2. ASSUME NEW d \in DOMAIN dialogs', NEW e \in DOMAIN dialogs', dialogs'[d].id = dialogs'[e].id
        PROVE  d = e
    <3>1. d + 1 = e + 1
      BY <1>3, <2>2, Facts DEF OnePlace
    <3> QED BY <1>3, <3>1
  <2>3. \A d \in DOMAIN dialogs' : \E e \in DOMAIN dialogs : dialogs'[d] = dialogs[e]
    BY <1>3
  <2>4. /\ \A d \in DOMAIN dialogs' : dialogs'[d].id <= asked
        /\ \A d \in DOMAIN dialogs', a \in answers : a.id # dialogs'[d].id
        /\ \A c \in DOMAIN channel : IsRequest(c) =>
             \A d \in DOMAIN dialogs' : dialogs'[d].id # channel[c].approval.id
    BY <2>3, Facts DEF OnePlace
  <2>5. \A a \in answers' : a \in answers \/ a = given
    BY <1>1
  <2>6. /\ \A a \in answers' : a.id <= asked
        /\ \A d \in DOMAIN dialogs', a \in answers' : a.id # dialogs'[d].id
        /\ \A c \in DOMAIN channel : IsRequest(c) =>
             \A a \in answers' : a.id # channel[c].approval.id
    BY <2>1, <2>4, <2>5, Facts DEF OnePlace
  <2> QED BY <1>1, <2>2, <2>4, <2>6, Facts DEF OnePlace, IsRequest
<1>7. Going'
  <2>1. \A d \in DOMAIN dialogs' : \E e \in DOMAIN dialogs : dialogs'[d] = dialogs[e]
    BY <1>3
  <2>2. \A d \in DOMAIN dialogs' :
          \/ dialogs'[d] \in pending
          \/ \E e \in DOMAIN channel : ~IsRequest(e) /\ channel[e].approval = dialogs'[d]
    BY <2>1, Facts DEF Going
  <2> QED BY <1>1, <2>2, Facts DEF Going, IsRequest
<1>8. QuestionsStay
  <2> SUFFICES ASSUME NEW p \in pending, Reachable(p) PROVE Reachable(p)'
    BY <1>1 DEF QuestionsStay
  <2>1. ASSUME NEW d \in DOMAIN dialogs, dialogs[d] = p PROVE Reachable(p)'
    <3>1. CASE d = 1
      BY <1>1, <1>5, <2>1, <3>1 DEF Reachable
    <3>2. CASE d # 1
      BY <1>4, <2>1, <3>2 DEF Reachable
    <3> QED BY <3>1, <3>2
  <2> QED BY <1>1, <2>1 DEF Reachable
<1>9. answers \subseteq answers' /\ answers' \subseteq [id : 1..MaxAsks, action : Action]
  BY <1>1, <1>2, <1>5
<1>10. channel' \in Seq(Event) /\ dialogs' \in Seq(Approval)
  BY <1>1, <1>2, <1>3
<1> QED BY <1>1, <1>6, <1>7, <1>8, <1>9, <1>10, WindowActs

LEMMA Reloads ==
  ASSUME IInv, reload
  PROVE  Kept
<1>1. /\ dialogs' = <<>> /\ channel' = <<>> /\ answers' = answers /\ asked' = asked
      /\ UNCHANGED <<store, grants, pending, asked, outcome, aborted, credit>>
  BY DEF reload
<1>2. dialogs' \in Seq(Approval) /\ channel' \in Seq(Event)
  BY <1>1
<1>3. DOMAIN dialogs' = {} /\ DOMAIN channel' = {}
  BY <1>1
<1>4. OnePlace' /\ Going'
  BY <1>1, <1>3, Facts DEF OnePlace, Going
<1>5. answers \subseteq answers' /\ answers' \subseteq [id : 1..MaxAsks, action : Action]
  BY <1>1, Facts DEF MemoryOK
<1> QED BY <1>1, <1>2, <1>4, <1>5, WindowActs

-----------------------------------------------------------------------------
(* Stop, and the end of the program.                                       *)

LEMMA Aborts ==
  ASSUME IInv, NEW r \in Runs, abortTaskStep(r)
  PROVE  Kept
<1>1. /\ r \in TaskRuns /\ aborted' = aborted \union {r} /\ UNCHANGED <<pending, asked, window>>
      /\ UNCHANGED <<once, credit>> /\ UNCHANGED <<preset, globals, overrides, sessions>>
      /\ outcome' = outcome
  BY DEF abortTaskStep, store, grants
<1>2. /\ pending' = pending /\ asked' = asked /\ channel' = channel /\ dialogs' = dialogs
      /\ answers' = answers
  BY <1>1 DEF window
<1>3. StoreOK' /\ MemoryOK'
  BY <1>1, <1>2, Facts DEF StoreOK, MemoryOK
<1>4. Questions' /\ Counted'
  BY <1>1, <1>2, GrantsFrame, Facts DEF Questions
<1> QED BY <1>1, <1>3, <1>4, WindowFrame, TypePartsNext DEF Kept, IInv

LEMMA Stops ==
  ASSUME IInv, NEW r \in Runs, Stop(r)
  PROVE  Kept
<1> DEFINE mine == {p \in pending : p.key.run = r}
           gone == CHOOSE p \in mine : TRUE
           ev   == [kind |-> "cancelled", approval |-> gone]
           last == Len(channel) + 1
<1>1. /\ aborted' = aborted \union {r} /\ pending' = pending \ mine
      /\ channel' = IF mine = {} THEN channel ELSE Append(channel, ev)
      /\ outcome' = [outcome EXCEPT ![r] = IF @ = "asking" THEN "withdrawn" ELSE @]
      /\ asked' = asked /\ dialogs' = dialogs /\ answers' = answers
      /\ UNCHANGED <<once, credit>> /\ UNCHANGED <<preset, globals, overrides, sessions>>
  BY DEF Stop, Withdraw, store, grants
<1>2. /\ outcome' \in [Runs -> Outcomes] /\ outcome'[r] # "asking"
      /\ \A q \in Runs : q # r => outcome'[q] = outcome[q]
  <2>1. outcome \in [Runs -> Outcomes] /\ "withdrawn" \in Outcomes
    BY Facts DEF MemoryOK, Outcomes
  <2>2. /\ outcome'[r] = IF outcome[r] = "asking" THEN "withdrawn" ELSE outcome[r]
        /\ \A q \in Runs : q # r => outcome'[q] = outcome[q]
        /\ outcome' \in [Runs -> Outcomes]
    BY <1>1, <2>1
  <2> QED BY <2>2
<1>3. /\ \A p \in pending : p \in Approval /\ p.key.run \in Runs
      /\ \A q \in aborted : q \in Runs
  BY Facts, Fields DEF MemoryOK
<1>4. Questions'
  <2>1. \A p \in pending' : p \in pending /\ p.key.run # r
    BY <1>1
  <2>2. \A q \in aborted' \ TaskRuns : outcome'[q] # "asking"
    BY <1>1, <1>2, <1>3, Facts DEF Questions
  <2> QED BY <1>1, <1>2, <1>3, <2>1, <2>2, Facts DEF Questions
<1>5. Counted' /\ Sticks
  BY <1>1, GrantsFrame, NoAnswer
<1>6. StoreOK'
  BY <1>1, Facts DEF StoreOK
<1>7. ASSUME channel' \in Seq(Event) PROVE MemoryOK'
  <2>1. pending' \subseteq Approval /\ aborted' \subseteq Runs
    BY <1>1, <1>3
  <2> QED BY <1>1, <1>2, <1>7, <2>1, Facts DEF MemoryOK
<1>8. CASE mine = {}
  <2>1. channel' = channel /\ pending' = pending
    BY <1>1, <1>8
  <2>2. OnePlace' /\ Going' /\ QuestionsStay
    BY <1>1, <2>1, WindowFrame DEF window
  <2>3. MemoryOK'
    BY <1>7, <2>1, Facts DEF MemoryOK
  <2> QED BY <1>4, <1>5, <1>6, <2>2, <2>3, TypePartsNext DEF Kept, IInv
<1>9. CASE mine # {}
  \* The one question of the run is withdrawn.
  <2>1. gone \in mine /\ gone \in pending /\ \A p \in mine : p = gone
    BY <1>9, Facts DEF Questions
  <2>2. /\ pending' = pending \ {gone} /\ channel' = Append(channel, ev) /\ gone \in Approval
        /\ gone.id \in Nat /\ gone.id <= asked
    BY <1>1, <1>3, <1>9, <2>1, Fields, Facts DEF Questions
  <2>3. ev \in Event /\ ev.kind = "cancelled" /\ ev.approval = gone
    BY <2>2 DEF Event
  <2> HIDE DEF mine, gone, ev
  <2>4. /\ channel' \in Seq(Event) /\ DOMAIN channel' = DOMAIN channel \union {last}
        /\ last \notin DOMAIN channel /\ channel'[last] = ev
        /\ \A c \in DOMAIN channel : channel'[c] = channel[c] /\ c < last
    BY <2>2, <2>3, Facts DEF MemoryOK
  <2> HIDE DEF last
  <2>5. \A c \in DOMAIN channel' : \/ c \in DOMAIN channel /\ channel'[c] = channel[c]
                                   \/ c = last /\ channel'[c] = ev
    BY <2>4
  <2>6. /\ \A c \in DOMAIN channel : IsRequest(c)' <=> IsRequest(c)
        /\ \A c \in DOMAIN channel' : c = last => ~IsRequest(c)'
    BY <2>3, <2>4 DEF IsRequest
  <2>7. OnePlace'
    <3>1. \A c \in DOMAIN channel' : channel'[c].approval.id <= asked
      BY <2>2, <2>3, <2>5, Facts DEF OnePlace
    <3>2. \A c \in DOMAIN channel' : IsRequest(c)' =>
            c \in DOMAIN channel /\ IsRequest(c) /\ channel'[c] = channel[c]
      BY <2>5, <2>6
    <3> QED BY <1>1, <3>1, <3>2, Facts DEF OnePlace
  <2>8. Going'
    <3>1. \A c \in DOMAIN channel' : ~IsRequest(c)' => channel'[c].approval \notin pending'
      BY <2>2, <2>3, <2>5, <2>6, Facts DEF Going
    <3>2. ASSUME NEW c \in DOMAIN channel', IsRequest(c)'
          PROVE  \/ channel'[c].approval \in pending'
                 \/ \E e \in DOMAIN channel' :
                      c < e /\ ~IsRequest(e)' /\ channel'[e].approval = channel'[c].approval
      <4>1. c \in DOMAIN channel /\ IsRequest(c) /\ channel'[c] = channel[c] /\ c < last
        BY <2>4, <2>5, <2>6, <3>2
      <4>2. CASE channel[c].approval = gone
        BY <2>3, <2>4, <2>6, <4>1, <4>2
      <4>3. CASE channel[c].approval \in pending /\ channel[c].approval # gone
        BY <2>2, <4>1, <4>3
      <4>4. ASSUME NEW e \in DOMAIN channel, c < e, ~IsRequest(e),
                   channel[e].approval = channel[c].approval
            PROVE  \E f \in DOMAIN channel' :
                     c < f /\ ~IsRequest(f)' /\ channel'[f].approval = channel'[c].approval
        BY <2>4, <2>6, <4>1, <4>4
      <4> QED BY <4>1, <4>2, <4>3, <4>4, Facts DEF Going
    <3>3. \A d \in DOMAIN dialogs :
            \/ dialogs[d] \in pending'
            \/ \E e \in DOMAIN channel' : ~IsRequest(e)' /\ channel'[e].approval = dialogs[d]
      <4> SUFFICES ASSUME NEW d \in DOMAIN dialogs
                   PROVE  \/ dialogs[d] \in pending'
                          \/ \E e \in DOMAIN channel' :
                               ~IsRequest(e)' /\ channel'[e].approval = dialogs[d]
        OBVIOUS
      <4>1. CASE dialogs[d] = gone
        BY <2>3, <2>4, <2>6, <4>1
      <4>2. CASE dialogs[d] # gone
        BY <2>2, <2>4, <2>6, <4>2, Facts DEF Going
      <4> QED BY <4>1, <4>2
    <3> QED BY <1>1, <3>1, <3>2, <3>3 DEF Going
  <2>9. QuestionsStay
    BY <1>1, <2>2, <2>4 DEF QuestionsStay, Reachable
  <2>10. MemoryOK'
    BY <1>7, <2>4
  <2> QED BY <1>4, <1>5, <1>6, <2>7, <2>8, <2>9, <2>10, TypePartsNext DEF Kept, IInv
<1> QED BY <1>8, <1>9

\* Memory is empty, at the start and after a restart.
LEMMA Empty ==
  ASSUME StoreOK, asked \in 0..MaxAsks, sessions = {}, once = {}, pending = {}, channel = <<>>,
         dialogs = <<>>, answers = {}, aborted = {}, outcome = [r \in Runs |-> "none"],
         credit = [r \in Runs |-> 0]
  PROVE  IInv
<1>1. MemoryOK
  <2>1. /\ outcome \in [Runs -> Outcomes] /\ credit \in [Runs -> Int]
        /\ channel \in Seq(Event) /\ dialogs \in Seq(Approval)
    BY DEF Outcomes
  <2> QED BY <2>1 DEF MemoryOK
<1>2. DOMAIN dialogs = {} /\ DOMAIN channel = {}
  OBVIOUS
<1>3. Questions /\ OnePlace /\ Going
  BY <1>2 DEF Questions, OnePlace, Going
<1>4. Counted
  <2>1. IsFiniteSet({}) /\ Cardinality({}) = 0
    BY FS_EmptySet
  <2>2. \A r \in Runs : {k \in once : k.run = r} = {} /\ credit[r] = 0
    OBVIOUS
  <2> QED BY <2>1, <2>2 DEF Counted, OnceIsCounted
<1> QED BY <1>1, <1>3, <1>4, TypeParts DEF IInv

LEMMA Restarts ==
  ASSUME IInv, restart
  PROVE  Kept
<1>1. /\ preset' = preset /\ globals' = globals /\ overrides' = overrides /\ asked' = asked
      /\ sessions' = {} /\ once' = {} /\ pending' = {} /\ channel' = <<>> /\ dialogs' = <<>>
      /\ answers' = {} /\ aborted' = {} /\ outcome' = [r \in Runs |-> "none"]
      /\ credit' = [r \in Runs |-> 0]
  BY DEF restart, store
<1>2. StoreOK'
  BY <1>1, Facts DEF StoreOK
<1>3. MemoryOK'
  <2>1. /\ outcome' \in [Runs -> Outcomes] /\ credit' \in [Runs -> Int]
        /\ channel' \in Seq(Event) /\ dialogs' \in Seq(Approval)
    BY <1>1 DEF Outcomes
  <2> QED BY <1>1, <2>1, Facts DEF MemoryOK
<1>4. DOMAIN dialogs' = {} /\ DOMAIN channel' = {}
  BY <1>1
<1>5. Questions' /\ OnePlace' /\ Going'
  BY <1>1, <1>4 DEF Questions, OnePlace, Going
<1>6. Counted'
  <2>1. IsFiniteSet({}) /\ Cardinality({}) = 0
    BY FS_EmptySet
  <2>2. \A r \in Runs : {k \in once' : k.run = r} = {} /\ credit'[r] = 0
    BY <1>1
  <2> QED BY <1>1, <2>1, <2>2 DEF Counted, OnceIsCounted
<1>7. QuestionsStay /\ Sticks
  <2>1. \A p \in pending : p.key.run \in Runs
    BY Facts, Fields DEF MemoryOK
  <2>2. \A r \in Runs : outcome'[r] # "acted"
    BY <1>1
  <2> QED BY <1>1, <2>1, <2>2 DEF QuestionsStay, Sticks
<1> QED BY <1>2, <1>3, <1>5, <1>6, <1>7, TypePartsNext DEF Kept, IInv

-----------------------------------------------------------------------------
(* The theorems.                                                           *)

LEMMA Starts == Init => IInv
<1> SUFFICES ASSUME Init PROVE IInv
  OBVIOUS
<1>1. /\ preset = Unset /\ globals = <<>> /\ overrides = [p \in Projects |-> <<>>]
      /\ sessions = {} /\ once = {} /\ pending = {} /\ asked = 0 /\ channel = <<>>
      /\ dialogs = <<>> /\ answers = {} /\ outcome = [r \in Runs |-> "none"]
      /\ aborted = {} /\ credit = [r \in Runs |-> 0]
  BY DEF Init
<1>2. DOMAIN <<>> = {} /\ asked \in 0..MaxAsks
  BY <1>1, PermissionAssumption
<1>3. StoreOK
  BY <1>1, <1>2 DEF StoreOK
<1> QED BY <1>1, <1>2, <1>3, Empty

LEMMA Steps == IInv /\ Next => Kept
<1> SUFFICES ASSUME IInv, Next PROVE Kept
  OBVIOUS
<1>1. CASE Execute
  BY <1>1, CallsTool DEF Execute
<1>2. CASE Answer
  BY <1>2, Answers DEF Answer
<1>3. CASE Respond
  BY <1>3, Responds DEF Respond
<1>4. CASE Interrupt
  BY <1>4, Stops, Aborts DEF Interrupt
<1>5. CASE showApproval
  BY <1>5, Shows
<1>6. CASE reload
  BY <1>6, Reloads
<1>7. CASE restart
  BY <1>7, Restarts
<1>8. CASE ChangeSettings
  BY <1>8, ChangesSettings
<1> QED BY <1>1, <1>2, <1>3, <1>4, <1>5, <1>6, <1>7, <1>8 DEF Next

LEMMA Stutters == IInv /\ UNCHANGED vars => IInv'
<1> SUFFICES ASSUME IInv, UNCHANGED vars PROVE IInv'
  OBVIOUS
<1>1. /\ UNCHANGED <<pending, asked, window>> /\ UNCHANGED <<once, credit>>
      /\ UNCHANGED <<preset, globals, overrides, sessions>>
      /\ outcome' = outcome /\ aborted' = aborted
  BY DEF vars, store, grants
<1>2. /\ pending' = pending /\ asked' = asked /\ channel' = channel /\ dialogs' = dialogs
      /\ answers' = answers
  BY <1>1 DEF window
<1>3. StoreOK' /\ MemoryOK'
  BY <1>1, <1>2, Facts DEF StoreOK, MemoryOK
<1>4. Questions' /\ Counted'
  BY <1>1, <1>2, GrantsFrame, Facts DEF Questions
<1> QED BY <1>1, <1>3, <1>4, WindowFrame, TypePartsNext DEF IInv

\* Questions, their way to the user and back, and grants are in order in every state.
THEOREM Invariant == Spec => []IInv
<1>1. IInv /\ [Next]_vars => IInv'
  BY Steps, Stutters DEF Kept
<1> QED BY Starts, <1>1, PTL DEF Spec

\* The variables have their types.
THEOREM TypeCorrect == Spec => []TypeOK
<1>1. IInv => TypeOK
  BY DEF IInv
<1> QED BY Invariant, <1>1, PTL

\* cancelStream withdraws what its request asked, and the window drops the dialog.
LEMMA Withdrawn == IInv => StopWithdraws
<1> SUFFICES ASSUME IInv, NEW r \in aborted \ TaskRuns
             PROVE  /\ outcome[r] # "asking"
                    /\ \A p \in pending : p.key.run # r
                    /\ \A d \in DOMAIN dialogs : dialogs[d].key.run = r =>
                         \E c \in DOMAIN channel :
                           channel[c] = [kind |-> "cancelled", approval |-> dialogs[d]]
  BY DEF StopWithdraws
<1>1. outcome[r] # "asking" /\ \A p \in pending : p.key.run # r
  BY Facts DEF Questions
<1>2. ASSUME NEW d \in DOMAIN dialogs, dialogs[d].key.run = r
      PROVE  \E c \in DOMAIN channel :
               channel[c] = [kind |-> "cancelled", approval |-> dialogs[d]]
  <2>1. PICK c \in DOMAIN channel : ~IsRequest(c) /\ channel[c].approval = dialogs[d]
    BY <1>1, <1>2, Facts DEF Going
  <2>2. channel[c] \in [kind : {"request", "cancelled"}, approval : Approval]
    <3>1. channel[c] \in Event
      BY Facts DEF MemoryOK
    <3> QED BY <3>1 DEF Event
  <2>3. channel[c] = [kind |-> "cancelled", approval |-> dialogs[d]]
    BY <2>1, <2>2 DEF IsRequest
  <2> QED BY <2>3
<1> QED BY <1>1, <1>2

\* A request that was stopped has no open question, and a dialog it still shows
\* has its cancellation on the way.
THEOREM StopIsHeard == Spec => []StopWithdraws
BY Invariant, Withdrawn, PTL

\* No allow_once answer lets more than one later call through.
THEOREM OnceCounts == Spec => []OnceIsCounted
<1>1. IInv => OnceIsCounted
  BY Facts
<1> QED BY Invariant, <1>1, PTL

\* Nothing but a reload of the window takes an open question out of the user's reach.
THEOREM QuestionsKept == Spec => OnlyReloadLosesAQuestion
<1>1. IInv /\ [Next]_vars =>
        [reload \/ \A p \in pending' : (p \in pending => Reachable(p)) => Reachable(p)']_vars
  BY Steps DEF Kept, QuestionsStay
<1> QED BY Invariant, <1>1, PTL DEF Spec, OnlyReloadLosesAQuestion

\* After an answer for the session, the project or always, the capability is allowed,
\* but for a policy of the project above an answer for always.
THEOREM AnswersStick == Spec => AnswerSticks
<1>1. IInv /\ [Next]_vars => [Sticks]_vars
  BY Steps DEF Kept
<1> QED BY Invariant, <1>1, PTL DEF Spec, AnswerSticks, Sticks

=============================================================================
