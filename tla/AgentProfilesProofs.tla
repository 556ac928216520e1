------------------------ MODULE AgentProfilesProofs ------------------------
(***************************************************************************)
(* Proofs about AgentProfiles, for any profiles, functions under way and   *)
(* lives of the program.                                                   *)
(*                                                                         *)
(* A handler writes two files one after the other, each through a          *)
(* temporary file, and a kill may fall between any two of its steps.       *)
(* DiskOK says what the files give a launch at each of them.  That the     *)
(* set-up stays coherent depends on what the screens will still ask for:   *)
(* CallGood says that of every call under way, names and keys included,    *)
(* and ScreensOK of every form a call can be made from.                    *)
(***************************************************************************)
EXTENDS AgentProfiles, FiniteSetTheorems, WellFoundedInduction, TLAPS

-----------------------------------------------------------------------------
(* The inductive invariant.                                                *)

\* The stores a version of the program can have written.
Stores == [profiles : Seq(Record), agentConfig : Profile \union {NoProfile},
           appState : [onboardingComplete : BOOLEAN, agentConfigId : Profile \union {NoProfile},
                       default : Profile \union {NoProfile}]]

UniqueIds(s) == \A i, j \in DOMAIN s.profiles : s.profiles[i].id = s.profiles[j].id => i = j

AtMostOneDefault(s) ==
  \A i, j \in DOMAIN s.profiles : s.profiles[i].isDefault /\ s.profiles[j].isDefault => i = j

\* A store this version has in memory.
Good(s) == /\ s \in Stores
           /\ s.agentConfig = NoProfile \/ s.profiles # <<>>
           /\ UniqueIds(s)
           /\ AtMostOneDefault(s)
           /\ s.appState.default \in profileIds(s) \union {NoProfile}

\* Onboarding, once recorded, has left an agent and its key.
Configured(s, k) == s.appState.onboardingComplete =>
                      /\ s.appState.agentConfigId \in profileIds(s)
                      /\ s.appState.agentConfigId \in k \union deleted

Running == screen # "off"
Pending(f) == handler # <<>> /\ Head(handler) = rename(f)

\* What a file holds without the file it is first written to.
mainStore == migrate(recovered([disk.store EXCEPT !.tmp = Absent], emptyStore))
mainKeys == recovered([disk.keys EXCEPT !.tmp = Absent], {})

IsFile(file, contents) ==
  /\ file = [main |-> file.main, tmp |-> file.tmp]
  /\ \A part \in {file.main, file.tmp} :
       part \in {Absent, Torn} \/ (part = Whole(part.content) /\ part.content \in contents)

\* How memory, the two files and the handler under way stand to each other.
DiskOK ==
  /\ disk = [store |-> disk.store, keys |-> disk.keys]
  /\ IsFile(disk.store, Stores) /\ IsFile(disk.keys, SUBSET Profile)
  /\ Running =>
       /\ mainStore = acked.store
       /\ IF Pending("store") THEN disk.store.tmp = Whole(store)
          ELSE store = acked.store /\ (disk.store.main = Absent => disk.store.tmp = Absent)
       /\ IF Pending("keys") THEN disk.keys.tmp = Whole(keys) /\ mainKeys = acked.keys
          ELSE mainKeys = keys /\ (disk.keys.main = Absent => disk.keys.tmp = Absent)
  /\ ~Running => loadedStore \in {acked.store, store} /\ loadedKeys \in {acked.keys, keys}

\* What a handler has still to do; a profile is archived when its key is gone.
HandlerOK ==
  /\ \/ handler \in {<<>>, <<rename("store")>>, <<rename("keys")>>}
     \/ \E p \in Profile \ keys : handler \in {<<rename("keys"), archive(p)>>, <<archive(p)>>}
  /\ Running /\ handler = <<>> => acked.keys = keys
  /\ Pending("store") =>
       \A p \in keys, i \in DOMAIN acked.store.profiles, j \in DOMAIN store.profiles :
         acked.store.profiles[i].id = p /\ store.profiles[j].id = p
           /\ store.profiles[j].archived => acked.store.profiles[i].archived

MemoryOK ==
  /\ Good(store) /\ Good(acked.store)
  /\ keys \subseteq Profile /\ acked.keys \subseteq Profile
  /\ deleted \subseteq Profile
  /\ Configured(store, keys) /\ Configured(acked.store, keys)
  /\ Configured(acked.store, acked.keys)
  /\ Configured(loadedStore, loadedKeys)

OnProfile == {"save_profile", "save_config", "set_secret", "set_app_state", "delete",
              "set_default", "test", "verdict"}

\* Call j of a function, when the store has the profiles in names and those in secrets have
\* a key or are deleted: what it names is there, or an earlier call puts it there.
CallGood(f, j, names, secrets) ==
  /\ f[j].op \in OnProfile => f[j].profile \in Record /\ ~f[j].profile.archived
  /\ f[j].op = "set_default" => f[j].profile.id \in names
  /\ f[j].op = "set_app_state" =>
       /\ \/ f[j].profile.id \in names
          \/ \E i \in 1..(j-1) : f[i].op = "save_config" /\ f[i].profile.id = f[j].profile.id
       /\ \/ f[j].profile.id \in secrets
          \/ \E i \in 1..(j-1) : f[i].op = "set_secret" /\ f[i].profile.id = f[j].profile.id
  /\ f[j].op = "complete" => j = Len(f)

Completes(f) == \E j \in DOMAIN f : f[j].op = "complete"

FunctionGood(f, names, secrets) == /\ f \in Seq(Call) /\ f # <<>>
                                   /\ \A j \in DOMAIN f : CallGood(f, j, names, secrets)

FunctionsGood(fs, names, secrets) ==
  /\ fs \in Seq(Seq(Call))
  /\ \A i \in DOMAIN fs : FunctionGood(fs[i], names, secrets)
  /\ \A i, j \in DOMAIN fs : Completes(fs[i]) /\ Completes(fs[j]) => i = j

FunctionsOK == /\ FunctionsGood(functions, profileIds(store), keys \union deleted)
               /\ \A i \in DOMAIN functions :
                    Completes(functions[i]) => screen = "connect" /\ form.saving

Forms == [profile : Record \union {NoProfile}, isNew : BOOLEAN, status : Status,
          saving : BOOLEAN, testing : BOOLEAN]
OnForm == form.profile \in Record /\ ~form.profile.archived

\* What the screens show: forms hold a profile where they need one, lists name stored profiles.
ScreensOK ==
  /\ screen \in {"off", "welcome", "connect", "app"}
  /\ modal \in {"none", "profiles", "edit", "settings"}
  /\ modal # "none" => screen = "app"
  /\ ~Running => handler = <<>> /\ functions = <<>> /\ list = {} /\ form = NoForm
  /\ list \subseteq Record /\ ids(list) \subseteq profileIds(store)
  /\ \A record \in list : ~record.archived
  /\ form \in Forms
  /\ form.profile = NoProfile \/ OnForm
  /\ form.status # "none" \/ form.saving \/ modal \in {"edit", "settings"} => OnForm

IInv == MemoryOK /\ DiskOK /\ HandlerOK /\ FunctionsOK /\ ScreensOK
-----------------------------------------------------------------------------
(* Sequences *)

LEMMA Appended ==
  ASSUME NEW T, NEW q \in Seq(T), NEW e \in T
  PROVE  LET a == Append(q, e) IN
         /\ a \in Seq(T) /\ a # <<>> /\ Len(a) = Len(q) + 1
         /\ DOMAIN a = DOMAIN q \union {Len(q) + 1}
         /\ \A i \in DOMAIN q : a[i] = q[i]
         /\ a[Len(q) + 1] = e
  <1>1. Append(q, e) \in Seq(T) /\ Len(Append(q, e)) = Len(q) + 1
    OBVIOUS
  <1>2. Len(q) \in Nat /\ DOMAIN q = 1..Len(q) /\ DOMAIN Append(q, e) = 1..(Len(q) + 1)
    BY <1>1
  <1>3. DOMAIN Append(q, e) = DOMAIN q \union {Len(q) + 1}
    BY <1>2
  <1>4. \A i \in DOMAIN q : Append(q, e)[i] = q[i]
    BY <1>2
  <1>5. Append(q, e)[Len(q) + 1] = e
    OBVIOUS
  <1>6. Append(q, e) # <<>>
    BY <1>2, Len(Append(q, e)) # 0
  <1> QED BY <1>1, <1>3, <1>4, <1>5, <1>6

LEMMA Minimum ==
  ASSUME NEW S \in SUBSET Nat, S # {}
  PROVE  Min(S) \in S /\ \A y \in S : Min(S) <= y
  <1>1. PICK x \in S : \A y \in S : <<y, x>> \notin OpToRel(<, Nat)
    BY NatLessThanWellFounded, WFMin
  <1>2. \A y \in S : ~ (y < x)
    BY <1>1 DEF OpToRel
  <1>3. \A y \in S : x <= y
    BY <1>2
  <1> QED BY <1>3 DEF Min

LEMMA SequenceOf ==
  ASSUME NEW T, NEW n \in Nat, NEW f, DOMAIN f = 1..n, f = [i \in 1..n |-> f[i]],
         \A i \in 1..n : f[i] \in T
  PROVE  f \in Seq(T) /\ Len(f) = n
  <1>1. f \in [1..n -> T]
    OBVIOUS
  <1> QED BY <1>1
-----------------------------------------------------------------------------
(* Profiles in the store *)

LEMMA Identities ==
  ASSUME NEW s \in Stores
  PROVE  /\ profileIds(s) = {s.profiles[i].id : i \in DOMAIN s.profiles}
         /\ profileIds(s) \subseteq Profile
  <1>1. profileIds(s) = {r.id : r \in {s.profiles[i] : i \in DOMAIN s.profiles}}
    BY DEF profileIds, ids, Range
  <1>2. \A i \in DOMAIN s.profiles : s.profiles[i].id \in Profile
    <2>1. s.profiles \in Seq(Record)
      BY DEF Stores
    <2>2. \A i \in DOMAIN s.profiles : s.profiles[i] \in Record
      BY <2>1
    <2> QED BY <2>2 DEF Record
  <1>3. \A p : p \in profileIds(s) <=> \E i \in DOMAIN s.profiles : p = s.profiles[i].id
    BY <1>1
  <1> QED BY <1>2, <1>3

LEMMA WithProfiles ==
  ASSUME NEW s \in Stores, NEW records \in Seq(Record)
  PROVE  LET t == [s EXCEPT !.profiles = records] IN
         t \in Stores /\ t.profiles = records /\ t.agentConfig = s.agentConfig
           /\ t.appState = s.appState
  BY DEF Stores

LEMMA GetProfile ==
  ASSUME NEW s \in Stores, UniqueIds(s), NEW i \in DOMAIN s.profiles
  PROVE  getAgentProfile(s, s.profiles[i].id) = s.profiles[i]
  <1> DEFINE p == s.profiles[i].id
  <1>1. s.profiles[i] \in Range(s.profiles)
    BY DEF Range
  <1>2. \A r \in Range(s.profiles) : r.id = p => r = s.profiles[i]
    BY DEF Range, UniqueIds
  <1> QED BY <1>1, <1>2 DEF getAgentProfile

\* One record is written under its id: it replaces the one that is there, or is added.
LEMMA PutWrites ==
  ASSUME NEW s \in Stores, NEW record \in Record
  PROVE  LET t == put(s, record) IN
         /\ t \in Stores /\ t.agentConfig = s.agentConfig /\ t.appState = s.appState
         /\ DOMAIN s.profiles \subseteq DOMAIN t.profiles
         /\ \A i \in DOMAIN s.profiles : t.profiles[i].id = s.profiles[i].id
         /\ \A i \in DOMAIN t.profiles :
              \/ t.profiles[i] = record
              \/ /\ i \in DOMAIN s.profiles
                 /\ t.profiles[i] = s.profiles[i] /\ s.profiles[i].id # record.id
         /\ record.id \in profileIds(s) => DOMAIN t.profiles = DOMAIN s.profiles
         /\ record.id \notin profileIds(s) =>
              t.profiles = Append(s.profiles, record)
         /\ t.profiles # <<>>
  <1> DEFINE t == put(s, record)
  <1>0. s.profiles \in Seq(Record)
    BY DEF Stores
  <1>1. CASE record.id \in profileIds(s)
    <2> DEFINE records == [i \in DOMAIN s.profiles |-> IF s.profiles[i].id = record.id THEN record
                                                      ELSE s.profiles[i]]
    <2>1. t = [s EXCEPT !.profiles = records]
      BY <1>1 DEF put
    <2>2. records \in Seq(Record) /\ DOMAIN records = DOMAIN s.profiles
      BY <1>0
    <2>3. /\ t \in Stores /\ t.profiles = records /\ t.agentConfig = s.agentConfig
          /\ t.appState = s.appState
      <3> HIDE DEF records, t
      <3> QED BY <2>1, <2>2, WithProfiles
    <2>4. records # <<>>
      <3>1. DOMAIN s.profiles # {}
        BY <1>1, Identities
      <3> QED BY <3>1, <2>2
    <2>5. \A i \in DOMAIN s.profiles :
            records[i] = IF s.profiles[i].id = record.id THEN record ELSE s.profiles[i]
      OBVIOUS
    <2> HIDE DEF records, t
    <2>6. \A i \in DOMAIN s.profiles : t.profiles[i].id = s.profiles[i].id
      BY <2>3, <2>5
    <2> QED BY <1>1, <2>2, <2>3, <2>4, <2>5, <2>6 DEF t
  <1>2. CASE record.id \notin profileIds(s)
    <2> DEFINE records == Append(s.profiles, record)
    <2>1. t = [s EXCEPT !.profiles = records]
      BY <1>2 DEF put
    <2>2. /\ records \in Seq(Record) /\ records # <<>>
          /\ DOMAIN records = DOMAIN s.profiles \union {Len(s.profiles) + 1}
          /\ \A i \in DOMAIN s.profiles : records[i] = s.profiles[i]
          /\ records[Len(s.profiles) + 1] = record
      BY <1>0, Appended
    <2>3. /\ t \in Stores /\ t.profiles = records /\ t.agentConfig = s.agentConfig
          /\ t.appState = s.appState
      <3> HIDE DEF records, t
      <3> QED BY <2>1, <2>2, WithProfiles
    <2>4. \A i \in DOMAIN s.profiles : s.profiles[i].id # record.id
      BY <1>2, Identities
    <2>5. t.profiles = Append(s.profiles, record)
      BY <2>3
    <2> HIDE DEF records, t
    <2> QED BY <1>2, <2>2, <2>3, <2>4, <2>5 DEF t
  <1> QED BY <1>1, <1>2

\* The flag of a record that is written must not be a second one.
LEMMA PutGood ==
  ASSUME NEW s \in Stores, NEW record \in Record, UniqueIds(s), AtMostOneDefault(s),
         record.isDefault =>
           \A i \in DOMAIN s.profiles : s.profiles[i].isDefault => s.profiles[i].id = record.id
  PROVE  LET t == put(s, record) IN
         /\ t \in Stores /\ t.agentConfig = s.agentConfig /\ t.appState = s.appState
         /\ UniqueIds(t) /\ AtMostOneDefault(t) /\ t.profiles # <<>>
         /\ profileIds(t) = profileIds(s) \union {record.id}
  <1> DEFINE t == put(s, record)
  <1>1. /\ t \in Stores /\ t.agentConfig = s.agentConfig /\ t.appState = s.appState
        /\ DOMAIN s.profiles \subseteq DOMAIN t.profiles
        /\ \A i \in DOMAIN s.profiles : t.profiles[i].id = s.profiles[i].id
        /\ \A i \in DOMAIN t.profiles :
             \/ t.profiles[i] = record
             \/ /\ i \in DOMAIN s.profiles
                /\ t.profiles[i] = s.profiles[i] /\ s.profiles[i].id # record.id
        /\ record.id \in profileIds(s) => DOMAIN t.profiles = DOMAIN s.profiles
        /\ record.id \notin profileIds(s) => t.profiles = Append(s.profiles, record)
        /\ t.profiles # <<>>
    BY PutWrites
  <1>2. UniqueIds(t)
    <2>1. CASE record.id \in profileIds(s)
      BY <1>1, <2>1 DEF UniqueIds
    <2>2. CASE record.id \notin profileIds(s)
      <3>1. /\ s.profiles \in Seq(Record)
            /\ DOMAIN t.profiles = DOMAIN s.profiles \union {Len(s.profiles) + 1}
            /\ \A i \in DOMAIN s.profiles : t.profiles[i] = s.profiles[i]
            /\ t.profiles[Len(s.profiles) + 1] = record
        <4>1. s.profiles \in Seq(Record) /\ t.profiles = Append(s.profiles, record)
          BY <1>1, <2>2 DEF Stores
        <4> HIDE DEF t
        <4> QED BY <4>1, Appended
      <3>2. \A i \in DOMAIN s.profiles : s.profiles[i].id # record.id
        BY <2>2, Identities
      <3> QED BY <3>1, <3>2 DEF UniqueIds
    <2> QED BY <2>1, <2>2
  <1>3. AtMostOneDefault(t)
    <2> SUFFICES ASSUME NEW i \in DOMAIN t.profiles, NEW j \in DOMAIN t.profiles,
                        t.profiles[i].isDefault, t.profiles[j].isDefault
                 PROVE  i = j
      BY DEF AtMostOneDefault
    <2>1. CASE record.isDefault
      <3>1. t.profiles[i].id = record.id /\ t.profiles[j].id = record.id
        BY <1>1, <2>1
      <3> QED BY <3>1, <1>2 DEF UniqueIds
    <2>2. CASE ~record.isDefault
      <3>1. /\ i \in DOMAIN s.profiles /\ t.profiles[i] = s.profiles[i]
            /\ j \in DOMAIN s.profiles /\ t.profiles[j] = s.profiles[j]
        BY <1>1, <2>2
      <3> QED BY <3>1 DEF AtMostOneDefault
    <2> QED BY <2>1, <2>2
  <1>4. profileIds(t) = profileIds(s) \union {record.id}
    <2>1. \A p \in profileIds(t) : p \in profileIds(s) \union {record.id}
      BY <1>1, Identities
    <2>2. profileIds(s) \subseteq profileIds(t)
      BY <1>1, Identities
    <2>3. record.id \in profileIds(t)
      <3>1. CASE record.id \in profileIds(s)
        BY <2>2, <3>1
      <3>2. CASE record.id \notin profileIds(s)
        <4>1. s.profiles \in Seq(Record) /\ t.profiles = Append(s.profiles, record)
          BY <1>1, <3>2 DEF Stores
        <4>2. Len(s.profiles) + 1 \in DOMAIN t.profiles /\ t.profiles[Len(s.profiles) + 1] = record
          BY <4>1, Appended
        <4> QED BY <4>2, <1>1, Identities
      <3> QED BY <3>1, <3>2
    <2> QED BY <2>1, <2>2, <2>3
  <1> QED BY <1>1, <1>2, <1>3, <1>4

-----------------------------------------------------------------------------
(* Operations on the store *)

\* No profile of K that is in both stores has been archived in between.
NoneArchived(s, t, K) ==
  \A p \in K, i \in DOMAIN s.profiles, j \in DOMAIN t.profiles :
    s.profiles[i].id = p /\ t.profiles[j].id = p /\ t.profiles[j].archived => s.profiles[i].archived

LEMMA NewRecord ==
  ASSUME NEW p \in Profile, NEW flag \in BOOLEAN
  PROVE  newRecord(p, flag) \in Record /\ newRecord(p, flag).id = p
           /\ newRecord(p, flag).isDefault = flag /\ ~newRecord(p, flag).archived
  BY DEF newRecord, Record, Status

\* What is written archives nothing unless it says so.
LEMMA PutArchivesNone ==
  ASSUME NEW s \in Stores, UniqueIds(s), NEW record \in Record, NEW K,
         record.archived /\ record.id \in K =>
           \A i \in DOMAIN s.profiles : s.profiles[i].id = record.id => s.profiles[i].archived
  PROVE  NoneArchived(s, put(s, record), K)
  <1> DEFINE t == put(s, record)
  <1>1. \A i \in DOMAIN t.profiles :
          \/ t.profiles[i] = record
          \/ /\ i \in DOMAIN s.profiles
             /\ t.profiles[i] = s.profiles[i] /\ s.profiles[i].id # record.id
    BY PutWrites
  <1> HIDE DEF t
  <1>2. NoneArchived(s, t, K)
    BY <1>1 DEF NoneArchived, UniqueIds
  <1> QED BY <1>2 DEF t

\* The flag moves to p, and nothing else changes.
LEMMA SetDefault ==
  ASSUME NEW s \in Stores, UniqueIds(s), NEW p \in Profile
  PROVE  LET t == setDefaultAgentProfile(s, p) IN
         /\ t \in Stores /\ t.agentConfig = s.agentConfig /\ t.profiles = flagged(s, p)
         /\ t.appState = [s.appState EXCEPT !.default = p]
         /\ DOMAIN t.profiles = DOMAIN s.profiles
         /\ \A i \in DOMAIN s.profiles :
              /\ t.profiles[i].id = s.profiles[i].id
              /\ t.profiles[i].archived = s.profiles[i].archived
              /\ t.profiles[i].isDefault <=> s.profiles[i].id = p
         /\ UniqueIds(t) /\ AtMostOneDefault(t)
         /\ profileIds(t) = profileIds(s)
         /\ t.profiles = <<>> <=> s.profiles = <<>>
  <1> DEFINE records == flagged(s, p)
             app == [s.appState EXCEPT !.default = p]
             t == setDefaultAgentProfile(s, p)
  <1>1. s.profiles \in Seq(Record) /\ \A i \in DOMAIN s.profiles : s.profiles[i] \in Record
    BY DEF Stores
  <1>2. /\ DOMAIN records = DOMAIN s.profiles
        /\ \A i \in DOMAIN s.profiles :
             records[i] = [s.profiles[i] EXCEPT !.isDefault = (s.profiles[i].id = p)]
    BY DEF flagged
  <1>3. \A i \in DOMAIN s.profiles :
          /\ records[i] \in Record
          /\ records[i].id = s.profiles[i].id
          /\ records[i].archived = s.profiles[i].archived
          /\ (records[i].isDefault <=> s.profiles[i].id = p)
    <2> HIDE DEF records
    <2> QED BY <1>1, <1>2 DEF Record
  <1>4. records \in Seq(Record)
    <2>1. records = [i \in 1..Len(s.profiles) |-> records[i]]
      BY <1>1, <1>2 DEF flagged
    <2> HIDE DEF records
    <2>2. Len(s.profiles) \in Nat /\ DOMAIN s.profiles = 1..Len(s.profiles)
      BY <1>1
    <2>3. DOMAIN records = 1..Len(s.profiles)
      BY <1>2, <2>2
    <2>4. \A i \in 1..Len(s.profiles) : records[i] \in Record
      BY <1>3, <2>2
    <2> QED BY <2>1, <2>2, <2>3, <2>4, SequenceOf
  <1>5. app \in [onboardingComplete : BOOLEAN, agentConfigId : Profile \union {NoProfile},
                 default : Profile \union {NoProfile}]
    BY DEF Stores
  <1>6. t = [s EXCEPT !.profiles = records, !.appState = app]
    BY DEF setDefaultAgentProfile, Stores
  <1> HIDE DEF records, app
  <1>7. /\ t \in Stores /\ t.agentConfig = s.agentConfig /\ t.profiles = records
        /\ t.appState = app
    BY <1>4, <1>5, <1>6 DEF Stores
  <1> HIDE DEF t
  <1>0. /\ DOMAIN t.profiles = DOMAIN s.profiles
        /\ \A i \in DOMAIN s.profiles :
             /\ t.profiles[i].id = s.profiles[i].id
             /\ t.profiles[i].archived = s.profiles[i].archived
             /\ t.profiles[i].isDefault <=> s.profiles[i].id = p
    BY <1>2, <1>3, <1>7
  <1>8. UniqueIds(t) /\ AtMostOneDefault(t)
    BY <1>0 DEF UniqueIds, AtMostOneDefault
  <1>9. profileIds(t) = profileIds(s)
    <2>1. /\ profileIds(s) = {s.profiles[i].id : i \in DOMAIN s.profiles}
          /\ profileIds(t) = {t.profiles[i].id : i \in DOMAIN t.profiles}
      BY <1>7, Identities
    <2> QED BY <1>0, <2>1
  <1>10. t.profiles = <<>> <=> s.profiles = <<>>
    <2>1. t.profiles \in Seq(Record)
      BY <1>4, <1>7
    <2>2. DOMAIN t.profiles = DOMAIN s.profiles
      BY <1>2, <1>7
    <2>3. Len(t.profiles) = Len(s.profiles)
      BY <1>1, <2>1, <2>2
    <2> QED BY <1>1, <2>1, <2>3
  <1> QED BY <1>0, <1>7, <1>8, <1>9, <1>10 DEF t, app, records

LEMMA SetDefaultGood ==
  ASSUME NEW s, Good(s), NEW p \in profileIds(s), NEW K
  PROVE  LET t == setDefaultAgentProfile(s, p) IN
         /\ Good(t) /\ profileIds(t) = profileIds(s) /\ NoneArchived(s, t, K)
         /\ t.appState.onboardingComplete = s.appState.onboardingComplete
         /\ t.appState.agentConfigId = s.appState.agentConfigId
  <1> DEFINE t == setDefaultAgentProfile(s, p)
  <1>1. s \in Stores /\ UniqueIds(s) /\ p \in Profile
    BY Identities DEF Good
  <1>2. /\ t \in Stores /\ t.agentConfig = s.agentConfig
        /\ t.appState = [s.appState EXCEPT !.default = p]
        /\ DOMAIN t.profiles = DOMAIN s.profiles
        /\ \A i \in DOMAIN s.profiles :
             /\ t.profiles[i].id = s.profiles[i].id
             /\ t.profiles[i].archived = s.profiles[i].archived
        /\ UniqueIds(t) /\ AtMostOneDefault(t)
        /\ profileIds(t) = profileIds(s)
        /\ t.profiles = <<>> <=> s.profiles = <<>>
    BY <1>1, SetDefault
  <1> HIDE DEF t
  <1>3. /\ t.appState.default = p
        /\ t.appState.onboardingComplete = s.appState.onboardingComplete
        /\ t.appState.agentConfigId = s.appState.agentConfigId
    BY <1>1, <1>2 DEF Stores
  <1>4. NoneArchived(s, t, K)
    BY <1>1, <1>2 DEF NoneArchived, UniqueIds
  <1>5. Good(t)
    BY <1>2, <1>3 DEF Good
  <1> QED BY <1>2, <1>3, <1>4, <1>5 DEF t

LEMMA SaveGood ==
  ASSUME NEW s, Good(s), NEW record \in Record, ~record.archived, NEW K
  PROVE  LET t == saveAgentProfile(s, record) IN
         /\ Good(t) /\ profileIds(t) = profileIds(s) \union {record.id} /\ NoneArchived(s, t, K)
         /\ t.appState.onboardingComplete = s.appState.onboardingComplete
         /\ t.appState.agentConfigId = s.appState.agentConfigId
  <1> DEFINE u == setDefaultAgentProfile(s, record.id)
             t == saveAgentProfile(s, record)
  <1>1. s \in Stores /\ UniqueIds(s) /\ AtMostOneDefault(s) /\ record.id \in Profile
    BY DEF Good, Record
  <1>2. CASE record.isDefault
    <2>1. /\ u \in Stores /\ UniqueIds(u) /\ AtMostOneDefault(u)
          /\ u.appState = [s.appState EXCEPT !.default = record.id]
          /\ DOMAIN u.profiles = DOMAIN s.profiles
          /\ \A i \in DOMAIN s.profiles :
               /\ u.profiles[i].id = s.profiles[i].id
               /\ u.profiles[i].archived = s.profiles[i].archived
               /\ u.profiles[i].isDefault <=> s.profiles[i].id = record.id
          /\ profileIds(u) = profileIds(s)
      BY <1>1, SetDefault
    <2>2. t = put(u, record)
      BY <1>2 DEF saveAgentProfile
    <2> HIDE DEF u, t
    <2>3. /\ t \in Stores /\ t.appState = u.appState
          /\ UniqueIds(t) /\ AtMostOneDefault(t) /\ t.profiles # <<>>
          /\ profileIds(t) = profileIds(u) \union {record.id}
      BY <2>1, <2>2, PutGood
    <2>4. NoneArchived(u, t, K)
      BY <2>1, <2>2, PutArchivesNone
    <2>5. NoneArchived(s, t, K)
      BY <2>1, <2>4 DEF NoneArchived
    <2>6. /\ t.appState.default = record.id
          /\ t.appState.onboardingComplete = s.appState.onboardingComplete
          /\ t.appState.agentConfigId = s.appState.agentConfigId
      BY <1>1, <2>1, <2>3 DEF Stores
    <2>7. Good(t) /\ profileIds(t) = profileIds(s) \union {record.id}
      BY <2>1, <2>3, <2>6 DEF Good
    <2> QED BY <2>5, <2>6, <2>7 DEF t
  <1>3. CASE ~record.isDefault
    <2>1. t = put(s, record)
      BY <1>3 DEF saveAgentProfile
    <2> HIDE DEF t
    <2>2. /\ t \in Stores /\ t.appState = s.appState
          /\ UniqueIds(t) /\ AtMostOneDefault(t) /\ t.profiles # <<>>
          /\ profileIds(t) = profileIds(s) \union {record.id}
      BY <1>1, <1>3, <2>1, PutGood
    <2>3. NoneArchived(s, t, K)
      BY <1>1, <2>1, PutArchivesNone
    <2>4. Good(t)
      BY <2>2 DEF Good
    <2> QED BY <2>2, <2>3, <2>4 DEF t
  <1> QED BY <1>2, <1>3

LEMMA SaveConfigGood ==
  ASSUME NEW s, Good(s), NEW p \in Profile, NEW K
  PROVE  LET t == saveAgentConfig(s, p) IN
         /\ Good(t) /\ profileIds(t) = profileIds(s) \union {p} /\ NoneArchived(s, t, K)
         /\ t.appState.onboardingComplete = s.appState.onboardingComplete
         /\ t.appState.agentConfigId = s.appState.agentConfigId
  <1> DEFINE flag == IF p \in profileIds(s) THEN getAgentProfile(s, p).isDefault
                     ELSE s.profiles = <<>>
             record == newRecord(p, flag)
             u == put(s, record)
             t == saveAgentConfig(s, p)
  <1>1. s \in Stores /\ UniqueIds(s) /\ AtMostOneDefault(s)
    BY DEF Good
  <1>2. /\ flag \in BOOLEAN
        /\ flag => \A i \in DOMAIN s.profiles : s.profiles[i].isDefault => s.profiles[i].id = p
    <2>1. CASE p \in profileIds(s)
      <3>1. PICK i \in DOMAIN s.profiles : s.profiles[i].id = p
        BY <1>1, <2>1, Identities
      <3>2. getAgentProfile(s, p) = s.profiles[i]
        BY <1>1, <3>1, GetProfile
      <3>3. s.profiles \in Seq(Record)
        BY <1>1 DEF Stores
      <3>4. s.profiles[i].isDefault \in BOOLEAN
        <4>1. s.profiles[i] \in Record
          BY <3>1, <3>3
        <4> QED BY <4>1 DEF Record
      <3>5. flag = s.profiles[i].isDefault
        BY <2>1, <3>2
      <3> HIDE DEF flag
      <3> QED BY <1>1, <3>1, <3>4, <3>5 DEF AtMostOneDefault
    <2>2. CASE p \notin profileIds(s)
      BY <2>2
    <2> QED BY <2>1, <2>2
  <1> HIDE DEF flag
  <1>3. /\ record \in Record /\ record.id = p /\ record.isDefault = flag /\ ~record.archived
    BY <1>2, NewRecord
  <1> HIDE DEF record
  <1>4. record.isDefault =>
          \A i \in DOMAIN s.profiles : s.profiles[i].isDefault => s.profiles[i].id = record.id
    BY <1>2, <1>3
  <1>5. /\ u \in Stores /\ u.agentConfig = s.agentConfig /\ u.appState = s.appState
        /\ UniqueIds(u) /\ AtMostOneDefault(u) /\ u.profiles # <<>>
        /\ profileIds(u) = profileIds(s) \union {p}
    BY <1>1, <1>3, <1>4, PutGood
  <1>6. NoneArchived(s, u, K)
    BY <1>1, <1>3, PutArchivesNone
  <1>7. Good(u) /\ p \in profileIds(u)
    BY <1>5 DEF Good
  <1>8. t = IF Len(u.profiles) = 1 THEN setDefaultAgentProfile(u, p) ELSE u
    BY DEF saveAgentConfig, flag, record
  <1> HIDE DEF u
  <1> DEFINE w == setDefaultAgentProfile(u, p)
  <1>9. /\ Good(w) /\ profileIds(w) = profileIds(u) /\ NoneArchived(u, w, K)
        /\ w.appState.onboardingComplete = u.appState.onboardingComplete
        /\ w.appState.agentConfigId = u.appState.agentConfigId
        /\ DOMAIN w.profiles = DOMAIN u.profiles
        /\ \A i \in DOMAIN u.profiles : /\ w.profiles[i].id = u.profiles[i].id
                                        /\ w.profiles[i].archived = u.profiles[i].archived
    <2>1. p \in Profile /\ u \in Stores /\ UniqueIds(u)
      BY <1>5
    <2>2. /\ DOMAIN w.profiles = DOMAIN u.profiles
          /\ \A i \in DOMAIN u.profiles : /\ w.profiles[i].id = u.profiles[i].id
                                          /\ w.profiles[i].archived = u.profiles[i].archived
      BY <2>1, SetDefault
    <2>3. /\ Good(w) /\ profileIds(w) = profileIds(u) /\ NoneArchived(u, w, K)
          /\ w.appState.onboardingComplete = u.appState.onboardingComplete
          /\ w.appState.agentConfigId = u.appState.agentConfigId
      BY <1>7, SetDefaultGood
    <2> QED BY <2>2, <2>3
  <1> HIDE DEF w
  <1>10. NoneArchived(s, w, K)
    BY <1>6, <1>9 DEF NoneArchived
  <1>11. t = u \/ t = w
    BY <1>8 DEF w
  <1> HIDE DEF t
  <1> QED BY <1>5, <1>6, <1>7, <1>9, <1>10, <1>11 DEF t

LEMMA UpdateStatusGood ==
  ASSUME NEW s, Good(s), NEW p, NEW status \in Status, NEW K
  PROVE  LET t == updateAgentProfileStatus(s, p, status) IN
         /\ Good(t) /\ profileIds(t) = profileIds(s) /\ NoneArchived(s, t, K)
         /\ t.appState = s.appState
  <1> DEFINE t == updateAgentProfileStatus(s, p, status)
  <1>1. s \in Stores /\ UniqueIds(s) /\ AtMostOneDefault(s)
    BY DEF Good
  <1>2. CASE p \in profileIds(s)
    <2>1. PICK i \in DOMAIN s.profiles : s.profiles[i].id = p
      BY <1>1, <1>2, Identities
    <2>2. getAgentProfile(s, p) = s.profiles[i]
      BY <1>1, <2>1, GetProfile
    <2>3. s.profiles[i] \in Record
      <3>1. s.profiles \in Seq(Record)
        BY <1>1 DEF Stores
      <3> QED BY <2>1, <3>1
    <2> DEFINE record == [s.profiles[i] EXCEPT !.status = status]
    <2>4. /\ record \in Record /\ record.id = p
          /\ record.isDefault = s.profiles[i].isDefault
          /\ record.archived = s.profiles[i].archived
      BY <2>1, <2>3 DEF Record
    <2>5. t = put(s, record)
      BY <1>2, <2>2 DEF updateAgentProfileStatus
    <2> HIDE DEF record, t
    <2>6. record.isDefault =>
            \A j \in DOMAIN s.profiles : s.profiles[j].isDefault => s.profiles[j].id = record.id
      BY <1>1, <2>1, <2>4 DEF AtMostOneDefault
    <2>7. /\ t \in Stores /\ t.agentConfig = s.agentConfig /\ t.appState = s.appState
          /\ UniqueIds(t) /\ AtMostOneDefault(t) /\ t.profiles # <<>>
          /\ profileIds(t) = profileIds(s) \union {p}
      BY <1>1, <2>4, <2>5, <2>6, PutGood
    <2>8. \A j \in DOMAIN s.profiles : s.profiles[j].id = record.id => j = i
      BY <1>1, <2>1, <2>4 DEF UniqueIds
    <2>9. NoneArchived(s, t, K)
      BY <1>1, <2>4, <2>5, <2>8, PutArchivesNone
    <2>10. profileIds(t) = profileIds(s)
      BY <1>2, <2>7
    <2>11. Good(t)
      BY <2>7, <2>10 DEF Good
    <2> QED BY <2>7, <2>9, <2>10, <2>11 DEF t
  <1>3. CASE p \notin profileIds(s)
    <2>1. t = s
      BY <1>3 DEF updateAgentProfileStatus
    <2>2. NoneArchived(s, s, K)
      BY <1>1 DEF NoneArchived, UniqueIds
    <2> QED BY <2>1, <2>2
  <1> QED BY <1>2, <1>3

\* Archiving p archives no other profile; the flag it had goes to the first one left.
LEMMA ArchiveGood ==
  ASSUME NEW s, Good(s), NEW p, NEW K, p \notin K
  PROVE  LET t == archiveAgentProfile(s, p) IN
         /\ Good(t) /\ profileIds(t) = profileIds(s) /\ NoneArchived(s, t, K)
         /\ t.appState.onboardingComplete = s.appState.onboardingComplete
         /\ t.appState.agentConfigId = s.appState.agentConfigId
  <1> DEFINE t == archiveAgentProfile(s, p)
  <1>1. s \in Stores /\ UniqueIds(s) /\ AtMostOneDefault(s) /\ s.profiles \in Seq(Record)
    BY DEF Good, Stores
  <1>2. CASE p \notin profileIds(s)
    <2>1. t = s
      BY <1>2 DEF archiveAgentProfile
    <2>2. NoneArchived(s, s, K)
      BY <1>1 DEF NoneArchived, UniqueIds
    <2> QED BY <2>1, <2>2
  <1>3. CASE p \in profileIds(s)
    <2>1. PICK i \in DOMAIN s.profiles : s.profiles[i].id = p
      BY <1>1, <1>3, Identities
    <2>2. getAgentProfile(s, p) = s.profiles[i]
      BY <1>1, <2>1, GetProfile
    <2>3. s.profiles[i] \in Record
      BY <1>1, <2>1
    <2> DEFINE record == [s.profiles[i] EXCEPT !.archived = TRUE, !.isDefault = FALSE]
               u == put(s, record)
               others == {j \in DOMAIN u.profiles : ~u.profiles[j].archived}
               first == u.profiles[Min(others)]
               flag == [first EXCEPT !.isDefault = TRUE]
               none == [u EXCEPT !.appState.default = NoProfile]
               v == put(u, flag)
               moved == [v EXCEPT !.appState.default = first.id]
    <2>4. /\ record \in Record /\ record.id = p /\ ~record.isDefault
      BY <2>1, <2>3 DEF Record
    <2>5. t = IF ~s.profiles[i].isDefault THEN u ELSE IF others = {} THEN none ELSE moved
      BY <1>3, <2>2 DEF archiveAgentProfile
    <2> HIDE DEF record, u, none, v, moved, flag, first, others, t
    <2>0. record.isDefault =>
            \A j \in DOMAIN s.profiles : s.profiles[j].isDefault => s.profiles[j].id = record.id
      BY <2>4
    <2>6. /\ u \in Stores /\ u.agentConfig = s.agentConfig /\ u.appState = s.appState
          /\ UniqueIds(u) /\ AtMostOneDefault(u) /\ u.profiles # <<>>
          /\ profileIds(u) = profileIds(s)
      <3>1. s \in Stores /\ record \in Record /\ UniqueIds(s) /\ AtMostOneDefault(s)
        BY <1>1, <2>4
      <3>2. /\ u \in Stores /\ u.agentConfig = s.agentConfig /\ u.appState = s.appState
            /\ UniqueIds(u) /\ AtMostOneDefault(u) /\ u.profiles # <<>>
            /\ profileIds(u) = profileIds(s) \union {record.id}
        BY <3>1, <2>0, PutGood DEF u
      <3>3. profileIds(s) \union {record.id} = profileIds(s)
        BY <1>3, <2>4
      <3> QED BY <3>2, <3>3
    <2>7. NoneArchived(s, u, K)
      BY <1>1, <2>4, PutArchivesNone DEF u
    <2>8. Good(u)
      BY <2>6 DEF Good
    <2>9. \A j \in DOMAIN u.profiles : u.profiles[j] = record \/
            (j \in DOMAIN s.profiles /\ u.profiles[j] = s.profiles[j] /\ s.profiles[j].id # p)
      <3>1. \A j \in DOMAIN u.profiles : u.profiles[j] = record \/
              (j \in DOMAIN s.profiles /\ u.profiles[j] = s.profiles[j] /\ s.profiles[j].id # record.id)
        <4>1. s \in Stores /\ record \in Record
          BY <1>1, <2>4
        <4> QED BY <4>1, PutWrites DEF u
      <3> QED BY <2>4, <3>1
    <2>10. CASE t = u
      BY <2>6, <2>7, <2>8, <2>10 DEF t
    <2>11. CASE t = none
      <3>1. /\ none \in Stores /\ none.profiles = u.profiles /\ none.agentConfig = u.agentConfig
            /\ none.appState.default = NoProfile
            /\ none.appState.onboardingComplete = u.appState.onboardingComplete
            /\ none.appState.agentConfigId = u.appState.agentConfigId
        BY <2>6 DEF none, Stores
      <3>2. profileIds(none) = profileIds(u)
        BY <3>1 DEF profileIds
      <3>3. Good(none)
        BY <2>6, <3>1, <3>2 DEF Good, UniqueIds, AtMostOneDefault
      <3>4. NoneArchived(s, none, K)
        BY <2>7, <3>1 DEF NoneArchived
      <3> QED BY <2>6, <2>11, <3>1, <3>2, <3>3, <3>4 DEF t
    <2>12. CASE s.profiles[i].isDefault /\ others # {} /\ t = moved
      <3>1. Min(others) \in DOMAIN u.profiles /\ ~first.archived
        <4>1. u.profiles \in Seq(Record)
          BY <2>6 DEF Stores
        <4>2. others \subseteq Nat
          BY <4>1 DEF others
        <4>3. Min(others) \in others
          BY <2>12, <4>2, Minimum
        <4> QED BY <4>3 DEF others, first
      <3>2. first \in Record
        <4>1. u.profiles \in Seq(Record)
          BY <2>6 DEF Stores
        <4> QED BY <3>1, <4>1 DEF first
      <3>3. /\ flag \in Record /\ flag.id = first.id /\ flag.isDefault /\ ~flag.archived
        BY <3>1, <3>2 DEF flag, Record
      <3>4. first.id \in profileIds(u)
        BY <2>6, <3>1, Identities DEF first
      <3>5. \A j \in DOMAIN u.profiles : ~u.profiles[j].isDefault
        BY <1>1, <2>1, <2>4, <2>9, <2>12 DEF AtMostOneDefault
      <3>6. /\ v \in Stores /\ v.agentConfig = u.agentConfig /\ v.appState = u.appState
            /\ UniqueIds(v) /\ AtMostOneDefault(v) /\ v.profiles # <<>>
            /\ profileIds(v) = profileIds(u)
        <4>1. flag.isDefault =>
                \A j \in DOMAIN u.profiles : u.profiles[j].isDefault => u.profiles[j].id = flag.id
          BY <3>5
        <4>2. profileIds(u) \union {flag.id} = profileIds(u)
          BY <3>3, <3>4
        <4> QED BY <2>6, <3>3, <4>1, <4>2, PutGood DEF v
      <3>7. NoneArchived(u, v, K)
        BY <2>6, <3>3, PutArchivesNone DEF v
      <3>8. /\ moved \in Stores /\ moved.profiles = v.profiles /\ moved.agentConfig = v.agentConfig
            /\ moved.appState.default = first.id
            /\ moved.appState.onboardingComplete = v.appState.onboardingComplete
            /\ moved.appState.agentConfigId = v.appState.agentConfigId
        <4>1. first.id \in Profile
          BY <3>2 DEF Record
        <4> QED BY <3>6, <4>1 DEF moved, Stores
      <3>9. profileIds(moved) = profileIds(v)
        BY <3>8 DEF profileIds
      <3>10. Good(moved)
        BY <3>4, <3>6, <3>8, <3>9 DEF Good, UniqueIds, AtMostOneDefault
      <3>11. NoneArchived(s, moved, K)
        <4>1. DOMAIN s.profiles \subseteq DOMAIN u.profiles
              /\ \A j \in DOMAIN s.profiles : u.profiles[j].id = s.profiles[j].id
          BY <1>1, <2>4, PutWrites DEF u
        <4> QED BY <2>7, <3>7, <3>8, <4>1 DEF NoneArchived
      <3> QED BY <2>6, <2>12, <3>6, <3>8, <3>9, <3>10, <3>11 DEF t
    <2> QED BY <2>5, <2>10, <2>11, <2>12
  <1> QED BY <1>2, <1>3

\* What is read from a file is a store of this version.
LEMMA MigrateKeeps ==
  ASSUME NEW s, Good(s)
  PROVE  migrate(s) = s
  BY DEF Good, migrate

LEMMA EmptyGood == Good(emptyStore) /\ migrate(emptyStore) = emptyStore
                     /\ ~emptyStore.appState.onboardingComplete
                     /\ profileIds(emptyStore) = {}
  <1>1. emptyStore \in Stores /\ emptyStore.profiles = <<>> /\ DOMAIN emptyStore.profiles = {}
    BY DEF emptyStore, Stores
  <1>2. profileIds(emptyStore) = {}
    BY <1>1, Identities
  <1>3. /\ emptyStore.agentConfig = NoProfile /\ emptyStore.appState.default = NoProfile
        /\ ~emptyStore.appState.onboardingComplete
    BY DEF emptyStore
  <1>4. Good(emptyStore)
    BY <1>1, <1>3 DEF Good, UniqueIds, AtMostOneDefault
  <1> QED BY <1>2, <1>3, <1>4, MigrateKeeps

LEMMA LegacyGood ==
  ASSUME NEW p \in Profile
  PROVE  /\ legacyStore(p) \in Stores
         /\ Good(migrate(legacyStore(p)))
         /\ migrate(legacyStore(p)).appState.agentConfigId = p
         /\ p \in profileIds(migrate(legacyStore(p)))
  <1> DEFINE s == legacyStore(p)
             t == migrate(s)
             record == newRecord(p, TRUE)
             app == [onboardingComplete |-> TRUE, agentConfigId |-> p, default |-> NoProfile]
  <1> HIDE DEF record, t, s
  <1>1. s = [emptyStore EXCEPT !.agentConfig = p, !.appState = app]
    BY DEF s, legacyStore
  <1>2. emptyStore \in Stores /\ emptyStore.profiles = <<>>
    BY DEF emptyStore, Stores
  <1>3. /\ s \in Stores /\ s.agentConfig = p /\ s.profiles = <<>>
        /\ s.appState.agentConfigId = p
    BY <1>1, <1>2 DEF Stores
  <1>4. p # NoProfile
    BY ProfilesAssumption
  <1>5. record \in Record /\ record.id = p
    BY NewRecord DEF record
  <1>6. <<record>> \in Seq(Record) /\ DOMAIN <<record>> = {1} /\ <<record>>[1] = record
          /\ <<record>> # <<>>
    BY <1>5
  <1>7. t = [s EXCEPT !.profiles = <<record>>, !.appState.default = p, !.agentConfig = NoProfile]
    BY <1>3, <1>4 DEF migrate, t, record
  <1>8. /\ t \in Stores /\ t.profiles = <<record>> /\ t.agentConfig = NoProfile
        /\ t.appState.default = p /\ t.appState.agentConfigId = p
    BY <1>3, <1>6, <1>7 DEF Stores
  <1>9. profileIds(t) = {p}
    BY <1>5, <1>6, <1>8, Identities
  <1>10. Good(t)
    BY <1>6, <1>8, <1>9 DEF Good, UniqueIds, AtMostOneDefault
  <1> QED BY <1>3, <1>8, <1>9, <1>10 DEF t, s

-----------------------------------------------------------------------------
(* Functions of the renderer *)

LEMMA TailOf ==
  ASSUME NEW T, NEW f \in Seq(T), f # <<>>
  PROVE  /\ Tail(f) \in Seq(T) /\ Len(Tail(f)) = Len(f) - 1
         /\ Head(f) = f[1] /\ 1 \in DOMAIN f /\ Len(f) \in Nat \ {0} /\ DOMAIN f = 1..Len(f)
         /\ DOMAIN Tail(f) = 1..(Len(f) - 1)
         /\ \A i \in DOMAIN Tail(f) : Tail(f)[i] = f[i+1] /\ i+1 \in DOMAIN f
  <1>1. Len(f) \in Nat /\ Len(f) # 0 /\ DOMAIN f = 1..Len(f)
    OBVIOUS
  <1>2. Tail(f) \in Seq(T) /\ Len(Tail(f)) = Len(f) - 1
    OBVIOUS
  <1>3. DOMAIN Tail(f) = 1..(Len(f) - 1)
    BY <1>1, <1>2
  <1>4. \A i \in DOMAIN Tail(f) : Tail(f)[i] = f[i+1]
    BY <1>1, <1>3
  <1> QED BY <1>1, <1>2, <1>3, <1>4

LEMMA Joined ==
  ASSUME NEW T, NEW a \in Seq(T), NEW b \in Seq(T)
  PROVE  a \o b \in Seq(T) /\ Len(a \o b) = Len(a) + Len(b) /\ (b # <<>> => a \o b # <<>>)
  <1>1. a \o b \in Seq(T) /\ Len(a \o b) = Len(a) + Len(b) /\ Len(a) \in Nat /\ Len(b) \in Nat
    OBVIOUS
  <1>2. ASSUME b # <<>>, a \o b = <<>> PROVE FALSE
    <2>1. Len(a \o b) = 0 /\ Len(b) # 0
      BY <1>2
    <2> QED BY <1>1, <2>1
  <1> QED BY <1>1, <1>2

LEMMA Removed ==
  ASSUME NEW T, NEW fs \in Seq(T), NEW i \in DOMAIN fs
  PROVE  LET r == RemoveAt(fs, i) IN
         /\ r \in Seq(T) /\ DOMAIN r = 1..(Len(fs) - 1)
         /\ \A j \in DOMAIN r : IF j < i THEN j \in DOMAIN fs /\ r[j] = fs[j]
                                ELSE j+1 \in DOMAIN fs /\ r[j] = fs[j+1]
  <1>1. Len(fs) \in Nat /\ DOMAIN fs = 1..Len(fs) /\ i \in 1..Len(fs)
    OBVIOUS
  <1> DEFINE a == SubSeq(fs, 1, i-1)
             b == SubSeq(fs, i+1, Len(fs))
  <1>2. a \in Seq(T) /\ Len(a) = i-1 /\ \A j \in 1..(i-1) : a[j] = fs[j]
    BY <1>1
  <1>3. b \in Seq(T) /\ Len(b) = Len(fs) - i /\ \A j \in 1..(Len(fs) - i) : b[j] = fs[i+j]
    BY <1>1
  <1>4. RemoveAt(fs, i) = a \o b
    BY DEF RemoveAt
  <1> HIDE DEF a, b
  <1>5. a \o b \in Seq(T) /\ Len(a \o b) = Len(fs) - 1
    <2>1. a \o b \in Seq(T) /\ Len(a \o b) = Len(a) + Len(b)
      BY <1>2, <1>3, Joined
    <2>2. (i-1) + (Len(fs) - i) = Len(fs) - 1
      BY <1>1
    <2> QED BY <1>2, <1>3, <2>1, <2>2
  <1>6. \A j \in 1..(Len(fs) - 1) : (a \o b)[j] = IF j <= i-1 THEN a[j] ELSE b[j-(i-1)]
    BY <1>1, <1>2, <1>3
  <1>7. ASSUME NEW j \in 1..(Len(fs) - 1)
        PROVE  IF j < i THEN j \in DOMAIN fs /\ (a \o b)[j] = fs[j]
               ELSE j+1 \in DOMAIN fs /\ (a \o b)[j] = fs[j+1]
    <2>1. CASE j < i
      BY <1>1, <1>2, <1>6, <2>1
    <2>2. CASE ~(j < i)
      <3>1. j-(i-1) \in 1..(Len(fs) - i) /\ ~(j <= i-1)
        BY <1>1, <2>2
      <3>2. b[j-(i-1)] = fs[i+(j-(i-1))] /\ i+(j-(i-1)) = j+1
        BY <1>1, <1>3, <3>1
      <3>3. j+1 \in 1..Len(fs)
        BY <1>1, <2>2
      <3>4. (a \o b)[j] = fs[j+1]
        BY <1>6, <3>1, <3>2
      <3> QED BY <1>1, <2>2, <3>3, <3>4
    <2> QED BY <2>1, <2>2
  <1>8. DOMAIN (a \o b) = 1..(Len(fs) - 1)
    <2>1. DOMAIN (a \o b) = 1..Len(a \o b)
      BY <1>5
    <2> QED BY <1>5, <2>1
  <1> QED BY <1>4, <1>5, <1>7, <1>8

\* More profiles and keys do no harm.
LEMMA FunctionsMonotone ==
  ASSUME NEW fs, NEW names, NEW secrets, FunctionsGood(fs, names, secrets),
         NEW names2, NEW secrets2, names \subseteq names2, secrets \subseteq secrets2
  PROVE  FunctionsGood(fs, names2, secrets2)
  <1>1. \A i \in DOMAIN fs : \A j \in DOMAIN fs[i] :
          CallGood(fs[i], j, names, secrets) => CallGood(fs[i], j, names2, secrets2)
    BY DEF CallGood
  <1> QED BY <1>1 DEF FunctionsGood, FunctionGood

LEMMA FunctionsAppend ==
  ASSUME NEW fs, NEW names, NEW secrets, FunctionsGood(fs, names, secrets),
         NEW f, FunctionGood(f, names, secrets),
         Completes(f) => \A i \in DOMAIN fs : ~Completes(fs[i])
  PROVE  FunctionsGood(Append(fs, f), names, secrets)
  <1> DEFINE gs == Append(fs, f)
  <1>1. fs \in Seq(Seq(Call)) /\ f \in Seq(Call)
    BY DEF FunctionsGood, FunctionGood
  <1>2. /\ gs \in Seq(Seq(Call)) /\ DOMAIN gs = DOMAIN fs \union {Len(fs) + 1}
        /\ \A i \in DOMAIN fs : gs[i] = fs[i]
        /\ gs[Len(fs) + 1] = f
    BY <1>1, Appended
  <1> HIDE DEF gs
  <1>3. \A i \in DOMAIN gs : FunctionGood(gs[i], names, secrets)
    BY <1>2 DEF FunctionsGood
  <1>4. \A i, j \in DOMAIN gs : Completes(gs[i]) /\ Completes(gs[j]) => i = j
    BY <1>2 DEF FunctionsGood
  <1> QED BY <1>2, <1>3, <1>4 DEF FunctionsGood, gs

\* A function that goes on from f to g is still in order.
LEMMA FunctionsReplace ==
  ASSUME NEW fs, NEW names, NEW secrets, FunctionsGood(fs, names, secrets),
         NEW i \in DOMAIN fs, NEW g, FunctionGood(g, names, secrets),
         Completes(g) => Completes(fs[i])
  PROVE  FunctionsGood([fs EXCEPT ![i] = g], names, secrets)
  <1> DEFINE gs == [fs EXCEPT ![i] = g]
  <1>1. fs \in Seq(Seq(Call)) /\ g \in Seq(Call)
    BY DEF FunctionsGood, FunctionGood
  <1>2. /\ gs \in Seq(Seq(Call)) /\ DOMAIN gs = DOMAIN fs
        /\ \A j \in DOMAIN fs : gs[j] = IF j = i THEN g ELSE fs[j]
    BY <1>1
  <1> HIDE DEF gs
  <1>3. \A j \in DOMAIN gs : FunctionGood(gs[j], names, secrets)
    BY <1>2 DEF FunctionsGood
  <1>4. \A j, k \in DOMAIN gs : Completes(gs[j]) /\ Completes(gs[k]) => j = k
    BY <1>2 DEF FunctionsGood
  <1> QED BY <1>2, <1>3, <1>4 DEF FunctionsGood, gs

LEMMA FunctionsRemove ==
  ASSUME NEW fs, NEW names, NEW secrets, FunctionsGood(fs, names, secrets), NEW i \in DOMAIN fs
  PROVE  LET r == RemoveAt(fs, i) IN
         /\ FunctionsGood(r, names, secrets)
         /\ \A j \in DOMAIN r : Completes(r[j]) => \E k \in DOMAIN fs : k # i /\ Completes(fs[k])
  <1> DEFINE r == RemoveAt(fs, i)
  <1>1. fs \in Seq(Seq(Call)) /\ Len(fs) \in Nat /\ DOMAIN fs = 1..Len(fs)
    BY DEF FunctionsGood
  <1>2. /\ r \in Seq(Seq(Call)) /\ DOMAIN r = 1..(Len(fs) - 1)
        /\ \A j \in DOMAIN r : IF j < i THEN j \in DOMAIN fs /\ r[j] = fs[j]
                               ELSE j+1 \in DOMAIN fs /\ r[j] = fs[j+1]
    BY <1>1, Removed
  <1> HIDE DEF r
  <1>3. \A j \in DOMAIN r : FunctionGood(r[j], names, secrets)
    BY <1>2 DEF FunctionsGood
  <1>4. \A j, k \in DOMAIN r : Completes(r[j]) /\ Completes(r[k]) => j = k
    <2> SUFFICES ASSUME NEW j \in DOMAIN r, NEW k \in DOMAIN r, Completes(r[j]), Completes(r[k])
                 PROVE  j = k
      OBVIOUS
    <2> DEFINE m == IF j < i THEN j ELSE j+1
               n == IF k < i THEN k ELSE k+1
    <2>1. m \in DOMAIN fs /\ r[j] = fs[m] /\ n \in DOMAIN fs /\ r[k] = fs[n]
      BY <1>2
    <2>2. m = n
      <3> HIDE DEF m, n
      <3> QED BY <2>1 DEF FunctionsGood
    <2>3. i \in Nat /\ j \in Nat /\ k \in Nat
      BY <1>1, <1>2
    <2> QED BY <2>2, <2>3
  <1>5. \A j \in DOMAIN r : Completes(r[j]) => \E k \in DOMAIN fs : k # i /\ Completes(fs[k])
    <2> SUFFICES ASSUME NEW j \in DOMAIN r, Completes(r[j])
                 PROVE  \E k \in DOMAIN fs : k # i /\ Completes(fs[k])
      OBVIOUS
    <2>1. CASE j < i
      <3>1. j \in DOMAIN fs /\ j # i /\ r[j] = fs[j]
        BY <1>1, <1>2, <2>1
      <3> QED BY <3>1
    <2>2. CASE ~(j < i)
      <3>1. j+1 \in DOMAIN fs /\ j+1 # i /\ r[j] = fs[j+1]
        BY <1>1, <1>2, <2>2
      <3> QED BY <3>1
    <2> QED BY <2>1, <2>2
  <1> QED BY <1>2, <1>3, <1>4, <1>5 DEF FunctionsGood, r

\* A call that was served is no longer needed by the calls after it.
LEMMA TailGood ==
  ASSUME NEW f, NEW names, NEW secrets, FunctionGood(f, names, secrets), Tail(f) # <<>>,
         NEW names2, NEW secrets2, names \subseteq names2, secrets \subseteq secrets2,
         Head(f).op = "save_config" => Head(f).profile.id \in names2,
         Head(f).op = "set_secret" => Head(f).profile.id \in secrets2
  PROVE  FunctionGood(Tail(f), names2, secrets2) /\ (Completes(Tail(f)) => Completes(f))
           /\ Head(f).op # "complete"
  <1> DEFINE t == Tail(f)
  <1>1. f \in Seq(Call) /\ f # <<>>
    BY DEF FunctionGood
  <1>2. /\ t \in Seq(Call) /\ Len(t) = Len(f) - 1
        /\ Head(f) = f[1] /\ 1 \in DOMAIN f /\ Len(f) \in Nat \ {0} /\ DOMAIN f = 1..Len(f)
        /\ DOMAIN t = 1..(Len(f) - 1)
        /\ \A j \in DOMAIN t : t[j] = f[j+1] /\ j+1 \in DOMAIN f
    BY <1>1, TailOf
  <1>3. t # <<>>
    OBVIOUS
  <1> HIDE DEF t
  <1>4. ASSUME NEW j \in DOMAIN t
        PROVE  CallGood(t, j, names2, secrets2)
    <2>1. t[j] = f[j+1] /\ j+1 \in DOMAIN f /\ j \in Nat
      BY <1>2
    <2>2. CallGood(f, j+1, names, secrets)
      BY <2>1 DEF FunctionGood
    <2>3. ASSUME NEW i \in 1..j, i # 1
          PROVE  i-1 \in 1..(j-1) /\ t[i-1] = f[i]
      <3>1. i-1 \in 1..(j-1) /\ i-1 \in DOMAIN t /\ (i-1)+1 = i
        BY <1>2, <2>1, <2>3
      <3> QED BY <1>2, <3>1
    <2>4. (j+1)-1 = j
      BY <2>1
    <2>5. \A i \in 1..((j+1)-1) : i = 1 \/ (i-1 \in 1..(j-1) /\ t[i-1] = f[i])
      BY <2>3, <2>4
    <2>6. /\ t[j].op \in OnProfile => t[j].profile \in Record /\ ~t[j].profile.archived
          /\ t[j].op = "set_default" => t[j].profile.id \in names2
      BY <2>1, <2>2 DEF CallGood
    <2>7. ASSUME t[j].op = "set_app_state"
          PROVE  /\ \/ t[j].profile.id \in names2
                    \/ \E i \in 1..(j-1) : t[i].op = "save_config" /\ t[i].profile.id = t[j].profile.id
                 /\ \/ t[j].profile.id \in secrets2
                    \/ \E i \in 1..(j-1) : t[i].op = "set_secret" /\ t[i].profile.id = t[j].profile.id
      <3>1. /\ \/ t[j].profile.id \in names
               \/ \E i \in 1..((j+1)-1) : f[i].op = "save_config" /\ f[i].profile.id = t[j].profile.id
            /\ \/ t[j].profile.id \in secrets
               \/ \E i \in 1..((j+1)-1) : f[i].op = "set_secret" /\ f[i].profile.id = t[j].profile.id
        BY <2>1, <2>2, <2>7 DEF CallGood
      <3>2. \/ t[j].profile.id \in names2
            \/ \E i \in 1..(j-1) : t[i].op = "save_config" /\ t[i].profile.id = t[j].profile.id
        BY <1>2, <2>5, <3>1
      <3>3. \/ t[j].profile.id \in secrets2
            \/ \E i \in 1..(j-1) : t[i].op = "set_secret" /\ t[i].profile.id = t[j].profile.id
        BY <1>2, <2>5, <3>1
      <3> QED BY <3>2, <3>3
    <2>8. t[j].op = "complete" => j = Len(t)
      BY <1>2, <2>1, <2>2 DEF CallGood
    <2> QED BY <2>6, <2>7, <2>8 DEF CallGood
  <1>5. FunctionGood(t, names2, secrets2)
    BY <1>2, <1>3, <1>4 DEF FunctionGood
  <1>6. Completes(t) => Completes(f)
    BY <1>2 DEF Completes
  <1>7. f[1].op = "complete" => Len(f) = 1
    BY <1>2 DEF FunctionGood, CallGood
  <1>8. Len(t) # 0
    BY <1>2, <1>3
  <1> QED BY <1>2, <1>5, <1>6, <1>7, <1>8 DEF t

LEMMA AnsweredGood ==
  ASSUME NEW names, NEW secrets, FunctionsGood(functions, names, secrets),
         NEW i \in DOMAIN functions,
         NEW names2, NEW secrets2, names \subseteq names2, secrets \subseteq secrets2,
         called(i).op = "save_config" => called(i).profile.id \in names2,
         called(i).op = "set_secret" => called(i).profile.id \in secrets2
  PROVE  LET gs == answered(i) IN
         /\ FunctionsGood(gs, names2, secrets2)
         /\ (\E j \in DOMAIN gs : Completes(gs[j])) => \E j \in DOMAIN functions : Completes(functions[j])
         /\ called(i).op = "complete" => \A j \in DOMAIN gs : ~Completes(gs[j])
  <1> DEFINE f == functions[i]
             gs == answered(i)
  <1>1. FunctionGood(f, names, secrets) /\ f \in Seq(Call) /\ f # <<>>
    BY DEF FunctionsGood, FunctionGood
  <1>2. FunctionsGood(functions, names2, secrets2)
    BY FunctionsMonotone
  <1>3. CASE Tail(f) = <<>>
    <2>1. gs = RemoveAt(functions, i)
      BY <1>3 DEF answered
    <2> HIDE DEF gs
    <2>2. /\ FunctionsGood(gs, names2, secrets2)
          /\ \A j \in DOMAIN gs : Completes(gs[j]) =>
               \E k \in DOMAIN functions : k # i /\ Completes(functions[k])
      BY <1>2, <2>1, FunctionsRemove
    <2>3. called(i).op = "complete" => Completes(f)
      <3>1. Head(f) = f[1] /\ 1 \in DOMAIN f
        BY <1>1, TailOf
      <3> QED BY <3>1 DEF called, Completes
    <2>4. called(i).op = "complete" => \A j \in DOMAIN gs : ~Completes(gs[j])
      BY <2>2, <2>3 DEF FunctionsGood
    <2> QED BY <2>2, <2>4 DEF gs
  <1>4. CASE Tail(f) # <<>>
    <2>1. gs = [functions EXCEPT ![i] = Tail(f)]
      BY <1>4 DEF answered, next
    <2>2. /\ FunctionGood(Tail(f), names2, secrets2) /\ (Completes(Tail(f)) => Completes(f))
          /\ called(i).op # "complete"
      BY <1>1, <1>4, TailGood DEF called
    <2>3. FunctionsGood(gs, names2, secrets2)
      <3> DEFINE g == Tail(functions[i])
      <3>1. /\ FunctionGood(g, names2, secrets2) /\ (Completes(g) => Completes(functions[i]))
            /\ gs = [functions EXCEPT ![i] = g]
        BY <2>1, <2>2
      <3> HIDE DEF g, gs
      <3> QED BY <1>2, <3>1, FunctionsReplace
    <2>4. DOMAIN gs = DOMAIN functions
          /\ \A j \in DOMAIN functions : gs[j] = IF j = i THEN Tail(f) ELSE functions[j]
      BY <2>1 DEF FunctionsGood
    <2> HIDE DEF gs
    <2>5. (\E j \in DOMAIN gs : Completes(gs[j])) => \E j \in DOMAIN functions : Completes(functions[j])
      BY <2>2, <2>4
    <2> QED BY <2>2, <2>3, <2>5 DEF gs
  <1> QED BY <1>3, <1>4

-----------------------------------------------------------------------------
(* Files *)

LEMMA RecoveredCases ==
  ASSUME NEW file, NEW empty, NEW contents, IsFile(file, contents)
  PROVE  LET kept == recovered([file EXCEPT !.tmp = Absent], empty) IN
         /\ file.main # Absent => recovered(file, empty) = kept
         /\ file.main = Absent => kept = empty
         /\ file.main = Absent /\ file.tmp = Absent => recovered(file, empty) = empty
         /\ \A c : file.main = Absent /\ file.tmp = Whole(c) => recovered(file, empty) = c
         /\ file.main = Absent /\ file.tmp = Torn => recovered(file, empty) = empty
         /\ \A c : file.main = Whole(c) => recovered(file, empty) = c
  <1>1. file = [main |-> file.main, tmp |-> file.tmp]
    BY DEF IsFile
  <1>2. /\ [file EXCEPT !.tmp = Absent].main = file.main
        /\ [file EXCEPT !.tmp = Absent].tmp = Absent
    BY <1>1
  <1> QED BY <1>2 DEF recovered, Absent, Torn, Whole

\* A file that is not there yet is read from the file first written to.
LEMMA RecoveredNew ==
  \A file, empty, c : file.main = Absent /\ file.tmp = Whole(c) => recovered(file, empty) = c
  BY DEF recovered, Absent, Whole

\* What a launch would read while the program runs.
LEMMA Loaded ==
  ASSUME DiskOK, MemoryOK, Running
  PROVE  /\ loadedStore = IF Pending("store") /\ disk.store.main = Absent THEN store ELSE acked.store
         /\ loadedKeys = IF Pending("keys") /\ disk.keys.main = Absent THEN keys ELSE mainKeys
         /\ disk.store.main = Absent => acked.store = emptyStore
         /\ disk.keys.main = Absent => mainKeys = {}
  <1>1. /\ IsFile(disk.store, Stores) /\ IsFile(disk.keys, SUBSET Profile)
        /\ mainStore = acked.store
        /\ IF Pending("store") THEN disk.store.tmp = Whole(store)
           ELSE store = acked.store /\ (disk.store.main = Absent => disk.store.tmp = Absent)
        /\ IF Pending("keys") THEN disk.keys.tmp = Whole(keys) /\ mainKeys = acked.keys
           ELSE mainKeys = keys /\ (disk.keys.main = Absent => disk.keys.tmp = Absent)
    BY DEF DiskOK
  <1>2. migrate(store) = store /\ migrate(emptyStore) = emptyStore
    BY MigrateKeeps, EmptyGood DEF MemoryOK
  <1>3. disk.store.main = Absent => acked.store = emptyStore
    BY <1>1, <1>2, RecoveredCases DEF mainStore
  <1>4. disk.keys.main = Absent => mainKeys = {}
    BY <1>1, RecoveredCases DEF mainKeys
  <1>5. CASE disk.store.main # Absent
    <2>1. loadedStore = mainStore
      BY <1>1, <1>5, RecoveredCases DEF loadedStore, mainStore
    <2>2. CASE disk.keys.main # Absent
      BY <1>1, <1>3, <1>4, <1>5, <2>1, <2>2, RecoveredCases DEF loadedKeys, mainKeys
    <2>3. CASE disk.keys.main = Absent
      <3>1. loadedKeys = IF Pending("keys") THEN keys ELSE {}
        BY <1>1, <2>3, RecoveredCases DEF loadedKeys
      <3> QED BY <1>1, <1>3, <1>4, <1>5, <2>1, <2>3, <3>1
    <2> QED BY <2>2, <2>3
  <1>6. CASE disk.store.main = Absent
    <2>1. loadedStore = IF Pending("store") THEN store ELSE emptyStore
      BY <1>1, <1>2, <1>6, RecoveredCases DEF loadedStore
    <2>2. CASE disk.keys.main # Absent
      <3>1. loadedKeys = mainKeys
        BY <1>1, <2>2, RecoveredCases DEF loadedKeys, mainKeys
      <3> QED BY <1>3, <1>4, <1>6, <2>1, <2>2, <3>1
    <2>3. CASE disk.keys.main = Absent
      <3>1. loadedKeys = IF Pending("keys") THEN keys ELSE {}
        BY <1>1, <2>3, RecoveredCases DEF loadedKeys
      <3> QED BY <1>3, <1>4, <1>6, <2>1, <2>3, <3>1
    <2> QED BY <2>2, <2>3
  <1> QED BY <1>5, <1>6

-----------------------------------------------------------------------------
(* Memory and files *)

Inner == MemoryOK /\ DiskOK /\ HandlerOK

LEMMA MainStays ==
  ASSUME Inner, UNCHANGED main, Running <=> Running'
  PROVE  Inner'
  <1>1. /\ store' = store /\ keys' = keys /\ disk' = disk /\ handler' = handler
        /\ acked' = acked /\ deleted' = deleted
    BY DEF main
  <1>2. loadedStore' = loadedStore /\ loadedKeys' = loadedKeys
        /\ mainStore' = mainStore /\ mainKeys' = mainKeys
    BY <1>1 DEF loadedStore, loadedKeys, mainStore, mainKeys
  <1>3. \A f : Pending(f)' <=> Pending(f)
    BY <1>1 DEF Pending
  <1>4. MemoryOK'
    BY <1>1, <1>2 DEF Inner, MemoryOK, Configured
  <1>5. DiskOK'
    BY <1>1, <1>2, <1>3 DEF Inner, DiskOK
  <1>6. HandlerOK'
    BY <1>1, <1>3 DEF Inner, HandlerOK
  <1> QED BY <1>4, <1>5, <1>6 DEF Inner

\* What a handler does next, in memory or in the step's new state.
LEMMA Heads ==
  \A h : /\ h = <<rename("store")>> => h # <<>> /\ Head(h) = rename("store") /\ Head(h) # rename("keys")
         /\ h = <<rename("keys")>> => h # <<>> /\ Head(h) = rename("keys") /\ Head(h) # rename("store")
         /\ \A p : h = <<rename("keys"), archive(p)>> =>
                    h # <<>> /\ Head(h) = rename("keys") /\ Head(h) # rename("store")
         /\ \A p : h = <<archive(p)>> =>
                    h # <<>> /\ Head(h) # rename("keys") /\ Head(h) # rename("store")
  <1>1. rename("store") # rename("keys")
    BY DEF rename
  <1>2. \A p : archive(p) # rename("keys") /\ archive(p) # rename("store")
    BY DEF archive, rename
  <1> QED BY <1>1, <1>2

LEMMA HandlerHeads ==
  /\ handler = <<rename("store")>> => Pending("store") /\ ~Pending("keys")
  /\ handler = <<rename("keys")>> => Pending("keys") /\ ~Pending("store")
  /\ handler = <<>> => ~Pending("keys") /\ ~Pending("store")
  /\ \A p : handler = <<rename("keys"), archive(p)>> => Pending("keys") /\ ~Pending("store")
  /\ \A p : handler = <<archive(p)>> => ~Pending("keys") /\ ~Pending("store")
  BY Heads DEF Pending

\* The store is written: its file is renamed by the next step.
LEMMA PersistGood ==
  ASSUME Inner, Running, Running', ~Pending("store"), ~Pending("keys"),
         NEW t, Good(t), Configured(t, keys), NoneArchived(store, t, keys), persist(t),
         handler' = <<rename("store")>>, acked' = acked, deleted' = deleted
  PROVE  Inner'
  <1>1. /\ store' = t /\ keys' = keys /\ disk' = [disk EXCEPT !.store.tmp = Whole(t)]
    BY DEF persist
  <1>2. /\ disk = [store |-> disk.store, keys |-> disk.keys]
        /\ IsFile(disk.store, Stores) /\ IsFile(disk.keys, SUBSET Profile)
        /\ mainStore = acked.store /\ store = acked.store
        /\ mainKeys = keys /\ (disk.keys.main = Absent => disk.keys.tmp = Absent)
    BY DEF Inner, DiskOK
  <1>3. /\ disk'.keys = disk.keys /\ disk'.store.main = disk.store.main
        /\ disk'.store.tmp = Whole(t)
        /\ disk'.store = [disk.store EXCEPT !.tmp = Whole(t)]
        /\ disk' = [store |-> disk'.store, keys |-> disk'.keys]
    BY <1>1, <1>2 DEF IsFile
  <1>4. Whole(t) = Whole(Whole(t).content) /\ Whole(t).content \in Stores
    BY DEF Whole, Good
  <1>5. IsFile(disk'.store, Stores)
    BY <1>2, <1>3, <1>4 DEF IsFile
  <1>6. [disk'.store EXCEPT !.tmp = Absent] = [disk.store EXCEPT !.tmp = Absent]
    BY <1>2, <1>3 DEF IsFile
  <1>7. mainStore' = mainStore /\ mainKeys' = mainKeys
    BY <1>3, <1>6 DEF mainStore, mainKeys
  <1>8. Pending("store")' /\ ~Pending("keys")'
    BY Heads DEF Pending
  <1>9. DiskOK'
    BY <1>1, <1>2, <1>3, <1>5, <1>7, <1>8 DEF DiskOK
  <1>10. HandlerOK'
    BY <1>1, <1>2, <1>8, NoneArchived(store, t, keys) DEF HandlerOK, NoneArchived
  <1>11. /\ Good(store)' /\ Good(acked.store)' /\ keys' \subseteq Profile
         /\ (acked.keys)' \subseteq Profile /\ deleted' \subseteq Profile
         /\ Configured(store, keys)' /\ Configured(acked.store, keys)'
         /\ Configured(acked.store, acked.keys)'
    BY <1>1 DEF Inner, MemoryOK, Configured
  <1>12. loadedStore' \in {t, acked.store} /\ loadedKeys' = keys
    <2>1. loadedKeys' = loadedKeys /\ loadedKeys = mainKeys
      BY <1>3, Loaded DEF loadedKeys, Inner
    <2>2. CASE disk.store.main = Absent
      <3>1. recovered(disk'.store, emptyStore) = t
        BY <1>3, <2>2, RecoveredNew
      <3> QED BY <1>2, <2>1, <3>1, MigrateKeeps DEF loadedStore
    <2>3. CASE disk.store.main # Absent
      <3>1. recovered(disk'.store, emptyStore) =
              recovered([disk'.store EXCEPT !.tmp = Absent], emptyStore)
        BY <1>3, <1>5, <2>3, RecoveredCases
      <3> QED BY <1>2, <1>6, <2>1, <3>1 DEF loadedStore, mainStore
    <2> QED BY <2>2, <2>3
  <1>13. Configured(loadedStore, loadedKeys)'
    BY <1>1, <1>11, <1>12 DEF Configured
  <1>14. MemoryOK'
    BY <1>11, <1>13 DEF MemoryOK
  <1> QED BY <1>9, <1>10, <1>14 DEF Inner

\* The keys are written; one that goes is of a profile the user has deleted.
LEMMA SaveKeysGood ==
  ASSUME Inner, Running, Running', handler = <<>>,
         NEW k, k \subseteq Profile, saveKeys(k), acked' = acked,
         deleted \subseteq deleted', deleted' \subseteq Profile,
         keys \subseteq k \union deleted',
         \/ handler' = <<rename("keys")>>
         \/ \E p \in Profile \ k : handler' = <<rename("keys"), archive(p)>>
  PROVE  Inner'
  <1>1. /\ store' = store /\ keys' = k /\ disk' = [disk EXCEPT !.keys.tmp = Whole(k)]
    BY DEF saveKeys
  <1>2. ~Pending("store") /\ ~Pending("keys") /\ acked.keys = keys
    BY HandlerHeads DEF Inner, HandlerOK
  <1>3. /\ disk = [store |-> disk.store, keys |-> disk.keys]
        /\ IsFile(disk.store, Stores) /\ IsFile(disk.keys, SUBSET Profile)
        /\ mainStore = acked.store /\ store = acked.store
        /\ (disk.store.main = Absent => disk.store.tmp = Absent)
        /\ mainKeys = keys
    BY <1>2 DEF Inner, DiskOK
  <1>4. /\ disk'.store = disk.store /\ disk'.keys.main = disk.keys.main
        /\ disk'.keys.tmp = Whole(k)
        /\ disk'.keys = [disk.keys EXCEPT !.tmp = Whole(k)]
        /\ disk' = [store |-> disk'.store, keys |-> disk'.keys]
    BY <1>1, <1>3 DEF IsFile
  <1>5. Whole(k) = Whole(Whole(k).content) /\ Whole(k).content \in SUBSET Profile
    BY DEF Whole
  <1>6. IsFile(disk'.keys, SUBSET Profile)
    BY <1>3, <1>4, <1>5 DEF IsFile
  <1>7. [disk'.keys EXCEPT !.tmp = Absent] = [disk.keys EXCEPT !.tmp = Absent]
    BY <1>3, <1>4 DEF IsFile
  <1>8. mainStore' = mainStore /\ mainKeys' = mainKeys
    BY <1>4, <1>7 DEF mainStore, mainKeys
  <1>9. Pending("keys")' /\ ~Pending("store")'
    BY Heads DEF Pending
  <1>10. DiskOK'
    BY <1>1, <1>2, <1>3, <1>4, <1>6, <1>8, <1>9 DEF DiskOK
  <1>11. HandlerOK'
    BY <1>1, <1>9 DEF HandlerOK
  <1>12. /\ Good(store)' /\ Good(acked.store)' /\ keys' \subseteq Profile
         /\ (acked.keys)' \subseteq Profile /\ deleted' \subseteq Profile
         /\ Configured(store, keys)' /\ Configured(acked.store, keys)'
         /\ Configured(acked.store, acked.keys)'
    BY <1>1, <1>2 DEF Inner, MemoryOK, Configured
  <1>13. loadedStore' = acked.store /\ loadedKeys' \in {k, acked.keys}
    <2>1. loadedStore' = loadedStore /\ loadedStore = acked.store
      BY <1>2, <1>4, Loaded DEF loadedStore, Inner
    <2>2. CASE disk.keys.main = Absent
      BY <1>4, <2>1, <2>2, RecoveredNew DEF loadedKeys
    <2>3. CASE disk.keys.main # Absent
      BY <1>2, <1>3, <1>4, <1>6, <1>7, <2>1, <2>3, RecoveredCases DEF loadedKeys, mainKeys
    <2> QED BY <2>2, <2>3
  <1>14. Configured(loadedStore, loadedKeys)'
    BY <1>1, <1>12, <1>13 DEF Configured
  <1>15. MemoryOK'
    BY <1>12, <1>14 DEF MemoryOK
  <1> QED BY <1>10, <1>11, <1>15 DEF Inner

\* The rename that ends a write of the store.
LEMMA RenameStore ==
  ASSUME Inner, Running, Running', handler = <<rename("store")>>,
         disk' = [disk EXCEPT !.store = [main |-> @.tmp, tmp |-> Absent]],
         handler' = <<>>, UNCHANGED <<store, keys, deleted>>,
         acked' = [store |-> store, keys |-> keys]
  PROVE  Inner'
  <1>1. store' = store /\ keys' = keys /\ deleted' = deleted
    OBVIOUS
  <1>2. Pending("store") /\ ~Pending("keys")
    BY HandlerHeads
  <1>3. /\ disk = [store |-> disk.store, keys |-> disk.keys]
        /\ IsFile(disk.store, Stores) /\ IsFile(disk.keys, SUBSET Profile)
        /\ disk.store.tmp = Whole(store)
        /\ mainKeys = keys /\ (disk.keys.main = Absent => disk.keys.tmp = Absent)
    BY <1>2 DEF Inner, DiskOK
  <1>4. /\ disk'.keys = disk.keys
        /\ disk'.store = [main |-> Whole(store), tmp |-> Absent]
        /\ disk' = [store |-> disk'.store, keys |-> disk'.keys]
    BY <1>3
  <1>5. Good(store)
    BY DEF Inner, MemoryOK
  <1>6. Whole(store) = Whole(Whole(store).content) /\ Whole(store).content \in Stores
    BY <1>5 DEF Whole, Good
  <1>7. IsFile(disk'.store, Stores)
    BY <1>4, <1>6 DEF IsFile
  <1>8. recovered(disk'.store, emptyStore) = store /\ [disk'.store EXCEPT !.tmp = Absent] = disk'.store
        /\ disk'.store.main # Absent
    BY <1>4 DEF recovered, Whole, Absent
  <1>9. mainStore' = store /\ loadedStore' = store
    BY <1>5, <1>8, MigrateKeeps DEF mainStore, loadedStore
  <1>10. mainKeys' = keys /\ loadedKeys' = keys
    <2>1. mainKeys' = mainKeys /\ loadedKeys' = loadedKeys
      BY <1>4 DEF mainKeys, loadedKeys
    <2> QED BY <1>2, <1>3, <2>1, Loaded DEF Inner
  <1>11. ~Pending("store")' /\ ~Pending("keys")'
    BY DEF Pending
  <1>12. DiskOK'
    BY <1>1, <1>3, <1>4, <1>7, <1>8, <1>9, <1>10, <1>11 DEF DiskOK
  <1>13. HandlerOK'
    BY <1>1, <1>11 DEF HandlerOK
  <1>14. MemoryOK'
    BY <1>1, <1>9, <1>10 DEF Inner, MemoryOK, Configured
  <1> QED BY <1>12, <1>13, <1>14 DEF Inner

\* The rename that ends a write of the keys.
LEMMA RenameKeys ==
  ASSUME Inner, Running, Running', Pending("keys"),
         disk' = [disk EXCEPT !.keys = [main |-> @.tmp, tmp |-> Absent]],
         \/ handler' = <<>> /\ acked' = [store |-> store, keys |-> keys]
         \/ acked' = acked /\ \E p \in Profile \ keys : handler' = <<archive(p)>>,
         UNCHANGED <<store, keys, deleted>>
  PROVE  Inner'
  <1>1. store' = store /\ keys' = keys /\ deleted' = deleted
    OBVIOUS
  <1>2. ~Pending("store")
    BY DEF Pending, rename
  <1>3. /\ disk = [store |-> disk.store, keys |-> disk.keys]
        /\ IsFile(disk.store, Stores) /\ IsFile(disk.keys, SUBSET Profile)
        /\ disk.keys.tmp = Whole(keys)
        /\ mainStore = acked.store /\ store = acked.store
        /\ (disk.store.main = Absent => disk.store.tmp = Absent)
    BY <1>2 DEF Inner, DiskOK
  <1>4. /\ disk'.store = disk.store
        /\ disk'.keys = [main |-> Whole(keys), tmp |-> Absent]
        /\ disk' = [store |-> disk'.store, keys |-> disk'.keys]
    BY <1>3
  <1>5. Whole(keys) = Whole(Whole(keys).content) /\ Whole(keys).content \in SUBSET Profile
    BY DEF Whole, Inner, MemoryOK
  <1>6. IsFile(disk'.keys, SUBSET Profile)
    BY <1>4, <1>5 DEF IsFile
  <1>7. recovered(disk'.keys, {}) = keys /\ [disk'.keys EXCEPT !.tmp = Absent] = disk'.keys
        /\ disk'.keys.main # Absent
    BY <1>4 DEF recovered, Whole, Absent
  <1>8. mainKeys' = keys /\ loadedKeys' = keys
    BY <1>7 DEF mainKeys, loadedKeys
  <1>9. mainStore' = mainStore /\ loadedStore' = acked.store
    <2>1. mainStore' = mainStore /\ loadedStore' = loadedStore
      BY <1>4 DEF mainStore, loadedStore
    <2> QED BY <1>2, <2>1, Loaded DEF Inner
  <1>10. ~Pending("store")' /\ ~Pending("keys")'
    BY Heads DEF Pending
  <1>11. acked'.store = store
    BY <1>3
  <1>12. DiskOK'
    BY <1>1, <1>3, <1>4, <1>6, <1>7, <1>8, <1>9, <1>10, <1>11 DEF DiskOK
  <1>13. HandlerOK'
    BY <1>1, <1>10, Heads DEF HandlerOK
  <1>14. MemoryOK'
    BY <1>1, <1>3, <1>8, <1>9 DEF Inner, MemoryOK, Configured
  <1> QED BY <1>12, <1>13, <1>14 DEF Inner

LEMMA HandlerContinuesGood ==
  ASSUME Inner, HandlerContinues
  PROVE  /\ Inner' /\ profileIds(store) \subseteq profileIds(store)' /\ keys' = keys
         /\ deleted' = deleted
  <1> DEFINE step == Head(handler)
  <1>1. /\ Running /\ Running' /\ handler # <<>> /\ deleted' = deleted
    BY DEF HandlerContinues, renderer, Running
  <1>2. CASE handler = <<rename("store")>>
    <2>1. step = rename("store") /\ Tail(handler) = <<>>
          /\ step.do = "rename" /\ step.file = "store"
      BY <1>2 DEF rename
    <2>2. /\ disk' = [disk EXCEPT !.store = [main |-> @.tmp, tmp |-> Absent]]
          /\ handler' = <<>> /\ UNCHANGED <<store, keys>>
          /\ acked' = [store |-> store', keys |-> keys']
      BY <2>1 DEF HandlerContinues
    <2> QED BY <1>1, <1>2, <2>2, RenameStore DEF profileIds
  <1>3. CASE \/ handler = <<rename("keys")>>
             \/ \E p \in Profile \ keys : handler = <<rename("keys"), archive(p)>>
    <2>1. step = rename("keys")
          /\ (Tail(handler) = <<>> \/ \E p \in Profile \ keys : Tail(handler) = <<archive(p)>>)
          /\ step.do = "rename" /\ step.file = "keys"
      <3>1. step = rename("keys")
        BY <1>3
      <3>2. \A a, b : Tail(<<a>>) = <<>> /\ Tail(<<a, b>>) = <<b>>
        OBVIOUS
      <3>3. Tail(handler) = <<>> \/ \E p \in Profile \ keys : Tail(handler) = <<archive(p)>>
        BY <1>3, <3>2
      <3>4. rename("keys").do = "rename" /\ rename("keys").file = "keys"
        BY DEF rename
      <3> QED BY <3>1, <3>3, <3>4
    <2>2. /\ disk' = [disk EXCEPT !.keys = [main |-> @.tmp, tmp |-> Absent]]
          /\ handler' = Tail(handler) /\ UNCHANGED <<store, keys>>
          /\ acked' = IF handler' = <<>> THEN [store |-> store', keys |-> keys'] ELSE acked
      BY <2>1 DEF HandlerContinues
    <2>3. Pending("keys")
      BY <1>1, <2>1 DEF Pending
    <2>4. \A p : <<archive(p)>> # <<>>
      OBVIOUS
    <2>5. \/ handler' = <<>> /\ acked' = [store |-> store, keys |-> keys]
          \/ acked' = acked /\ \E p \in Profile \ keys : handler' = <<archive(p)>>
      BY <2>1, <2>2, <2>4
    <2> QED BY <1>1, <2>2, <2>3, <2>5, RenameKeys DEF profileIds
  <1>4. ASSUME NEW p \in Profile \ keys, handler = <<archive(p)>>
        PROVE  Inner' /\ profileIds(store) \subseteq profileIds(store)' /\ keys' = keys
    <2> DEFINE t == archiveAgentProfile(store, p)
    <2>1. step = archive(p)
      BY <1>4
    <2>2. /\ persist(t) /\ handler' = <<rename("store")>>
          /\ acked' = IF handler' = <<>> THEN [store |-> store', keys |-> keys'] ELSE acked
      BY <2>1 DEF HandlerContinues, archive
    <2>3. acked' = acked /\ keys' = keys /\ store' = t
      BY <2>2 DEF persist
    <2>4. ~Pending("store") /\ ~Pending("keys")
      BY <1>4, HandlerHeads
    <2>5. /\ Good(t) /\ profileIds(t) = profileIds(store) /\ NoneArchived(store, t, keys)
          /\ t.appState.onboardingComplete = store.appState.onboardingComplete
          /\ t.appState.agentConfigId = store.appState.agentConfigId
      BY ArchiveGood DEF Inner, MemoryOK
    <2> HIDE DEF t
    <2>6. Configured(t, keys)
      BY <2>5 DEF Inner, MemoryOK, Configured
    <2>7. Inner'
      BY <1>1, <2>2, <2>3, <2>4, <2>5, <2>6, PersistGood
    <2> QED BY <2>3, <2>5, <2>7 DEF profileIds
  <1> QED BY <1>1, <1>2, <1>3, <1>4 DEF Inner, HandlerOK

-----------------------------------------------------------------------------
(* A launch, and a kill *)

LEMMA Settled ==
  ASSUME NEW file, NEW empty, NEW contents, IsFile(file, contents)
  PROVE  LET s == settled(file) IN
         /\ IsFile(s, contents) /\ recovered(s, empty) = recovered(file, empty)
         /\ recovered([s EXCEPT !.tmp = Absent], empty) = recovered(file, empty)
         /\ s.main = Absent => s.tmp = Absent
  <1>1. CASE file.main = Absent
    <2>1. settled(file) = [main |-> file.tmp, tmp |-> Absent]
      BY <1>1 DEF settled
    <2>2. [settled(file) EXCEPT !.tmp = Absent] = settled(file)
          /\ settled(file).main = file.tmp /\ settled(file).tmp = Absent
      BY <2>1
    <2>3. recovered(settled(file), empty) = recovered(file, empty)
      BY <1>1, <2>2 DEF recovered
    <2>4. IsFile(settled(file), contents)
      BY <2>1, <2>2 DEF IsFile
    <2> QED BY <2>2, <2>3, <2>4
  <1>2. CASE file.main # Absent
    <2>1. settled(file) = file
      BY <1>2 DEF settled
    <2> QED BY <1>2, <2>1, RecoveredCases
  <1> QED BY <1>1, <1>2

LEMMA LaunchGood ==
  ASSUME Inner, Launch, handler = <<>>
  PROVE  Inner' /\ Running'
  <1>1. /\ ~Running /\ store' = loadedStore /\ keys' = loadedKeys
        /\ disk' = [f \in DOMAIN disk |-> settled(disk[f])]
        /\ acked' = [store |-> store', keys |-> keys']
        /\ handler' = <<>> /\ deleted' = deleted
    BY DEF Launch, Running
  <1>2. Running'
    BY DEF Launch, Running
  <1>3. /\ disk = [store |-> disk.store, keys |-> disk.keys]
        /\ IsFile(disk.store, Stores) /\ IsFile(disk.keys, SUBSET Profile)
        /\ loadedStore \in {acked.store, store} /\ loadedKeys \in {acked.keys, keys}
    BY <1>1 DEF Inner, DiskOK
  <1>4. /\ disk'.store = settled(disk.store) /\ disk'.keys = settled(disk.keys)
        /\ disk' = [store |-> disk'.store, keys |-> disk'.keys]
    <2>1. DOMAIN disk = {"store", "keys"}
      BY <1>3
    <2> QED BY <1>1, <2>1
  <1>5. /\ IsFile(disk'.store, Stores) /\ IsFile(disk'.keys, SUBSET Profile)
        /\ disk'.store.main = Absent => disk'.store.tmp = Absent
        /\ disk'.keys.main = Absent => disk'.keys.tmp = Absent
    BY <1>3, <1>4, Settled
  <1>6. mainStore' = loadedStore /\ loadedStore' = loadedStore
    BY <1>3, <1>4, Settled DEF mainStore, loadedStore
  <1>7. mainKeys' = loadedKeys /\ loadedKeys' = loadedKeys
    BY <1>3, <1>4, Settled DEF mainKeys, loadedKeys
  <1>8. ~Pending("store")' /\ ~Pending("keys")'
    BY <1>1 DEF Pending
  <1>9. acked'.store = loadedStore /\ acked'.keys = loadedKeys
    BY <1>1
  <1>10. DiskOK'
    BY <1>1, <1>2, <1>4, <1>5, <1>6, <1>7, <1>8, <1>9 DEF DiskOK
  <1>11. HandlerOK'
    BY <1>1, <1>8, <1>9 DEF HandlerOK
  <1>12. MemoryOK'
    BY <1>1, <1>3, <1>6, <1>7, <1>9 DEF Inner, MemoryOK, Configured
  <1> QED BY <1>2, <1>10, <1>11, <1>12 DEF Inner

\* A kill leaves the file first written to as it is, or torn.
LEMMA TornFile ==
  ASSUME NEW file, NEW empty, NEW contents, IsFile(file, contents)
  PROVE  LET torn == [file EXCEPT !.tmp = Torn] IN
         /\ IsFile(torn, contents)
         /\ recovered(torn, empty) = recovered([file EXCEPT !.tmp = Absent], empty)
  <1>1. file = [main |-> file.main, tmp |-> file.tmp]
    BY DEF IsFile
  <1>2. [file EXCEPT !.tmp = Torn] = [main |-> file.main, tmp |-> Torn]
        /\ [file EXCEPT !.tmp = Absent] = [main |-> file.main, tmp |-> Absent]
    BY <1>1
  <1> QED BY <1>2 DEF IsFile, recovered, Torn, Absent

LEMMA TornIsFile ==
  ASSUME NEW file, NEW contents, IsFile(file, contents)
  PROVE  IsFile([file EXCEPT !.tmp = Torn], contents)
  BY TornFile

LEMMA KillGood ==
  ASSUME Inner, Kill
  PROVE  Inner' /\ ~Running'
  <1>1. /\ Running /\ store' = store /\ keys' = keys /\ acked' = acked /\ deleted' = deleted
        /\ handler' = <<>>
        /\ disk' \in {disk} \union
             {[disk EXCEPT ![f].tmp = Torn] : f \in {f \in DOMAIN disk : disk[f].tmp # Absent}}
    BY DEF Kill, Running
  <1>2. ~Running'
    BY DEF Kill, Running
  <1>3. /\ disk = [store |-> disk.store, keys |-> disk.keys]
        /\ IsFile(disk.store, Stores) /\ IsFile(disk.keys, SUBSET Profile)
        /\ mainStore = acked.store
        /\ ~Pending("store") => store = acked.store
        /\ mainKeys = IF Pending("keys") THEN acked.keys ELSE keys
    BY <1>1 DEF Inner, DiskOK
  <1>4. ~Pending("store") \/ ~Pending("keys")
    BY DEF Pending, rename
  <1>5. /\ disk' = [store |-> disk'.store, keys |-> disk'.keys]
        /\ \/ disk'.store = disk.store
           \/ disk'.store = [disk.store EXCEPT !.tmp = Torn]
        /\ \/ disk'.keys = disk.keys
           \/ disk'.keys = [disk.keys EXCEPT !.tmp = Torn]
    <2>1. DOMAIN disk = {"store", "keys"}
      BY <1>3
    <2>2. CASE disk' = disk
      BY <1>3, <2>2
    <2>3. CASE disk' = [disk EXCEPT !.store.tmp = Torn]
      BY <1>3, <2>3
    <2>4. CASE disk' = [disk EXCEPT !.keys.tmp = Torn]
      BY <1>3, <2>4
    <2> QED BY <1>1, <2>1, <2>2, <2>3, <2>4
  <1>6. IsFile(disk'.store, Stores) /\ IsFile(disk'.keys, SUBSET Profile)
    BY <1>3, <1>5, TornIsFile
  <1>7. loadedStore' \in {loadedStore, mainStore}
    BY <1>3, <1>5, TornFile DEF loadedStore, mainStore
  <1>8. loadedKeys' \in {loadedKeys, mainKeys}
    BY <1>3, <1>5, TornFile DEF loadedKeys, mainKeys
  <1>9. /\ loadedStore' \in {acked.store, store} /\ loadedKeys' \in {acked.keys, keys}
        /\ loadedStore' # acked.store => Pending("store") /\ loadedStore' = store
        /\ loadedKeys' # keys => Pending("keys") /\ loadedKeys' = acked.keys
    BY <1>1, <1>3, <1>7, <1>8, Loaded DEF Inner
  <1>10. DiskOK'
    BY <1>1, <1>2, <1>5, <1>6, <1>9 DEF DiskOK
  <1>11. HandlerOK'
    BY <1>1, <1>2 DEF HandlerOK, Pending
  <1>12. MemoryOK'
    BY <1>1, <1>4, <1>9 DEF Inner, MemoryOK, Configured
  <1> QED BY <1>2, <1>10, <1>11, <1>12 DEF Inner

-----------------------------------------------------------------------------
(* Calls that are made and served *)

\* A call that asks nothing of the calls before it.
SimpleCalls(names) ==
  {c \in Call : /\ c.op \in OnProfile => c.profile \in Record /\ ~c.profile.archived
                /\ c.op = "set_default" => c.profile.id \in names
                /\ c.op \notin {"set_app_state", "complete"}}

LEMMA CallsMade ==
  ASSUME NEW names, NEW record \in Record
  PROVE  /\ \A op \in {"save_config", "set_secret", "test", "verdict", "delete"} :
              call(op, record) \in SimpleCalls(names)
         /\ record.id \in names => call("set_default", record) \in SimpleCalls(names)
         /\ ~record.archived => save(record) \in SimpleCalls(names)
  <1>1. newRecord(record.id, FALSE) \in Record /\ ~newRecord(record.id, FALSE).archived
        /\ newRecord(record.id, FALSE).id = record.id
    BY NewRecord DEF Record
  <1>2. \A op \in Calls : call(op, record) \in Call /\ call(op, record).op = op
                            /\ call(op, record).profile = newRecord(record.id, FALSE)
    BY <1>1 DEF call, Call
  <1>3. save(record) \in Call /\ save(record).op = "save_profile" /\ save(record).profile = record
    BY DEF save, Call, Calls
  <1>4. \A op \in {"save_config", "set_secret", "test", "verdict", "delete", "set_default"} : op \in Calls
    BY DEF Calls
  <1>5. \A op \in {"save_config", "set_secret", "test", "verdict", "delete"} :
          call(op, record) \in SimpleCalls(names)
    BY <1>1, <1>2, <1>4 DEF SimpleCalls
  <1>6. record.id \in names => call("set_default", record) \in SimpleCalls(names)
    BY <1>1, <1>2, <1>4 DEF SimpleCalls
  <1>7. ~record.archived => save(record) \in SimpleCalls(names)
    BY <1>3 DEF SimpleCalls
  <1> QED BY <1>5, <1>6, <1>7

LEMMA CallsDone ==
  ASSUME NEW names
  PROVE  do("list") \in SimpleCalls(names) /\ do("saved") \in SimpleCalls(names)
  <1>1. \A op \in {"list", "saved"} : do(op) \in Call /\ do(op).op = op
    BY DEF do, Call, Calls
  <1> QED BY <1>1 DEF SimpleCalls, OnProfile

LEMMA SimpleGood ==
  ASSUME NEW names, NEW secrets, NEW f \in Seq(SimpleCalls(names)), f # <<>>
  PROVE  FunctionGood(f, names, secrets) /\ ~Completes(f)
  <1>1. f \in Seq(Call)
    <2>1. SimpleCalls(names) \subseteq Call
      BY DEF SimpleCalls
    <2> QED BY <2>1
  <1>2. \A j \in DOMAIN f : f[j] \in SimpleCalls(names)
    OBVIOUS
  <1>3. \A j \in DOMAIN f : CallGood(f, j, names, secrets)
    BY <1>2 DEF SimpleCalls, CallGood
  <1>4. ~Completes(f)
    BY <1>2 DEF SimpleCalls, Completes
  <1> QED BY <1>1, <1>3, <1>4 DEF FunctionGood

\* What a served call names is there.
LEMMA CalledGood ==
  ASSUME FunctionsOK, NEW i \in DOMAIN functions
  PROVE  /\ functions[i] \in Seq(Call) /\ functions[i] # <<>>
         /\ called(i) \in Call
         /\ called(i).op \in OnProfile => called(i).profile \in Record /\ ~called(i).profile.archived
         /\ called(i).op = "set_default" => called(i).profile.id \in profileIds(store)
         /\ called(i).op = "set_app_state" =>
              called(i).profile.id \in profileIds(store) /\ called(i).profile.id \in keys \union deleted
         /\ called(i).op = "complete" => screen = "connect" /\ form.saving
  <1> DEFINE f == functions[i]
  <1>1. FunctionGood(f, profileIds(store), keys \union deleted) /\ f \in Seq(Call) /\ f # <<>>
    BY DEF FunctionsOK, FunctionsGood, FunctionGood
  <1>2. /\ called(i) = f[1] /\ 1 \in DOMAIN f
    BY <1>1, TailOf DEF called
  <1>3. CallGood(f, 1, profileIds(store), keys \union deleted)
    BY <1>1, <1>2 DEF FunctionGood
  <1>4. ~ \E j \in 1..(1-1) : TRUE
    OBVIOUS
  <1>5. called(i).op = "complete" => Completes(f)
    BY <1>2 DEF Completes
  <1>6. called(i) \in Call
    BY <1>1, <1>2
  <1>7. called(i).op = "complete" => screen = "connect" /\ form.saving
    BY <1>5 DEF FunctionsOK
  <1> QED BY <1>1, <1>2, <1>3, <1>4, <1>6, <1>7 DEF CallGood

LEMMA ServedGood ==
  ASSUME FunctionsOK, NEW i \in DOMAIN functions, functions' = answered(i),
         called(i).op # "complete" => screen' = screen /\ form'.saving = form.saving,
         profileIds(store) \subseteq profileIds(store)', keys \union deleted \subseteq (keys \union deleted)',
         called(i).op = "save_config" => called(i).profile.id \in profileIds(store)',
         called(i).op = "set_secret" => called(i).profile.id \in (keys \union deleted)'
  PROVE  FunctionsOK'
  <1> DEFINE names == profileIds(store)
             secrets == keys \union deleted
             gs == answered(i)
  <1>1. FunctionsGood(functions, names, secrets)
    BY DEF FunctionsOK
  <1>2. /\ FunctionsGood(gs, names', secrets')
        /\ (\E j \in DOMAIN gs : Completes(gs[j])) => \E j \in DOMAIN functions : Completes(functions[j])
        /\ called(i).op = "complete" => \A j \in DOMAIN gs : ~Completes(gs[j])
    BY <1>1, AnsweredGood
  <1> HIDE DEF gs
  <1>3. functions' = gs
    BY DEF gs
  <1>4. \A j \in DOMAIN gs : Completes(gs[j]) => screen' = "connect" /\ form'.saving
    BY <1>2 DEF FunctionsOK
  <1> QED BY <1>2, <1>3, <1>4 DEF FunctionsOK, Completes

\* On the screen of the app no set-up is under way.
LEMMA ServedApp ==
  ASSUME FunctionsOK, NEW i \in DOMAIN functions, functions' = answered(i), screen = "app",
         UNCHANGED <<store, keys, deleted>>, called(i).op \notin {"save_config", "set_secret"}
  PROVE  FunctionsOK'
  <1> DEFINE names == profileIds(store)
             secrets == keys \union deleted
             gs == answered(i)
  <1>1. FunctionsGood(functions, names, secrets)
    BY DEF FunctionsOK
  <1>2. /\ FunctionsGood(gs, names, secrets)
        /\ (\E j \in DOMAIN gs : Completes(gs[j])) => \E j \in DOMAIN functions : Completes(functions[j])
    BY <1>1, AnsweredGood
  <1>3. \A j \in DOMAIN functions : ~Completes(functions[j])
    BY DEF FunctionsOK
  <1> HIDE DEF gs
  <1>4. functions' = gs /\ names' = names /\ secrets' = secrets
    BY DEF gs, profileIds
  <1> QED BY <1>2, <1>3, <1>4 DEF FunctionsOK, Completes

LEMMA FunctionsStay ==
  ASSUME FunctionsOK, functions' = functions,
         profileIds(store) \subseteq profileIds(store)', keys \union deleted \subseteq (keys \union deleted)',
         screen = "connect" /\ form.saving => screen' = "connect" /\ form'.saving
  PROVE  FunctionsOK'
  <1>1. FunctionsGood(functions, profileIds(store), keys \union deleted)
    BY DEF FunctionsOK
  <1>2. FunctionsGood(functions, profileIds(store)', (keys \union deleted)')
    BY <1>1, FunctionsMonotone
  <1>3. FunctionsGood(functions, profileIds(store), keys \union deleted)'
    BY <1>2
  <1> QED BY <1>3 DEF FunctionsOK, Completes

LEMMA StartGood ==
  ASSUME FunctionsOK, NEW calls, Start(calls),
         FunctionGood(calls, profileIds(store), keys \union deleted),
         Completes(calls) => screen = "connect" /\ ~form.saving /\ form'.saving,
         UNCHANGED <<store, keys, deleted, screen>>,
         screen = "connect" /\ form.saving => form'.saving
  PROVE  FunctionsOK'
  <1> DEFINE names == profileIds(store)
             secrets == keys \union deleted
             gs == Append(functions, calls)
  <1>1. FunctionsGood(functions, names, secrets) /\ functions \in Seq(Seq(Call)) /\ calls \in Seq(Call)
    BY DEF FunctionsOK, FunctionsGood, FunctionGood
  <1>2. Completes(calls) => \A i \in DOMAIN functions : ~Completes(functions[i])
    BY DEF FunctionsOK
  <1>3. FunctionsGood(gs, names, secrets)
    BY <1>1, <1>2, FunctionsAppend
  <1>4. functions' = gs
    BY DEF Start
  <1>5. \A i \in DOMAIN gs : (i \in DOMAIN functions /\ gs[i] = functions[i]) \/ gs[i] = calls
    BY <1>1, Appended
  <1> HIDE DEF gs
  <1>6. \A i \in DOMAIN gs : Completes(gs[i]) => screen' = "connect" /\ form'.saving
    BY <1>5 DEF FunctionsOK
  <1>7. names' = names /\ secrets' = secrets
    BY DEF profileIds
  <1> QED BY <1>3, <1>4, <1>6, <1>7 DEF FunctionsOK, Completes

LEMMA StartSimple ==
  ASSUME FunctionsOK, NEW calls \in Seq(SimpleCalls(profileIds(store))), calls # <<>>, Start(calls),
         UNCHANGED <<store, keys, deleted, screen>>,
         screen = "connect" /\ form.saving => form'.saving
  PROVE  FunctionsOK'
  BY StartGood, SimpleGood

-----------------------------------------------------------------------------
(* Screens *)

LEMMA TestedForm ==
  ASSUME ScreensOK, NEW p, NEW status \in Status
  PROVE  LET f == tested(p, status) IN
         /\ f \in Forms /\ f.profile = form.profile /\ f.saving = form.saving
         /\ f.status # "none" => form.status # "none" \/ form.profile # NoProfile
  BY DEF tested, ScreensOK, Forms

LEMMA ScreensStay ==
  ASSUME ScreensOK, Running, screen' = screen, modal' = modal, list' = list,
         form' = form \/ \E p : \E status \in Status : form' = tested(p, status),
         profileIds(store) \subseteq profileIds(store)'
  PROVE  ScreensOK' /\ form'.saving = form.saving /\ Running'
  <1>1. /\ form' \in Forms /\ form'.profile = form.profile /\ form'.saving = form.saving
        /\ form'.status # "none" => form.status # "none" \/ form.profile # NoProfile
    BY TestedForm DEF ScreensOK
  <1>2. OnForm' <=> OnForm
    BY <1>1 DEF OnForm
  <1>3. Running'
    BY DEF Running
  <1>4. ids(list)' = ids(list)
    BY DEF ids
  <1> QED BY <1>1, <1>2, <1>3, <1>4 DEF ScreensOK

-----------------------------------------------------------------------------
(* Handlers *)

\* What a served handler leaves to the calls after it, and to the screens.
LEMMA Served ==
  ASSUME IInv, NEW i \in DOMAIN functions, serve(i), Inner', called(i).op # "complete",
         modal' = modal, list' = list,
         form' = form \/ \E p : \E status \in Status : form' = tested(p, status),
         profileIds(store) \subseteq profileIds(store)', keys \union deleted \subseteq (keys \union deleted)',
         called(i).op = "save_config" => called(i).profile.id \in profileIds(store)',
         called(i).op = "set_secret" => called(i).profile.id \in (keys \union deleted)'
  PROVE  IInv'
  <1>1. Running /\ screen' = screen /\ functions' = answered(i)
    BY DEF serve, Running
  <1>2. ScreensOK' /\ form'.saving = form.saving
    BY <1>1, ScreensStay DEF IInv
  <1>3. FunctionsOK'
    BY <1>1, <1>2, ServedGood DEF IInv
  <1> QED BY <1>2, <1>3 DEF IInv, Inner

\* A handler that writes the store t.
LEMMA Persisted ==
  ASSUME IInv, NEW i \in DOMAIN functions, serve(i), called(i).op \notin {"complete", "set_secret"},
         NEW t, persistThenReply(t), Good(t), NoneArchived(store, t, keys), Configured(t, keys),
         profileIds(store) \subseteq profileIds(t),
         called(i).op = "save_config" => called(i).profile.id \in profileIds(t),
         UNCHANGED <<deleted, modal, list>>,
         form' = form \/ \E p : \E status \in Status : form' = tested(p, status)
  PROVE  IInv'
  <1>1. /\ Running /\ handler = <<>> /\ screen' = screen /\ acked' = acked /\ Running'
    BY DEF serve, Running
  <1>2. persist(t) /\ handler' = <<rename("store")>> /\ store' = t /\ keys' = keys
    BY DEF persistThenReply, persist
  <1>3. ~Pending("store") /\ ~Pending("keys")
    BY <1>1, HandlerHeads
  <1>4. Inner'
    BY <1>1, <1>2, <1>3, PersistGood DEF IInv, Inner
  <1>5. profileIds(store)' = profileIds(t)
    BY <1>2 DEF profileIds
  <1> QED BY <1>2, <1>4, <1>5, Served

LEMMA ConfiguredStays ==
  ASSUME NEW s, NEW t, NEW k, Configured(s, k), profileIds(s) \subseteq profileIds(t),
         t.appState.onboardingComplete = s.appState.onboardingComplete,
         t.appState.agentConfigId = s.appState.agentConfigId
  PROVE  Configured(t, k)
  BY DEF Configured

LEMMA ProfileSaveStep == IInv /\ ProfileSave => IInv'
  <1> SUFFICES ASSUME IInv, ProfileSave PROVE IInv'
    OBVIOUS
  <1>1. PICK i \in DOMAIN functions :
          /\ serve(i) /\ called(i).op = "save_profile"
          /\ persistThenReply(saveAgentProfile(store, called(i).profile))
          /\ UNCHANGED <<deleted, modal, list, form>>
    BY DEF ProfileSave
  <1> DEFINE record == called(i).profile
             t == saveAgentProfile(store, record)
  <1>2. record \in Record /\ ~record.archived
    BY <1>1, CalledGood DEF IInv, OnProfile
  <1>3. /\ Good(t) /\ profileIds(t) = profileIds(store) \union {record.id} /\ NoneArchived(store, t, keys)
        /\ t.appState.onboardingComplete = store.appState.onboardingComplete
        /\ t.appState.agentConfigId = store.appState.agentConfigId
    BY <1>2, SaveGood DEF IInv, MemoryOK
  <1> HIDE DEF t
  <1>4. Configured(t, keys)
    BY <1>3, ConfiguredStays DEF IInv, MemoryOK
  <1>5. persistThenReply(t) /\ profileIds(store) \subseteq profileIds(t)
    BY <1>1, <1>3 DEF t
  <1> QED BY <1>1, <1>3, <1>4, <1>5, Persisted

LEMMA ConfigSaveStep == IInv /\ ConfigSave => IInv'
  <1> SUFFICES ASSUME IInv, ConfigSave PROVE IInv'
    OBVIOUS
  <1>1. PICK i \in DOMAIN functions :
          /\ serve(i) /\ called(i).op = "save_config"
          /\ persistThenReply(saveAgentConfig(store, called(i).profile.id))
          /\ UNCHANGED <<deleted, modal, list, form>>
    BY DEF ConfigSave
  <1> DEFINE p == called(i).profile.id
             t == saveAgentConfig(store, p)
  <1>2. p \in Profile
    BY <1>1, CalledGood DEF IInv, OnProfile, Record
  <1>3. /\ Good(t) /\ profileIds(t) = profileIds(store) \union {p} /\ NoneArchived(store, t, keys)
        /\ t.appState.onboardingComplete = store.appState.onboardingComplete
        /\ t.appState.agentConfigId = store.appState.agentConfigId
    BY <1>2, SaveConfigGood DEF IInv, MemoryOK
  <1> HIDE DEF t
  <1>4. Configured(t, keys)
    BY <1>3, ConfiguredStays DEF IInv, MemoryOK
  <1>5. persistThenReply(t) /\ profileIds(store) \subseteq profileIds(t) /\ p \in profileIds(t)
    BY <1>1, <1>3 DEF t
  <1> QED BY <1>1, <1>3, <1>4, <1>5, Persisted

LEMMA ProfileSetDefaultStep == IInv /\ ProfileSetDefault => IInv'
  <1> SUFFICES ASSUME IInv, ProfileSetDefault PROVE IInv'
    OBVIOUS
  <1>1. PICK i \in DOMAIN functions :
          /\ serve(i) /\ called(i).op = "set_default"
          /\ persistThenReply(setDefaultAgentProfile(store, called(i).profile.id))
          /\ UNCHANGED <<deleted, modal, list, form>>
    BY DEF ProfileSetDefault
  <1> DEFINE p == called(i).profile.id
             t == setDefaultAgentProfile(store, p)
  <1>2. p \in profileIds(store)
    BY <1>1, CalledGood DEF IInv
  <1>3. /\ Good(t) /\ profileIds(t) = profileIds(store) /\ NoneArchived(store, t, keys)
        /\ t.appState.onboardingComplete = store.appState.onboardingComplete
        /\ t.appState.agentConfigId = store.appState.agentConfigId
    BY <1>2, SetDefaultGood DEF IInv, MemoryOK
  <1> HIDE DEF t
  <1>4. Configured(t, keys)
    BY <1>3, ConfiguredStays DEF IInv, MemoryOK
  <1>5. persistThenReply(t) /\ profileIds(store) \subseteq profileIds(t)
    BY <1>1, <1>3 DEF t
  <1> QED BY <1>1, <1>3, <1>4, <1>5, Persisted

LEMMA AppStateSetStep == IInv /\ AppStateSet => IInv'
  <1> SUFFICES ASSUME IInv, AppStateSet PROVE IInv'
    OBVIOUS
  <1>1. PICK i \in DOMAIN functions :
          /\ serve(i) /\ called(i).op = "set_app_state"
          /\ persistThenReply([store EXCEPT !.appState =
                                 [onboardingComplete |-> TRUE, agentConfigId |-> called(i).profile.id,
                                  default |-> called(i).profile.id]])
          /\ UNCHANGED <<deleted, modal, list, form>>
    BY DEF AppStateSet
  <1> DEFINE p == called(i).profile.id
             t == [store EXCEPT !.appState = [onboardingComplete |-> TRUE, agentConfigId |-> p, default |-> p]]
  <1>2. p \in profileIds(store) /\ p \in keys \union deleted /\ p \in Profile
    BY <1>1, CalledGood DEF IInv, MemoryOK, Good, OnProfile, Record
  <1>3. store \in Stores /\ Good(store)
    BY DEF IInv, MemoryOK, Good
  <1>4. /\ t \in Stores /\ t.profiles = store.profiles /\ t.agentConfig = store.agentConfig
        /\ t.appState = [onboardingComplete |-> TRUE, agentConfigId |-> p, default |-> p]
    BY <1>2, <1>3 DEF Stores
  <1> HIDE DEF t
  <1>5. profileIds(t) = profileIds(store)
    BY <1>4 DEF profileIds
  <1>6. Good(t)
    BY <1>2, <1>3, <1>4, <1>5 DEF Good, UniqueIds, AtMostOneDefault
  <1>7. NoneArchived(store, t, keys)
    BY <1>3, <1>4 DEF NoneArchived, Good, UniqueIds
  <1>8. Configured(t, keys)
    BY <1>2, <1>4, <1>5 DEF Configured
  <1>9. persistThenReply(t)
    BY <1>1 DEF t
  <1> QED BY <1>1, <1>5, <1>6, <1>7, <1>8, <1>9, Persisted

LEMMA SecretSetStep == IInv /\ SecretSet => IInv'
  <1> SUFFICES ASSUME IInv, SecretSet PROVE IInv'
    OBVIOUS
  <1>1. PICK i \in DOMAIN functions :
          /\ serve(i) /\ called(i).op = "set_secret"
          /\ saveKeys(keys \union {called(i).profile.id}) /\ handler' = <<rename("keys")>>
          /\ UNCHANGED <<deleted, modal, list, form>>
    BY DEF SecretSet
  <1> DEFINE p == called(i).profile.id
             k == keys \union {p}
  <1>2. k \subseteq Profile /\ keys \subseteq k \union deleted' /\ deleted' \subseteq Profile
        /\ deleted \subseteq deleted'
    BY <1>1, CalledGood DEF IInv, MemoryOK, OnProfile, Record
  <1>3. Running /\ Running' /\ handler = <<>> /\ acked' = acked
    BY <1>1 DEF serve, Running
  <1>4. Inner'
    BY <1>1, <1>2, <1>3, SaveKeysGood DEF IInv, Inner
  <1>5. keys' = k /\ store' = store
    BY <1>1 DEF saveKeys
  <1>6. profileIds(store)' = profileIds(store) /\ deleted' = deleted
    BY <1>1, <1>5 DEF profileIds
  <1> QED BY <1>1, <1>4, <1>5, <1>6, Served

LEMMA ProfileDeleteStep == IInv /\ ProfileDelete => IInv'
  <1> SUFFICES ASSUME IInv, ProfileDelete PROVE IInv'
    OBVIOUS
  <1>1. PICK i \in DOMAIN functions :
          /\ serve(i) /\ called(i).op = "delete"
          /\ saveKeys(keys \ {called(i).profile.id})
          /\ handler' = <<rename("keys"), archive(called(i).profile.id)>>
          /\ deleted' = deleted \union {called(i).profile.id}
          /\ UNCHANGED <<modal, list, form>>
    BY DEF ProfileDelete
  <1> DEFINE p == called(i).profile.id
             k == keys \ {p}
  <1>2. p \in Profile
    BY <1>1, CalledGood DEF IInv, OnProfile, Record
  <1>3. k \subseteq Profile /\ keys \subseteq k \union deleted' /\ deleted' \subseteq Profile
        /\ deleted \subseteq deleted' /\ p \in Profile \ k
    BY <1>1, <1>2 DEF IInv, MemoryOK
  <1>4. Running /\ Running' /\ handler = <<>> /\ acked' = acked
    BY <1>1 DEF serve, Running
  <1>5. Inner'
    BY <1>1, <1>3, <1>4, SaveKeysGood DEF IInv, Inner
  <1>6. keys' = k /\ store' = store
    BY <1>1 DEF saveKeys
  <1>7. profileIds(store)' = profileIds(store) /\ keys \union deleted \subseteq (keys \union deleted)'
    BY <1>3, <1>6 DEF profileIds
  <1> QED BY <1>1, <1>5, <1>7, Served

LEMMA TestAnsweredStep == IInv /\ TestAnswered => IInv'
  <1> SUFFICES ASSUME IInv, TestAnswered PROVE IInv'
    OBVIOUS
  <1>1. PICK i \in DOMAIN functions, status \in testConnection :
          /\ serve(i) /\ called(i).op = "verdict"
          /\ IF called(i).profile.id \in profileIds(store)
             THEN persistThenReply(updateAgentProfileStatus(store, called(i).profile.id, status))
             ELSE UNCHANGED <<store, keys, disk, handler>>
          /\ form' = tested(called(i).profile.id, status)
          /\ UNCHANGED <<deleted, modal, list>>
    BY DEF TestAnswered
  <1> DEFINE p == called(i).profile.id
             t == updateAgentProfileStatus(store, p, status)
  <1>2. status \in Status
    <2>1. testConnection \subseteq Status
      BY ProfilesAssumption DEF testConnection, classifyError, Status, Reply
    <2> QED BY <2>1
  <1>3. CASE p \in profileIds(store)
    <2>1. /\ Good(t) /\ profileIds(t) = profileIds(store) /\ NoneArchived(store, t, keys)
          /\ t.appState = store.appState
      BY <1>2, UpdateStatusGood DEF IInv, MemoryOK
    <2> HIDE DEF t
    <2>2. Configured(t, keys)
      BY <2>1, ConfiguredStays DEF IInv, MemoryOK
    <2>3. persistThenReply(t)
      BY <1>1, <1>3 DEF t
    <2> QED BY <1>1, <1>2, <2>1, <2>2, <2>3, Persisted
  <1>4. CASE p \notin profileIds(store)
    <2>1. UNCHANGED main /\ Running /\ Running'
      BY <1>1, <1>4 DEF serve, main, Running
    <2>2. Inner'
      BY <2>1, MainStays DEF IInv, Inner
    <2>3. profileIds(store)' = profileIds(store) /\ keys' = keys /\ deleted' = deleted
      BY <2>1 DEF main, profileIds
    <2> QED BY <1>1, <1>2, <2>2, <2>3, Served
  <1> QED BY <1>3, <1>4

LEMMA TestConnectionStep == IInv /\ TestConnection => IInv'
  <1> SUFFICES ASSUME IInv, TestConnection PROVE IInv'
    OBVIOUS
  <1>1. PICK i \in DOMAIN functions :
          /\ screen # "off" /\ called(i).op = "test"
          /\ IF called(i).profile.id \in keys
             THEN /\ functions' = [functions EXCEPT ![i] = <<[called(i) EXCEPT !.op = "verdict"]>>]
                  /\ UNCHANGED form
             ELSE /\ functions' = answered(i)
                  /\ form' = tested(called(i).profile.id, "auth_failed")
          /\ UNCHANGED <<main, screen, modal, list>>
    BY DEF TestConnection
  <1>2. Running /\ Running' /\ Inner'
    BY <1>1, MainStays DEF IInv, Inner, Running
  <1>3. profileIds(store)' = profileIds(store) /\ keys' = keys /\ deleted' = deleted
        /\ screen' = screen /\ modal' = modal /\ list' = list
    BY <1>1 DEF main, profileIds
  <1>4. "auth_failed" \in Status
    BY DEF Status
  <1>5. ScreensOK' /\ form'.saving = form.saving
    BY <1>1, <1>2, <1>3, <1>4, ScreensStay DEF IInv
  <1>6. FunctionsOK'
    <2>1. CASE functions' = answered(i)
      BY <1>1, <1>3, <1>5, <2>1, ServedGood DEF IInv
    <2>2. CASE functions' = [functions EXCEPT ![i] = <<[called(i) EXCEPT !.op = "verdict"]>>]
      <3> DEFINE c == [called(i) EXCEPT !.op = "verdict"]
                 g == <<c>>
                 names == profileIds(store)
                 secrets == keys \union deleted
      <3>1. /\ called(i) \in Call /\ called(i).profile \in Record /\ ~called(i).profile.archived
        BY <1>1, CalledGood DEF IInv, OnProfile
      <3>2. c \in Call /\ c.op = "verdict" /\ c.profile = called(i).profile
        BY <3>1 DEF Call, Calls
      <3>3. c \in SimpleCalls(names)
        BY <3>1, <3>2 DEF SimpleCalls
      <3>4. g \in Seq(SimpleCalls(names)) /\ g # <<>>
        BY <3>3
      <3>5. FunctionGood(g, names, secrets) /\ ~Completes(g)
        BY <3>4, SimpleGood
      <3>6. FunctionsGood(functions, names, secrets) /\ functions' = [functions EXCEPT ![i] = g]
        BY <2>2 DEF IInv, FunctionsOK
      <3> HIDE DEF g
      <3>7. FunctionsGood(functions', names, secrets)
        BY <3>5, <3>6, FunctionsReplace
      <3>8. \A j \in DOMAIN functions' : Completes(functions'[j]) =>
              j \in DOMAIN functions /\ Completes(functions[j])
        BY <3>5, <3>6 DEF FunctionsGood
      <3>9. \A j \in DOMAIN functions' : Completes(functions'[j]) => screen' = "connect" /\ form'.saving
        BY <1>3, <1>5, <3>8 DEF IInv, FunctionsOK
      <3>10. names' = names /\ secrets' = secrets
        BY <1>3
      <3> HIDE DEF names, secrets
      <3>11. FunctionsGood(functions, names, secrets)'
        BY <3>7, <3>10
      <3> QED BY <3>9, <3>11 DEF FunctionsOK, Completes, names, secrets
    <2> QED BY <1>1, <2>1, <2>2
  <1> QED BY <1>2, <1>5, <1>6 DEF IInv, Inner

LEMMA ProfileListStep == IInv /\ ProfileList => IInv'
  <1> SUFFICES ASSUME IInv, ProfileList PROVE IInv'
    OBVIOUS
  <1>1. PICK i \in DOMAIN functions :
          /\ serve(i) /\ called(i).op = "list"
          /\ list' = IF modal \in {"profiles", "edit"} THEN listAgentProfiles(store) ELSE list
          /\ UNCHANGED <<store, keys, disk, handler, deleted, modal, form>>
    BY DEF ProfileList
  <1>2. Running /\ Running' /\ screen' = screen /\ UNCHANGED main /\ functions' = answered(i)
    BY <1>1 DEF serve, Running, main
  <1>3. Inner'
    BY <1>2, MainStays DEF IInv, Inner
  <1>4. profileIds(store)' = profileIds(store)
    BY <1>1 DEF profileIds
  <1>5. FunctionsOK'
    BY <1>1, <1>2, <1>4, ServedGood DEF IInv
  <1>6. /\ list' \subseteq Record /\ ids(list') \subseteq profileIds(store)
        /\ \A record \in list' : ~record.archived
    <2>1. listAgentProfiles(store) \subseteq Record
      BY DEF listAgentProfiles, IInv, MemoryOK, Good, Stores, Range
    <2>2. ids(listAgentProfiles(store)) \subseteq profileIds(store)
          /\ \A record \in listAgentProfiles(store) : ~record.archived
      BY DEF listAgentProfiles, ids, profileIds
    <2> QED BY <1>1, <2>1, <2>2 DEF IInv, ScreensOK
  <1>7. OnForm' <=> OnForm
    BY <1>1 DEF OnForm
  <1>8. ids(list)' = ids(list')
    BY DEF ids
  <1>9. ScreensOK'
    BY <1>1, <1>2, <1>4, <1>6, <1>7, <1>8 DEF IInv, ScreensOK
  <1> QED BY <1>3, <1>5, <1>9 DEF IInv, Inner

LEMMA HandlerContinuesStep == IInv /\ HandlerContinues => IInv'
  <1> SUFFICES ASSUME IInv, HandlerContinues PROVE IInv'
    OBVIOUS
  <1>1. /\ Inner' /\ profileIds(store) \subseteq profileIds(store)' /\ keys' = keys /\ deleted' = deleted
    BY HandlerContinuesGood DEF IInv, Inner
  <1>2. Running /\ functions' = functions /\ screen' = screen /\ modal' = modal /\ list' = list /\ form' = form
    BY DEF HandlerContinues, renderer, Running
  <1>3. FunctionsOK'
    BY <1>1, <1>2, FunctionsStay DEF IInv
  <1>4. ScreensOK'
    BY <1>1, <1>2, ScreensStay DEF IInv
  <1> QED BY <1>1, <1>3, <1>4 DEF IInv, Inner

-----------------------------------------------------------------------------
(* The renderer *)

\* What a step of the renderer leaves of main.
LEMMA RendererStep ==
  ASSUME IInv, UNCHANGED main, Running <=> Running'
  PROVE  /\ Inner' /\ UNCHANGED <<store, keys, deleted, handler>>
         /\ profileIds(store)' = profileIds(store)
  <1>1. UNCHANGED <<store, keys, deleted, handler>>
    BY DEF main
  <1>2. profileIds(store)' = profileIds(store)
    BY <1>1 DEF profileIds
  <1> QED BY <1>1, <1>2, MainStays DEF IInv, Inner

\* The form a step opens, or NoForm.
LEMMA Opened ==
  ASSUME NEW record \in Record, ~record.archived, NEW isNew \in BOOLEAN
  PROVE  /\ openForm(record, isNew) \in Forms
         /\ openForm(record, isNew).profile = record
         /\ ~openForm(record, isNew).saving
  BY DEF openForm, NoForm, Forms, Status

LEMMA NoFormOpen == NoForm \in Forms /\ NoForm.profile = NoProfile /\ NoForm.status = "none" /\ ~NoForm.saving
  BY DEF NoForm, Forms, Status

\* A step to another form or modal, the list kept or emptied.
LEMMA ScreensChange ==
  ASSUME ScreensOK, Running, screen' = screen, profileIds(store)' = profileIds(store),
         list' = list \/ list' = {},
         modal' \in {"none", "profiles", "edit", "settings"}, modal' # "none" => screen = "app",
         form' \in Forms, form'.profile = NoProfile \/ OnForm',
         form'.status # "none" \/ form'.saving \/ modal' \in {"edit", "settings"} => OnForm'
  PROVE  ScreensOK'
  <1>1. list' \subseteq list
    OBVIOUS
  <1>2. ids(list)' \subseteq ids(list)
    BY <1>1 DEF ids
  <1>3. Running'
    BY DEF Running
  <1> QED BY <1>1, <1>2, <1>3 DEF ScreensOK

LEMMA WelcomeContinueStep == IInv /\ WelcomeContinue => IInv'
  <1> SUFFICES ASSUME IInv, WelcomeContinue PROVE IInv'
    OBVIOUS
  <1>1. /\ UNCHANGED <<main, functions, modal, list, form>> /\ screen = "welcome" /\ screen' = "connect"
    BY DEF WelcomeContinue
  <1>2. Running /\ Running'
    BY <1>1 DEF Running
  <1>3. /\ Inner' /\ UNCHANGED <<store, keys, deleted, handler>> /\ profileIds(store)' = profileIds(store)
    BY <1>1, <1>2, RendererStep
  <1>4. FunctionsOK'
    BY <1>1, <1>3, FunctionsStay DEF IInv
  <1>5. OnForm' <=> OnForm
    BY <1>1 DEF OnForm
  <1>6. ids(list)' = ids(list)
    BY <1>1 DEF ids
  <1>7. ScreensOK'
    BY <1>1, <1>2, <1>3, <1>5, <1>6 DEF IInv, ScreensOK
  <1> QED BY <1>3, <1>4, <1>7 DEF IInv, Inner

LEMMA ConnectTestStep == IInv /\ ConnectTest => IInv'
  <1> SUFFICES ASSUME IInv, ConnectTest PROVE IInv'
    OBVIOUS
  <1>1. PICK p \in Profile :
          /\ screen = "connect"
          /\ form' = [form EXCEPT !.profile = newRecord(p, FALSE), !.testing = TRUE, !.status = "none"]
          /\ Start(<<call("save_config", newRecord(p, FALSE)), call("set_secret", newRecord(p, FALSE)),
                     call("test", newRecord(p, FALSE))>>)
          /\ UNCHANGED <<main, screen, modal, list>>
    BY DEF ConnectTest
  <1> DEFINE record == newRecord(p, FALSE)
             names == profileIds(store)
             calls == <<call("save_config", record), call("set_secret", record), call("test", record)>>
  <1>2. Running /\ Running'
    BY <1>1 DEF Running
  <1>3. /\ Inner' /\ UNCHANGED <<store, keys, deleted, handler>> /\ profileIds(store)' = profileIds(store)
    BY <1>1, <1>2, RendererStep
  <1>4. record \in Record /\ ~record.archived
    BY NewRecord
  <1> HIDE DEF record
  <1>5. calls \in Seq(SimpleCalls(names)) /\ calls # <<>>
    BY <1>4, CallsMade
  <1>6. form' \in Forms /\ form'.profile = record /\ form'.saving = form.saving
    BY <1>1, <1>4 DEF IInv, ScreensOK, Forms, Status, record
  <1>7. FunctionsOK'
    BY <1>1, <1>3, <1>5, <1>6, StartSimple DEF IInv, record
  <1>8. OnForm'
    BY <1>4, <1>6 DEF OnForm
  <1>9. ScreensOK'
    BY <1>1, <1>2, <1>3, <1>6, <1>8, ScreensChange DEF IInv, ScreensOK
  <1> QED BY <1>3, <1>7, <1>9 DEF IInv, Inner

LEMMA ConnectContinueStep == IInv /\ ConnectContinue => IInv'
  <1> SUFFICES ASSUME IInv, ConnectContinue PROVE IInv'
    OBVIOUS
  <1> DEFINE record == form.profile
             c1 == call("save_config", record)
             c2 == call("set_secret", record)
             c3 == call("set_app_state", record)
             c4 == do("complete")
             calls == <<c1, c2, c3, c4>>
             names == profileIds(store)
             secrets == keys \union deleted
  <1>1. /\ screen = "connect" /\ form.status = "connected" /\ ~form.saving
        /\ form' = [form EXCEPT !.saving = TRUE]
        /\ Start(calls)
        /\ UNCHANGED <<main, screen, modal, list>>
    BY DEF ConnectContinue
  <1>2. Running /\ Running'
    BY <1>1 DEF Running
  <1>3. /\ Inner' /\ UNCHANGED <<store, keys, deleted, handler>> /\ profileIds(store)' = profileIds(store)
    BY <1>1, <1>2, RendererStep
  <1>4. record \in Record /\ ~record.archived
    BY <1>1 DEF IInv, ScreensOK, OnForm
  <1>5. form' \in Forms /\ form'.profile = record /\ form'.saving
    BY <1>1 DEF IInv, ScreensOK, Forms
  <1>6. /\ c1 \in Call /\ c1.op = "save_config" /\ c1.profile.id = record.id
        /\ c2 \in Call /\ c2.op = "set_secret" /\ c2.profile.id = record.id
        /\ c3 \in Call /\ c3.op = "set_app_state" /\ c3.profile.id = record.id
        /\ c4 \in Call /\ c4.op = "complete"
        /\ \A c \in {c1, c2, c3} : c.profile \in Record /\ ~c.profile.archived
    <2>1. newRecord(record.id, FALSE) \in Record /\ ~newRecord(record.id, FALSE).archived
          /\ newRecord(record.id, FALSE).id = record.id
      BY <1>4, NewRecord DEF Record
    <2>2. \A op \in Calls : /\ call(op, record) \in Call /\ call(op, record).op = op
                            /\ call(op, record).profile = newRecord(record.id, FALSE)
      BY <2>1 DEF call, Call
    <2>3. "save_config" \in Calls /\ "set_secret" \in Calls /\ "set_app_state" \in Calls
      BY DEF Calls
    <2>4. c4 \in Call /\ c4.op = "complete"
      BY DEF do, Call, Calls
    <2> HIDE DEF c4
    <2> QED BY <2>1, <2>2, <2>3, <2>4
  <1> HIDE DEF c1, c2, c3, c4
  <1>7. calls \in Seq(Call) /\ calls # <<>> /\ Len(calls) = 4 /\ DOMAIN calls = 1..4
        /\ calls[1] = c1 /\ calls[2] = c2 /\ calls[3] = c3 /\ calls[4] = c4
    BY <1>6
  <1> HIDE DEF calls
  <1>8. ASSUME NEW j \in DOMAIN calls PROVE CallGood(calls, j, names, secrets)
    <2>1. CASE j = 1
      BY <1>6, <1>7, <2>1 DEF CallGood
    <2>2. CASE j = 2
      BY <1>6, <1>7, <2>2 DEF CallGood
    <2>3. CASE j = 3
      <3>1. 1 \in 1..(j-1) /\ 2 \in 1..(j-1)
        BY <2>3
      <3> QED BY <1>6, <1>7, <2>3, <3>1 DEF CallGood
    <2>4. CASE j = 4
      BY <1>6, <1>7, <2>4 DEF CallGood, OnProfile
    <2> QED BY <1>7, <2>1, <2>2, <2>3, <2>4
  <1>9. FunctionGood(calls, names, secrets)
    BY <1>7, <1>8 DEF FunctionGood
  <1>10. FunctionsOK'
    BY <1>1, <1>3, <1>5, <1>9, StartGood DEF IInv
  <1>11. OnForm'
    BY <1>4, <1>5 DEF OnForm
  <1>12. ScreensOK'
    BY <1>1, <1>2, <1>3, <1>5, <1>11, ScreensChange DEF IInv, ScreensOK
  <1> QED BY <1>3, <1>10, <1>12 DEF IInv, Inner

LEMMA ConnectCompleteStep == IInv /\ ConnectComplete => IInv'
  <1> SUFFICES ASSUME IInv, ConnectComplete PROVE IInv'
    OBVIOUS
  <1>1. PICK i \in DOMAIN functions :
          /\ called(i).op = "complete" /\ functions' = answered(i)
          /\ screen' = "app" /\ form' = NoForm /\ UNCHANGED <<main, modal, list>>
    BY DEF ConnectComplete
  <1>2. Running /\ Running'
    BY <1>1, CalledGood DEF IInv, Running
  <1>3. /\ Inner' /\ UNCHANGED <<store, keys, deleted, handler>> /\ profileIds(store)' = profileIds(store)
    BY <1>1, <1>2, RendererStep
  <1>4. FunctionsOK'
    BY <1>1, <1>3, ServedGood DEF IInv
  <1>5. modal = "none"
    BY <1>1, CalledGood DEF IInv, ScreensOK
  <1>6. ids(list)' = ids(list)
    BY <1>1 DEF ids
  <1>7. ScreensOK'
    BY <1>1, <1>2, <1>3, <1>5, <1>6, NoFormOpen DEF IInv, ScreensOK
  <1> QED BY <1>3, <1>4, <1>7 DEF IInv, Inner

LEMMA OpenSettingsStep == IInv /\ OpenSettings => IInv'
  <1> SUFFICES ASSUME IInv, OpenSettings PROVE IInv'
    OBVIOUS
  <1> DEFINE p == store.appState.agentConfigId
  <1>1. screen = "app" /\ screen' = screen /\ UNCHANGED main /\ Running /\ Running'
    BY DEF OpenSettings, Running
  <1>2. /\ Inner' /\ UNCHANGED <<store, keys, deleted, handler>> /\ profileIds(store)' = profileIds(store)
    BY <1>1, RendererStep
  <1>3. CASE p \in profileIds(store)
    <2>1. /\ modal' = "settings" /\ form' = openForm(newRecord(p, FALSE), FALSE)
          /\ UNCHANGED <<functions, list>>
      BY <1>3 DEF OpenSettings
    <2>2. p \in Profile
      BY <1>3, Identities DEF IInv, MemoryOK, Good
    <2>3. newRecord(p, FALSE) \in Record /\ ~newRecord(p, FALSE).archived
      BY <2>2, NewRecord
    <2>4. form' \in Forms /\ form'.profile = newRecord(p, FALSE)
      BY <2>1, <2>3, Opened
    <2>5. OnForm'
      BY <2>3, <2>4 DEF OnForm
    <2>6. ScreensOK'
      BY <1>1, <1>2, <2>1, <2>4, <2>5, ScreensChange DEF IInv
    <2>7. FunctionsOK'
      BY <1>1, <1>2, <2>1, FunctionsStay DEF IInv
    <2> QED BY <1>2, <2>6, <2>7 DEF IInv, Inner
  <1>4. CASE p \notin profileIds(store)
    <2>1. modal' = "profiles" /\ list' = {} /\ Start(<<do("list")>>) /\ form' = form
      BY <1>4 DEF OpenSettings
    <2>2. <<do("list")>> \in Seq(SimpleCalls(profileIds(store))) /\ <<do("list")>> # <<>>
      BY CallsDone
    <2>3. FunctionsOK'
      BY <1>1, <1>2, <2>1, <2>2, StartSimple DEF IInv
    <2>4. OnForm' <=> OnForm
      BY <2>1 DEF OnForm
    <2>5. ScreensOK'
      BY <1>1, <1>2, <2>1, <2>4, ScreensChange DEF IInv, ScreensOK
    <2> QED BY <1>2, <2>3, <2>5 DEF IInv, Inner
  <1> QED BY <1>3, <1>4

\* A function that only asks for simple calls, with the form kept but for its flags.
LEMMA StartOnForm ==
  ASSUME IInv, NEW calls \in Seq(SimpleCalls(profileIds(store))), calls # <<>>, Start(calls),
         UNCHANGED <<main, screen, modal, list>>, Running,
         form' \in Forms, form'.profile = form.profile, form'.status = form.status,
         form.saving => form'.saving,
         OnForm \/ form'.saving = form.saving
  PROVE  IInv'
  <1>1. Running'
    BY DEF Running
  <1>2. /\ Inner' /\ UNCHANGED <<store, keys, deleted, handler>> /\ profileIds(store)' = profileIds(store)
    BY <1>1, RendererStep
  <1>3. FunctionsOK'
    BY <1>2, StartSimple DEF IInv
  <1>4. OnForm' <=> OnForm
    BY DEF OnForm
  <1>5. ScreensOK'
    BY <1>2, <1>4, ScreensChange DEF IInv, ScreensOK
  <1> QED BY <1>2, <1>3, <1>5 DEF IInv, Inner

LEMMA AppRunning == IInv /\ modal # "none" => Running /\ screen = "app"
  BY DEF IInv, ScreensOK, Running

LEMMA SettingsSaveStep == IInv /\ SettingsSave => IInv'
  <1> SUFFICES ASSUME IInv, SettingsSave PROVE IInv'
    OBVIOUS
  <1> DEFINE calls == <<call("save_config", form.profile), do("saved")>>
  <1>1. /\ modal = "settings" /\ form' = [form EXCEPT !.saving = TRUE] /\ Start(calls)
        /\ UNCHANGED <<main, screen, modal, list>>
    BY DEF SettingsSave
  <1>2. Running /\ OnForm /\ form \in Forms
    BY <1>1, AppRunning DEF IInv, ScreensOK
  <1>3. calls \in Seq(SimpleCalls(profileIds(store))) /\ calls # <<>>
    BY <1>2, CallsMade, CallsDone DEF OnForm
  <1>4. /\ form' \in Forms /\ form'.profile = form.profile /\ form'.status = form.status /\ form'.saving
    BY <1>1, <1>2 DEF Forms
  <1> HIDE DEF calls
  <1> QED BY <1>1, <1>2, <1>3, <1>4, StartOnForm

LEMMA FormTestStep == IInv /\ FormTest => IInv'
  <1> SUFFICES ASSUME IInv, FormTest PROVE IInv'
    OBVIOUS
  <1>1. PICK withKey \in BOOLEAN :
          Start((IF withKey THEN <<call("set_secret", form.profile)>> ELSE <<>>)
                  \o <<call("test", form.profile)>>)
    BY DEF FormTest
  <1> DEFINE S == SimpleCalls(profileIds(store))
             before == IF withKey THEN <<call("set_secret", form.profile)>> ELSE <<>>
             after == <<call("test", form.profile)>>
  <1>2. /\ modal \in {"settings", "edit"} /\ form' = [form EXCEPT !.testing = TRUE]
        /\ UNCHANGED <<main, screen, modal, list>>
    BY DEF FormTest
  <1>3. Running /\ OnForm /\ form \in Forms
    BY <1>2, AppRunning DEF IInv, ScreensOK
  <1>4. before \in Seq(S) /\ after \in Seq(S) /\ after # <<>>
    BY <1>3, CallsMade DEF OnForm
  <1>5. /\ form' \in Forms /\ form'.profile = form.profile /\ form'.status = form.status
        /\ form'.saving = form.saving
    BY <1>2, <1>3 DEF Forms
  <1>6. Start(before \o after)
    BY <1>1
  <1> HIDE DEF before, after
  <1>7. before \o after \in Seq(S) /\ before \o after # <<>>
    BY <1>4, Joined
  <1> QED BY <1>2, <1>3, <1>5, <1>6, <1>7, StartOnForm

LEMMA ReconfigureStep == IInv /\ Reconfigure => IInv'
  <1> SUFFICES ASSUME IInv, Reconfigure PROVE IInv'
    OBVIOUS
  <1>1. /\ modal = "settings" /\ modal' = "profiles" /\ list' = {} /\ form' = NoForm
        /\ Start(<<do("list")>>) /\ UNCHANGED <<main, screen>>
    BY DEF Reconfigure
  <1>2. Running /\ Running' /\ screen = "app"
    BY <1>1, AppRunning DEF Running
  <1>3. /\ Inner' /\ UNCHANGED <<store, keys, deleted, handler>> /\ profileIds(store)' = profileIds(store)
    BY <1>1, <1>2, RendererStep
  <1>4. <<do("list")>> \in Seq(SimpleCalls(profileIds(store))) /\ <<do("list")>> # <<>>
    BY CallsDone
  <1>5. FunctionsOK'
    BY <1>1, <1>2, <1>3, <1>4, StartSimple DEF IInv
  <1>6. ScreensOK'
    BY <1>1, <1>2, <1>3, NoFormOpen, ScreensChange DEF IInv
  <1> QED BY <1>3, <1>5, <1>6 DEF IInv, Inner

\* A step that only opens or closes a form or a modal.
LEMMA ModalStep ==
  ASSUME IInv, UNCHANGED <<main, functions, screen>>, screen = "app", list' = list \/ list' = {},
         \/ modal' \in {"none", "profiles"} /\ form' = NoForm
         \/ /\ modal' = "edit"
            /\ \E record \in Record, isNew \in BOOLEAN :
                 ~record.archived /\ form' = openForm(record, isNew)
  PROVE  IInv'
  <1>1. Running /\ Running'
    BY DEF Running
  <1>2. /\ Inner' /\ UNCHANGED <<store, keys, deleted, handler>> /\ profileIds(store)' = profileIds(store)
    BY <1>1, RendererStep
  <1>3. FunctionsOK'
    BY <1>2, FunctionsStay DEF IInv
  <1>4. CASE modal' \in {"none", "profiles"} /\ form' = NoForm
    <2>1. ScreensOK'
      BY <1>1, <1>2, <1>4, NoFormOpen, ScreensChange DEF IInv
    <2> QED BY <1>2, <1>3, <2>1 DEF IInv, Inner
  <1>5. ASSUME modal' = "edit", NEW record \in Record, NEW isNew \in BOOLEAN,
               ~record.archived, form' = openForm(record, isNew)
        PROVE  IInv'
    <2>1. form' \in Forms /\ form'.profile = record
      BY <1>5, Opened
    <2>2. OnForm'
      BY <1>5, <2>1 DEF OnForm
    <2>3. ScreensOK'
      BY <1>1, <1>2, <1>5, <2>1, <2>2, ScreensChange DEF IInv
    <2> QED BY <1>2, <1>3, <2>3 DEF IInv, Inner
  <1> QED BY <1>4, <1>5

LEMMA CloseModalStep == IInv /\ CloseModal => IInv'
  BY AppRunning, ModalStep DEF CloseModal

LEMMA cancelEditStep == IInv /\ cancelEdit => IInv'
  BY AppRunning, ModalStep DEF cancelEdit

LEMMA handleNewStep == IInv /\ handleNew => IInv'
  <1> SUFFICES ASSUME IInv, handleNew PROVE IInv'
    OBVIOUS
  <1>1. PICK p \in fresh : form' = openForm(newRecord(p, list = {}), TRUE)
    BY DEF handleNew
  <1>2. /\ modal' = "edit" /\ UNCHANGED <<main, functions, screen, list>> /\ screen = "app"
    BY AppRunning DEF handleNew
  <1>3. newRecord(p, list = {}) \in Record /\ ~newRecord(p, list = {}).archived
    BY NewRecord DEF fresh
  <1> QED BY <1>1, <1>2, <1>3, ModalStep

LEMMA handleEditStep == IInv /\ handleEdit => IInv'
  <1> SUFFICES ASSUME IInv, handleEdit PROVE IInv'
    OBVIOUS
  <1>1. PICK record \in list : form' = openForm(record, FALSE)
    BY DEF handleEdit
  <1>2. /\ modal' = "edit" /\ UNCHANGED <<main, functions, screen, list>> /\ screen = "app"
    BY AppRunning DEF handleEdit
  <1>3. record \in Record /\ ~record.archived
    BY DEF IInv, ScreensOK
  <1> QED BY <1>1, <1>2, <1>3, ModalStep

LEMMA handleSaveStep == IInv /\ handleSave => IInv'
  <1> SUFFICES ASSUME IInv, handleSave PROVE IInv'
    OBVIOUS
  <1>1. PICK withKey \in BOOLEAN :
          Start(<<save(form.profile)>>
                  \o (IF withKey THEN <<call("set_secret", form.profile)>> ELSE <<>>)
                  \o <<do("saved"), do("list")>>)
    BY DEF handleSave
  <1> DEFINE S == SimpleCalls(profileIds(store))
             first == <<save(form.profile)>>
             second == IF withKey THEN <<call("set_secret", form.profile)>> ELSE <<>>
             last == <<do("saved"), do("list")>>
  <1>2. /\ modal = "edit" /\ form' = [form EXCEPT !.saving = TRUE]
        /\ UNCHANGED <<main, screen, modal, list>>
    BY DEF handleSave
  <1>3. Running /\ OnForm /\ form \in Forms
    BY <1>2, AppRunning DEF IInv, ScreensOK
  <1>4. first \in Seq(S) /\ second \in Seq(S) /\ last \in Seq(S) /\ last # <<>>
    BY <1>3, CallsMade, CallsDone DEF OnForm
  <1>5. /\ form' \in Forms /\ form'.profile = form.profile /\ form'.status = form.status /\ form'.saving
    BY <1>2, <1>3 DEF Forms
  <1>6. Start(first \o second \o last)
    BY <1>1
  <1> HIDE DEF first, second, last
  <1>7. first \o second \in Seq(S)
    BY <1>4, Joined
  <1> DEFINE most == first \o second
  <1> HIDE DEF most
  <1>8. most \o last \in Seq(S) /\ most \o last # <<>>
    BY <1>4, <1>7, Joined DEF most
  <1> QED BY <1>2, <1>3, <1>5, <1>6, <1>8, StartOnForm DEF most

LEMMA handleSavedStep == IInv /\ handleSaved => IInv'
  <1> SUFFICES ASSUME IInv, handleSaved PROVE IInv'
    OBVIOUS
  <1>1. PICK i \in DOMAIN functions :
          /\ called(i).op = "saved" /\ functions' = answered(i)
          /\ IF modal = "settings"
             THEN form' = [form EXCEPT !.saving = FALSE] /\ UNCHANGED modal
             ELSE IF modal = "edit" THEN form' = NoForm /\ modal' = "profiles"
             ELSE UNCHANGED <<form, modal>>
          /\ UNCHANGED <<main, screen, list>>
    BY DEF handleSaved
  <1>2. Running /\ Running'
    BY <1>1 DEF IInv, ScreensOK, Running
  <1>3. /\ Inner' /\ UNCHANGED <<store, keys, deleted, handler>> /\ profileIds(store)' = profileIds(store)
    BY <1>1, <1>2, RendererStep
  <1>4. CASE modal = "settings"
    <2>1. /\ form' \in Forms /\ form'.profile = form.profile /\ form'.status = form.status
          /\ ~form'.saving /\ modal' = "settings" /\ screen = "app"
      BY <1>1, <1>4, AppRunning DEF IInv, ScreensOK, Forms
    <2>2. OnForm' /\ OnForm
      BY <1>4, <2>1 DEF OnForm, IInv, ScreensOK
    <2>3. ScreensOK'
      BY <1>1, <1>2, <1>3, <2>1, <2>2, ScreensChange DEF IInv
    <2>4. FunctionsOK'
      BY <1>1, <1>3, <2>1, ServedApp DEF IInv
    <2> QED BY <1>3, <2>3, <2>4 DEF IInv, Inner
  <1>5. CASE modal = "edit"
    <2>1. form' = NoForm /\ modal' = "profiles" /\ screen = "app"
      BY <1>1, <1>5, AppRunning
    <2>2. ScreensOK'
      BY <1>1, <1>2, <1>3, <2>1, NoFormOpen, ScreensChange DEF IInv
    <2>3. FunctionsOK'
      BY <1>1, <1>3, <2>1, ServedApp DEF IInv
    <2> QED BY <1>3, <2>2, <2>3 DEF IInv, Inner
  <1>6. CASE modal \notin {"settings", "edit"}
    <2>1. form' = form /\ modal' = modal
      BY <1>1, <1>6
    <2>2. ScreensOK' /\ form'.saving = form.saving
      BY <1>1, <1>2, <1>3, <2>1, ScreensStay DEF IInv
    <2>3. FunctionsOK'
      BY <1>1, <1>3, <2>1, ServedGood DEF IInv
    <2> QED BY <1>3, <2>2, <2>3 DEF IInv, Inner
  <1> QED BY <1>4, <1>5, <1>6

LEMMA handleDeleteStep == IInv /\ handleDelete => IInv'
  <1> SUFFICES ASSUME IInv, handleDelete PROVE IInv'
    OBVIOUS
  <1>1. PICK record \in list : Start(<<call("delete", record), do("list")>>)
    BY DEF handleDelete
  <1>2. modal = "profiles" /\ UNCHANGED <<main, screen, modal, list, form>> /\ Running
    BY AppRunning DEF handleDelete
  <1>3. record \in Record /\ form \in Forms
    BY DEF IInv, ScreensOK
  <1> DEFINE calls == <<call("delete", record), do("list")>>
  <1>4. calls \in Seq(SimpleCalls(profileIds(store))) /\ calls # <<>>
    BY <1>3, CallsMade, CallsDone
  <1> HIDE DEF calls
  <1>5. Start(calls)
    BY <1>1 DEF calls
  <1> QED BY <1>2, <1>3, <1>4, <1>5, StartOnForm

LEMMA handleSetDefaultStep == IInv /\ handleSetDefault => IInv'
  <1> SUFFICES ASSUME IInv, handleSetDefault PROVE IInv'
    OBVIOUS
  <1>1. PICK record \in list : Start(<<call("set_default", record), do("list")>>)
    BY DEF handleSetDefault
  <1>2. modal = "profiles" /\ UNCHANGED <<main, screen, modal, list, form>> /\ Running
    BY AppRunning DEF handleSetDefault
  <1>3. record \in Record /\ form \in Forms /\ record.id \in profileIds(store)
    BY DEF IInv, ScreensOK, ids
  <1> DEFINE calls == <<call("set_default", record), do("list")>>
  <1>4. calls \in Seq(SimpleCalls(profileIds(store))) /\ calls # <<>>
    BY <1>3, CallsMade, CallsDone
  <1> HIDE DEF calls
  <1>5. Start(calls)
    BY <1>1 DEF calls
  <1> QED BY <1>2, <1>3, <1>4, <1>5, StartOnForm

-----------------------------------------------------------------------------
(* The invariant *)

LEMMA Starts == Init => IInv
  <1> SUFFICES ASSUME Init PROVE IInv
    OBVIOUS
  <1>1. /\ store = loadedStore /\ keys = loadedKeys /\ handler = <<>> /\ functions = <<>>
        /\ screen = "off" /\ modal = "none" /\ list = {} /\ form = NoForm
        /\ acked = [store |-> store, keys |-> keys] /\ deleted = {}
    BY DEF Init
  <1>2. /\ disk = [store |-> disk.store, keys |-> disk.keys]
        /\ IsFile(disk.store, Stores) /\ IsFile(disk.keys, SUBSET Profile)
        /\ Good(loadedStore) /\ loadedKeys \subseteq Profile
        /\ Configured(loadedStore, loadedKeys)
    <2>1. CASE disk = [store |-> [main |-> Absent, tmp |-> Absent],
                       keys  |-> [main |-> Absent, tmp |-> Absent]]
      <3>1. /\ disk.store = [main |-> Absent, tmp |-> Absent]
            /\ disk.keys = [main |-> Absent, tmp |-> Absent]
        BY <2>1
      <3>2. IsFile(disk.store, Stores) /\ IsFile(disk.keys, SUBSET Profile)
        BY <3>1 DEF IsFile
      <3>3. loadedStore = migrate(emptyStore) /\ loadedKeys = {}
        BY <3>1 DEF loadedStore, loadedKeys, recovered, Absent
      <3> QED BY <2>1, <3>1, <3>2, <3>3, EmptyGood DEF Configured
    <2>2. ASSUME NEW p \in Profile,
                 disk = [store |-> [main |-> Whole(legacyStore(p)), tmp |-> Absent],
                         keys  |-> [main |-> Whole({p}), tmp |-> Absent]]
          PROVE  /\ disk = [store |-> disk.store, keys |-> disk.keys]
                 /\ IsFile(disk.store, Stores) /\ IsFile(disk.keys, SUBSET Profile)
                 /\ Good(loadedStore) /\ loadedKeys \subseteq Profile
                 /\ Configured(loadedStore, loadedKeys)
      <3>1. /\ disk.store = [main |-> Whole(legacyStore(p)), tmp |-> Absent]
            /\ disk.keys = [main |-> Whole({p}), tmp |-> Absent]
        BY <2>2
      <3>2. \A c : Whole(c) = Whole(Whole(c).content) /\ Whole(c).content = c
        BY DEF Whole
      <3>3. IsFile(disk.store, Stores) /\ IsFile(disk.keys, SUBSET Profile)
        <4>1. legacyStore(p) \in Stores /\ {p} \in SUBSET Profile
          BY LegacyGood
        <4> QED BY <3>1, <3>2, <4>1 DEF IsFile
      <3>4. loadedStore = migrate(legacyStore(p)) /\ loadedKeys = {p}
        BY <3>1 DEF loadedStore, loadedKeys, recovered, Absent, Whole
      <3>5. Configured(loadedStore, loadedKeys)
        BY <3>4, LegacyGood DEF Configured
      <3> QED BY <2>2, <3>1, <3>3, <3>4, <3>5, LegacyGood
    <2> QED BY <2>1, <2>2 DEF Init
  <1>3. acked.store = store /\ acked.keys = keys
    BY <1>1
  <1>4. ~Running
    BY <1>1 DEF Running
  <1>5. MemoryOK
    BY <1>1, <1>2, <1>3 DEF MemoryOK
  <1>6. DiskOK
    BY <1>1, <1>2, <1>3, <1>4 DEF DiskOK
  <1>7. HandlerOK
    BY <1>1, <1>3, HandlerHeads DEF HandlerOK
  <1>8. FunctionsOK
    BY <1>1 DEF FunctionsOK, FunctionsGood
  <1>9. ScreensOK
    BY <1>1, <1>4, NoFormOpen DEF ScreensOK, ids
  <1> QED BY <1>5, <1>6, <1>7, <1>8, <1>9 DEF IInv

LEMMA LaunchStep == IInv /\ Launch => IInv'
  <1> SUFFICES ASSUME IInv, Launch PROVE IInv'
    OBVIOUS
  <1>1. ~Running /\ handler = <<>> /\ functions = <<>> /\ list = {} /\ form = NoForm
    BY DEF Launch, Running, IInv, ScreensOK
  <1>2. Inner' /\ Running'
    BY <1>1, LaunchGood DEF IInv, Inner
  <1>3. UNCHANGED <<functions, modal, list, form>> /\ screen' \in {"app", "welcome", "connect"}
    BY DEF Launch
  <1>4. FunctionsOK'
    BY <1>1, <1>3 DEF FunctionsOK, FunctionsGood
  <1>5. modal = "none"
    BY <1>1 DEF IInv, ScreensOK, Running
  <1>6. ScreensOK'
    BY <1>1, <1>2, <1>3, <1>5, NoFormOpen DEF ScreensOK, ids
  <1> QED BY <1>2, <1>4, <1>6 DEF IInv, Inner

LEMMA KillStep == IInv /\ Kill => IInv'
  <1> SUFFICES ASSUME IInv, Kill PROVE IInv'
    OBVIOUS
  <1>1. Inner' /\ ~Running'
    BY KillGood DEF IInv, Inner
  <1>2. /\ functions' = <<>> /\ screen' = "off" /\ modal' = "none" /\ list' = {} /\ form' = NoForm
        /\ handler' = <<>>
    BY DEF Kill
  <1>3. FunctionsOK'
    BY <1>2 DEF FunctionsOK, FunctionsGood
  <1>4. ScreensOK'
    BY <1>1, <1>2, NoFormOpen DEF ScreensOK, ids
  <1> QED BY <1>1, <1>3, <1>4 DEF IInv, Inner

LEMMA Stutters == IInv /\ UNCHANGED vars => IInv'
  <1> SUFFICES ASSUME IInv, UNCHANGED vars PROVE IInv'
    OBVIOUS
  <1>1. UNCHANGED main /\ UNCHANGED <<functions, screen, modal, list, form>>
    BY DEF vars, renderer
  <1>2. Running <=> Running'
    BY <1>1 DEF Running
  <1>3. Inner' /\ UNCHANGED <<store, keys, deleted, handler>> /\ profileIds(store)' = profileIds(store)
    BY <1>1, <1>2, RendererStep
  <1>4. FunctionsOK'
    BY <1>1, <1>3, FunctionsStay DEF IInv
  <1>5. ScreensOK'
    BY <1>1, <1>2, <1>3 DEF IInv, ScreensOK, OnForm, ids
  <1> QED BY <1>3, <1>4, <1>5 DEF IInv, Inner

LEMMA Keeps == IInv /\ [Next]_vars => IInv'
  <1> SUFFICES ASSUME IInv, [Next]_vars PROVE IInv'
    OBVIOUS
  <1>1. CASE Launch \/ Kill
    BY <1>1, LaunchStep, KillStep
  <1>2. CASE Handlers
    BY <1>2, HandlerContinuesStep, ProfileSaveStep, ConfigSaveStep, SecretSetStep,
       ProfileDeleteStep, ProfileSetDefaultStep, AppStateSetStep, ProfileListStep,
       TestConnectionStep, TestAnsweredStep DEF Handlers
  <1>3. CASE User
    BY <1>3, WelcomeContinueStep, ConnectTestStep, ConnectContinueStep, ConnectCompleteStep,
       OpenSettingsStep, SettingsSaveStep, FormTestStep, ReconfigureStep, CloseModalStep,
       handleNewStep, handleEditStep, cancelEditStep, handleSaveStep, handleSavedStep,
       handleDeleteStep, handleSetDefaultStep DEF User
  <1>4. CASE UNCHANGED vars
    BY <1>4, Stutters
  <1> QED BY <1>1, <1>2, <1>3, <1>4 DEF Next

\* Memory, the two files, the calls under way and the screens stand to each other as IInv
\* says, whatever the number of profiles, of functions under way and of kills.
THEOREM Invariant == Spec => []IInv
  <1>1. Init => IInv
    BY Starts
  <1>2. IInv /\ [Next]_vars => IInv'
    BY Keeps
  <1> QED BY <1>1, <1>2, PTL DEF Spec

LEMMA GoodLoaded == IInv => Good(loadedStore) /\ loadedStore \in {acked.store, store}
                              /\ loadedKeys \in {acked.keys, keys}
  <1> SUFFICES ASSUME IInv PROVE Good(loadedStore) /\ loadedStore \in {acked.store, store}
                                   /\ loadedKeys \in {acked.keys, keys}
    OBVIOUS
  <1>1. CASE Running
    <2>1. mainKeys \in {acked.keys, keys}
      BY <1>1 DEF IInv, DiskOK
    <2> QED BY <1>1, <2>1, Loaded DEF IInv, MemoryOK
  <1>2. CASE ~Running
    BY <1>2 DEF IInv, DiskOK, MemoryOK
  <1> QED BY <1>1, <1>2

\* Profiles, keys, screens and forms keep their types, in every state of every behaviour.
THEOREM TypeCorrect == Spec => []TypeOK
  <1>1. IInv => TypeOK
    <2> SUFFICES ASSUME IInv PROVE TypeOK
      OBVIOUS
    <2>1. Range(store.profiles) \subseteq Record
      BY DEF IInv, MemoryOK, Good, Stores, Range
    <2> QED BY <2>1 DEF IInv, MemoryOK, ScreensOK, Forms, TypeOK
  <1> QED BY <1>1, Invariant, PTL

\* At every instant the two files would give a launch what memory held at the last answer,
\* or what the handler under way has made of it: for any number of profiles, of calls under
\* way and of kills, the torn and the missing files included.
THEOREM Durable == Spec => []AnswersAreDurable
  <1>1. IInv => AnswersAreDurable
    BY GoodLoaded DEF AnswersAreDurable
  <1> QED BY <1>1, Invariant, PTL

\* Whatever the order of saves, choices, deletions and kills, the store has at most one
\* default, and recorded onboarding has its agent and that agent's key on disk.
THEOREM Coherent == Spec => []SetUpIsCoherent
  <1>1. IInv => SetUpIsCoherent
    <2> SUFFICES ASSUME IInv PROVE SetUpIsCoherent
      OBVIOUS
    <2> DEFINE S == {i \in DOMAIN store.profiles : store.profiles[i].isDefault}
    <2>1. AtMostOneDefault(store)
      BY DEF IInv, MemoryOK, Good
    <2>2. S = {} \/ \E i \in S : S = {i}
      BY <2>1 DEF AtMostOneDefault
    <2>3. Cardinality({}) = 0 /\ \A i : Cardinality({i}) = 1
      BY FS_EmptySet, FS_Singleton
    <2>4. Cardinality(S) = 0 \/ Cardinality(S) = 1
      BY <2>2, <2>3
    <2>5. OneDefault
      BY <2>4 DEF OneDefault
    <2>6. Configured(loadedStore, loadedKeys) /\ Good(loadedStore)
      BY GoodLoaded DEF IInv, MemoryOK
    <2>7. OnboardedIsComplete
      BY <2>6 DEF OnboardedIsComplete, Configured, Good
    <2> QED BY <2>5, <2>7 DEF SetUpIsCoherent
  <1> QED BY <1>1, Invariant, PTL

-----------------------------------------------------------------------------
(* What a step does to the stored profiles *)

\* A step either leaves what a launch would read of the store, or empties it, or finds it
\* empty, or is the rename that ends a write.
LEMMA StoredChange ==
  ASSUME IInv, [Next]_vars
  PROVE  \/ loadedStore' = loadedStore
         \/ profileIds(loadedStore') = {} \/ profileIds(loadedStore) = {}
         \/ /\ Running /\ Pending("store")
            /\ loadedStore' = store /\ loadedStore = acked.store /\ loadedKeys' = keys
  <1>1. /\ disk = [store |-> disk.store, keys |-> disk.keys]
        /\ IsFile(disk.store, Stores) /\ IsFile(disk.keys, SUBSET Profile)
    BY DEF IInv, DiskOK
  <1>2. CASE disk'.store = disk.store
    BY <1>2 DEF loadedStore
  <1>3. ASSUME NEW t, persist(t), Running, ~Pending("store")
        PROVE  loadedStore' = loadedStore \/ profileIds(loadedStore) = {}
    <2>1. disk'.store.main = disk.store.main
      BY <1>1, <1>3 DEF persist, IsFile
    <2>2. CASE disk.store.main = Absent
      <3>1. loadedStore = emptyStore
        BY <1>3, <2>2, Loaded DEF IInv
      <3> QED BY <3>1, EmptyGood
    <2>3. CASE disk.store.main # Absent
      BY <2>1, <2>3 DEF loadedStore, recovered
    <2> QED BY <2>2, <2>3
  <1>4. ASSUME NEW i \in DOMAIN functions, serve(i), NEW t, persistThenReply(t)
        PROVE  loadedStore' = loadedStore \/ profileIds(loadedStore) = {}
    BY <1>3, <1>4, HandlerHeads DEF serve, persistThenReply, Running
  <1>5. ASSUME NEW k, saveKeys(k) PROVE disk'.store = disk.store
    BY <1>1, <1>5 DEF saveKeys
  <1>6. CASE HandlerContinues
    <2> DEFINE step == Head(handler)
    <2>1. Running /\ handler # <<>>
      BY <1>6 DEF HandlerContinues, Running
    <2>2. CASE handler = <<rename("store")>>
      <3>1. step = rename("store") /\ step.do = "rename" /\ step.file = "store"
        BY <2>2 DEF rename
      <3>2. disk' = [disk EXCEPT !.store = [main |-> @.tmp, tmp |-> Absent]]
            /\ UNCHANGED <<store, keys>>
        BY <1>6, <3>1 DEF HandlerContinues
      <3>3. Pending("store") /\ ~Pending("keys")
        BY <2>2, HandlerHeads
      <3>4. /\ disk'.store = [main |-> Whole(store), tmp |-> Absent] /\ disk'.keys = disk.keys
            /\ mainKeys = keys
        BY <1>1, <2>1, <3>2, <3>3 DEF IInv, DiskOK
      <3>5. recovered(disk'.store, emptyStore) = store
        BY <3>4 DEF recovered, Whole, Absent
      <3>6. loadedStore' = store
        BY <3>5, MigrateKeeps DEF loadedStore, IInv, MemoryOK
      <3>7. loadedKeys' = keys
        BY <2>1, <3>3, <3>4, Loaded DEF loadedKeys, IInv
      <3>8. loadedStore = acked.store \/ profileIds(loadedStore) = {} \/ loadedStore' = loadedStore
        BY <2>1, <3>6, GoodLoaded
      <3> QED BY <2>1, <3>3, <3>6, <3>7, <3>8
    <2>3. CASE \/ handler = <<rename("keys")>>
               \/ \E p \in Profile \ keys : handler = <<rename("keys"), archive(p)>>
      <3>1. step = rename("keys")
        BY <2>3
      <3>2. step.do = "rename" /\ step.file = "keys"
        BY <3>1 DEF rename
      <3>3. disk' = [disk EXCEPT !.keys = [main |-> @.tmp, tmp |-> Absent]]
        BY <1>6, <3>2 DEF HandlerContinues
      <3> QED BY <1>1, <1>2, <3>3
    <2>4. ASSUME NEW p \in Profile \ keys, handler = <<archive(p)>>
          PROVE  loadedStore' = loadedStore \/ profileIds(loadedStore) = {}
      <3>1. step = archive(p)
        BY <2>4
      <3>2. step.do = "archive" /\ step.profile = p
        BY <3>1 DEF archive
      <3>3. persist(archiveAgentProfile(store, p))
        BY <1>6, <3>2 DEF HandlerContinues
      <3> QED BY <1>3, <2>1, <2>4, <3>3, HandlerHeads
    <2> QED BY <2>1, <2>2, <2>3, <2>4 DEF IInv, HandlerOK
  <1>7. CASE ProfileSave \/ ConfigSave \/ ProfileSetDefault \/ AppStateSet
    BY <1>4, <1>7 DEF ProfileSave, ConfigSave, ProfileSetDefault, AppStateSet
  <1>8. CASE TestAnswered
    <2>1. PICK i \in DOMAIN functions, status \in testConnection :
            /\ serve(i)
            /\ IF called(i).profile.id \in profileIds(store)
               THEN persistThenReply(updateAgentProfileStatus(store, called(i).profile.id, status))
               ELSE UNCHANGED <<store, keys, disk, handler>>
      BY <1>8 DEF TestAnswered
    <2> QED BY <1>2, <1>4, <2>1
  <1>9. CASE SecretSet \/ ProfileDelete
    BY <1>2, <1>5, <1>9 DEF SecretSet, ProfileDelete
  <1>10. CASE Launch
    <2>1. DOMAIN disk = {"store", "keys"}
      BY <1>1
    <2>2. disk'.store = settled(disk.store)
      BY <1>10, <2>1 DEF Launch
    <2>3. loadedStore' = loadedStore
      BY <1>1, <2>2, Settled DEF loadedStore
    <2> QED BY <2>3
  <1>11. CASE Kill
    <2>1. Running
      BY <1>11 DEF Kill, Running
    <2>2. DOMAIN disk = {"store", "keys"}
      BY <1>1
    <2>3. disk'.store = disk.store \/ disk'.store = [disk.store EXCEPT !.tmp = Torn]
      <3>1. CASE disk' = disk
        BY <3>1
      <3>2. CASE disk' = [disk EXCEPT !.store.tmp = Torn]
        BY <1>1, <3>2
      <3>3. CASE disk' = [disk EXCEPT !.keys.tmp = Torn]
        BY <1>1, <3>3
      <3> QED BY <1>11, <2>2, <3>1, <3>2, <3>3 DEF Kill
    <2>4. CASE disk'.store = [disk.store EXCEPT !.tmp = Torn]
      <3>1. loadedStore' = mainStore /\ mainStore = acked.store
        BY <1>1, <2>1, <2>4, TornFile DEF loadedStore, mainStore, IInv, DiskOK
      <3>2. loadedStore = acked.store \/ acked.store = emptyStore
        BY <2>1, Loaded DEF IInv
      <3> QED BY <3>1, <3>2, EmptyGood
    <2> QED BY <1>2, <2>3, <2>4
  <1>12. CASE UNCHANGED disk
    BY <1>2, <1>12
  <1>13. ASSUME User \/ TestConnection \/ ProfileList \/ UNCHANGED vars PROVE UNCHANGED disk
    BY <1>13 DEF User, TestConnection, ProfileList, vars, main, WelcomeContinue, ConnectTest,
       ConnectContinue, ConnectComplete, OpenSettings, SettingsSave, FormTest, Reconfigure,
       CloseModal, handleNew, handleEdit, cancelEdit, handleSave, handleSaved, handleDelete,
       handleSetDefault
  <1> QED BY <1>6, <1>7, <1>8, <1>9, <1>10, <1>11, <1>12, <1>13 DEF Next, Handlers

LEMMA KeyGone ==
  ASSUME IInv, [Next]_vars, NEW record \in listAgentProfiles(loadedStore),
         record.id \in profileIds(loadedStore)',
         getAgentProfile(loadedStore', record.id).archived
  PROVE  record.id \notin loadedKeys'
  <1> DEFINE p == record.id
  <1>1. Good(loadedStore)
    BY GoodLoaded
  <1>2. profileIds(loadedStore)' = profileIds(loadedStore')
    BY DEF profileIds
  <1>3. PICK i \in DOMAIN loadedStore.profiles : loadedStore.profiles[i] = record
    BY DEF listAgentProfiles, Range
  <1>4. ~record.archived /\ p \in profileIds(loadedStore)
    BY DEF listAgentProfiles, profileIds, ids
  <1>5. loadedStore' # loadedStore
    <2> SUFFICES ASSUME loadedStore' = loadedStore PROVE FALSE
      OBVIOUS
    <2>1. getAgentProfile(loadedStore, p) = record
      BY <1>1, <1>3 DEF getAgentProfile, Good, UniqueIds, Range
    <2> QED BY <1>4, <2>1
  <1>6. /\ Running /\ Pending("store")
        /\ loadedStore' = store /\ loadedStore = acked.store /\ loadedKeys' = keys
    BY <1>2, <1>4, <1>5, StoredChange
  <1>7. PICK j \in DOMAIN store.profiles : store.profiles[j] = getAgentProfile(store, p)
                                             /\ store.profiles[j].id = p
    <2>1. p \in profileIds(store)
      BY <1>2, <1>6
    <2>2. \E r \in Range(store.profiles) : r.id = p
      BY <2>1 DEF profileIds, ids
    <2> QED BY <2>2 DEF getAgentProfile, Range
  <1>8. store.profiles[j].archived
    BY <1>6, <1>7
  <1>9. p \notin keys
    BY <1>3, <1>4, <1>6, <1>7, <1>8 DEF IInv, HandlerOK
  <1> QED BY <1>6, <1>9

\* No step of any behaviour archives a profile on disk while its key is there: of a
\* deletion cut by a kill, it is the key that has gone.
THEOREM KeyFirst == Spec => KeyGoesFirst
  <1>1. IInv /\ [Next]_vars =>
          [\A record \in listAgentProfiles(loadedStore) :
             (record.id \in profileIds(loadedStore)' /\ getAgentProfile(loadedStore', record.id).archived)
               => record.id \notin loadedKeys']_vars
    BY KeyGone
  <1> QED BY <1>1, Invariant, PTL DEF Spec, KeyGoesFirst

=============================================================================
