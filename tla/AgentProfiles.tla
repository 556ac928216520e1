---------------------------- MODULE AgentProfiles ----------------------------
(***************************************************************************)
(* The agents a user has set up, and their keys: agentProfiles and         *)
(* appState of src/main/database/db.ts, the secret store, their handlers,  *)
(* and the screens that call them (App, ConnectAgentScreen,                *)
(* AgentProfilesModal, SettingsModal).                                     *)
(*                                                                         *)
(* The renderer's functions send one call and await its answer before the  *)
(* next; several may be under way.  A handler runs alone, but its writes   *)
(* are separate: forge.json and secrets.enc are each written beside the    *)
(* file and renamed, and the program may be killed in between.             *)
(*                                                                         *)
(* Abstracted: what a form holds beside the id and whether a key was       *)
(* typed; times; how a key is encrypted.                                   *)
(***************************************************************************)
EXTENDS Naturals, Sequences, FiniteSets, SequencesExt

CONSTANTS Profile,     \* ids of profiles
          NoProfile,   \* null
          Replies,     \* how a tested endpoint may reply, among Reply
          MaxFunctions, \* bound: functions of the renderer under way
          MaxKills     \* bound: deaths of the program

Reply == {"answered", "rate_limited", "auth_failed", "unreachable", "timeout",
          "server_error", "network", "cancelled"}

ASSUME ProfilesAssumption == /\ NoProfile \notin Profile
                             /\ Replies \subseteq Reply
                             /\ MaxFunctions \in Nat /\ MaxKills \in Nat

VARIABLES store,     \* forge.json in memory: profiles, in the order of insertion, and appState
          keys,      \* secrets.enc in memory: profiles that have a key
          disk,      \* the two files, and the files they are first written to
          handler,   \* what the handler under way has still to do
          functions, \* functions of the renderer, with the calls still to be made
          screen,    \* screen of App; "off" while the program does not run
          modal,     \* modal over the screen
          list,      \* profiles of AgentProfilesModal
          form,      \* form of ConnectAgentScreen, of ProfileEditForm or of SettingsModal
          kills,     \* deaths of the program so far
          acked,     \* history: memory when no handler was under way
          deleted    \* history: profiles the user has deleted

main == <<store, keys, disk, handler, kills, acked, deleted>>
renderer == <<functions, screen, modal, list, form>>
vars == <<main, renderer>>

-----------------------------------------------------------------------------
(* Types *)

Status == {"none", "connected", "auth_failed", "unreachable", "timeout", "error", "idle"}
Record == [id : Profile, isDefault : BOOLEAN, archived : BOOLEAN, status : Status]
NoRecord == [id |-> NoProfile, isDefault |-> FALSE, archived |-> FALSE, status |-> "none"]

ids(records) == {record.id : record \in records}

\* A store of a version without profiles holds one agent, agentConfig, and no default.
emptyStore == [profiles |-> <<>>, agentConfig |-> NoProfile,
               appState |-> [onboardingComplete |-> FALSE, agentConfigId |-> NoProfile,
                             default |-> NoProfile]]

legacyStore(p) == [emptyStore EXCEPT
                     !.agentConfig = p,
                     !.appState = [onboardingComplete |-> TRUE, agentConfigId |-> p,
                                   default |-> NoProfile]]

Absent == [kind |-> "absent"]
Torn == [kind |-> "torn"]
Whole(content) == [kind |-> "whole", content |-> content]

Calls == {"list", "save_profile", "save_config", "set_secret", "set_app_state", "delete",
          "set_default", "test", "verdict", "complete", "saved"}
\* A call's argument: a record that is saved, else a record that stands for its id.
Call == [op : Calls, profile : Record \union {NoRecord}]

NoForm == [profile |-> NoProfile, isNew |-> FALSE, status |-> "none",
           saving |-> FALSE, testing |-> FALSE]

TypeOK == /\ Range(store.profiles) \subseteq Record
          /\ keys \subseteq Profile
          /\ screen \in {"off", "welcome", "connect", "app"}
          /\ modal \in {"none", "profiles", "edit", "settings"}
          /\ list \subseteq Record
          /\ form.profile \in Record \union {NoProfile}
          /\ deleted \subseteq Profile

-----------------------------------------------------------------------------
(* Files *)

\* Mutant: the file first written to is preferred whenever it is there.
recovered_PrefersTmp(file, empty) ==
  LET read == IF file.tmp = Absent THEN file.main ELSE file.tmp
  IN IF read.kind = "whole" THEN read.content ELSE empty

\* load of either file: the file first written to counts when the file itself is missing,
\* and what cannot be parsed is nothing.
recovered(file, empty) ==
  LET read == IF file.main = Absent THEN file.tmp ELSE file.main
  IN IF read.kind = "whole" THEN read.content ELSE empty

newRecord(p, isDefault) == [id |-> p, isDefault |-> isDefault, archived |-> FALSE, status |-> "none"]

\* The agent of an old store becomes its one profile.
migrate(read) ==
  IF read.agentConfig = NoProfile \/ read.profiles # <<>>
  THEN read
  ELSE [read EXCEPT !.profiles = <<newRecord(read.agentConfig, TRUE)>>,
                    !.appState.default = read.agentConfig,
                    !.agentConfig = NoProfile]

loadedStore == migrate(recovered(disk.store, emptyStore))
loadedKeys == recovered(disk.keys, {})

\* load renames the file that was first written to.
settled(file) == IF file.main = Absent THEN [main |-> file.tmp, tmp |-> Absent] ELSE file

-----------------------------------------------------------------------------
(* Profiles in the store *)

profileIds(s) == ids(Range(s.profiles))

getAgentProfile(s, p) == CHOOSE record \in Range(s.profiles) : record.id = p

listAgentProfiles(s) == {record \in Range(s.profiles) : ~record.archived}

put(s, record) ==
  [s EXCEPT !.profiles =
     IF record.id \in profileIds(s)
     THEN [i \in DOMAIN @ |-> IF @[i].id = record.id THEN record ELSE @[i]]
     ELSE Append(@, record)]

\* The profiles, with the flag on p only.
flagged(s, p) == [i \in DOMAIN s.profiles |->
                    [s.profiles[i] EXCEPT !.isDefault = (s.profiles[i].id = p)]]

setDefaultAgentProfile(s, p) ==
  [s EXCEPT !.profiles = flagged(s, p), !.appState.default = p]

\* A record saved as the default takes the flag from the others.
saveAgentProfile(s, record) ==
  put(IF record.isDefault THEN setDefaultAgentProfile(s, record.id) ELSE s, record)

\* What the old form saves: the profile keeps its flag, and nothing else that the form
\* does not know; it is not archived any more.
saveAgentConfig(s, p) ==
  LET flag == IF p \in profileIds(s)
              THEN getAgentProfile(s, p).isDefault
              ELSE s.profiles = <<>>
      saved == put(s, newRecord(p, flag))
  IN IF Len(saved.profiles) = 1 THEN setDefaultAgentProfile(saved, p) ELSE saved

\* Mutant: the profile is removed, not archived.
archiveAgentProfile_Removes(s, p) ==
  [s EXCEPT !.profiles = SelectSeq(@, LAMBDA r : r.id # p)]

archiveAgentProfile(s, p) ==
  LET record == getAgentProfile(s, p)
      archived == put(s, [record EXCEPT !.archived = TRUE, !.isDefault = FALSE])
      others == {i \in DOMAIN archived.profiles : ~archived.profiles[i].archived}
      first == archived.profiles[Min(others)]
  IN IF p \notin profileIds(s) THEN s
     ELSE IF ~record.isDefault THEN archived
     ELSE IF others = {} THEN [archived EXCEPT !.appState.default = NoProfile]
     ELSE [put(archived, [first EXCEPT !.isDefault = TRUE])
             EXCEPT !.appState.default = first.id]

updateAgentProfileStatus(s, p, status) ==
  IF p \in profileIds(s) THEN put(s, [getAgentProfile(s, p) EXCEPT !.status = status]) ELSE s

\* How the tested endpoint's reply reads; one that limits the rate has let the key in.
classifyError(reply) ==
  CASE reply \in {"answered", "rate_limited"}                -> "connected"
    [] reply \in {"auth_failed", "unreachable", "timeout"}   -> reply
    [] reply = "cancelled"                                   -> "idle"
    [] OTHER                                                 -> "error"

testConnection == {classifyError(reply) : reply \in Replies}

-----------------------------------------------------------------------------
(* Handlers *)

rename(file) == [do |-> "rename", file |-> file, profile |-> NoProfile]
archive(p) == [do |-> "archive", file |-> "store", profile |-> p]

\* persist of db.ts and save of the secret store: the write here, the rename a step later.
persist(s) == /\ store' = s
              /\ disk' = [disk EXCEPT !.store.tmp = Whole(s)]
              /\ UNCHANGED keys

saveKeys(set) == /\ keys' = set
                 /\ disk' = [disk EXCEPT !.keys.tmp = Whole(set)]
                 /\ UNCHANGED store

persistThenReply(s) == persist(s) /\ handler' = <<rename("store")>>

\* The rest of a handler.
HandlerContinues ==
  /\ screen # "off"
  /\ handler # <<>>
  /\ LET step == Head(handler) IN
       \/ /\ step.do = "rename"
          /\ disk' = [disk EXCEPT ![step.file] = [main |-> @.tmp, tmp |-> Absent]]
          /\ handler' = Tail(handler)
          /\ UNCHANGED <<store, keys>>
       \/ /\ step.do = "archive"
          /\ persist(archiveAgentProfile(store, step.profile))
          /\ handler' = <<rename("store")>>
  /\ acked' = IF handler' = <<>> THEN [store |-> store', keys |-> keys'] ELSE acked
  /\ UNCHANGED <<kills, deleted, renderer>>

\* The next call of function i is served, and its answer awaited by the renderer.
called(i) == Head(functions[i])
next(i) == [functions EXCEPT ![i] = Tail(@)]
answered(i) == IF Tail(functions[i]) = <<>> THEN RemoveAt(functions, i) ELSE next(i)

serve(i) == /\ screen # "off"
            /\ handler = <<>>
            /\ functions' = answered(i)
            /\ UNCHANGED <<screen, kills, acked>>

ProfileSave == \E i \in DOMAIN functions :
  /\ serve(i)
  /\ called(i).op = "save_profile"
  /\ persistThenReply(saveAgentProfile(store, called(i).profile))
  /\ UNCHANGED <<deleted, modal, list, form>>

ConfigSave == \E i \in DOMAIN functions :
  /\ serve(i)
  /\ called(i).op = "save_config"
  /\ persistThenReply(saveAgentConfig(store, called(i).profile.id))
  /\ UNCHANGED <<deleted, modal, list, form>>

SecretSet == \E i \in DOMAIN functions :
  /\ serve(i)
  /\ called(i).op = "set_secret"
  /\ saveKeys(keys \union {called(i).profile.id})
  /\ handler' = <<rename("keys")>>
  /\ UNCHANGED <<deleted, modal, list, form>>

\* Mutant: the profile is archived and then its key deleted.
ProfileDelete_ArchivesFirst == \E i \in DOMAIN functions :
  /\ serve(i)
  /\ called(i).op = "delete"
  /\ keys' = keys \ {called(i).profile.id}
  /\ store' = archiveAgentProfile(store, called(i).profile.id)
  /\ disk' = [disk EXCEPT !.store.tmp = Whole(store'), !.keys.tmp = Whole(keys')]
  /\ handler' = <<rename("store"), rename("keys")>>
  /\ deleted' = deleted \union {called(i).profile.id}
  /\ UNCHANGED <<modal, list, form>>

ProfileDelete == \E i \in DOMAIN functions :
  /\ serve(i)
  /\ called(i).op = "delete"
  /\ saveKeys(keys \ {called(i).profile.id})
  /\ handler' = <<rename("keys"), archive(called(i).profile.id)>>
  /\ deleted' = deleted \union {called(i).profile.id}
  /\ UNCHANGED <<modal, list, form>>

ProfileSetDefault == \E i \in DOMAIN functions :
  /\ serve(i)
  /\ called(i).op = "set_default"
  /\ persistThenReply(setDefaultAgentProfile(store, called(i).profile.id))
  /\ UNCHANGED <<deleted, modal, list, form>>

AppStateSet == \E i \in DOMAIN functions :
  /\ serve(i)
  /\ called(i).op = "set_app_state"
  /\ LET p == called(i).profile.id IN
       persistThenReply([store EXCEPT !.appState = [onboardingComplete |-> TRUE,
                                                    agentConfigId |-> p, default |-> p]])
  /\ UNCHANGED <<deleted, modal, list, form>>

ProfileList == \E i \in DOMAIN functions :
  /\ serve(i)
  /\ called(i).op = "list"
  /\ list' = IF modal \in {"profiles", "edit"} THEN listAgentProfiles(store) ELSE list
  /\ UNCHANGED <<store, keys, disk, handler, deleted, modal, form>>

\* A test of profile p has come back to the form that asked for it.
tested(p, status) == IF form.profile # NoProfile /\ form.profile.id = p
                     THEN [form EXCEPT !.testing = FALSE, !.status = status]
                     ELSE form

\* Without a key nothing is asked and no status kept.
TestConnection == \E i \in DOMAIN functions :
  /\ screen # "off"
  /\ handler = <<>>
  /\ called(i).op = "test"
  /\ LET p == called(i).profile.id IN
       IF p \in keys
       THEN /\ functions' = [functions EXCEPT ![i] = <<[called(i) EXCEPT !.op = "verdict"]>>]
            /\ UNCHANGED form
       ELSE /\ functions' = answered(i)
            /\ form' = tested(p, "auth_failed")
  /\ UNCHANGED <<main, screen, modal, list>>

TestAnswered == \E i \in DOMAIN functions, status \in testConnection :
  /\ serve(i)
  /\ called(i).op = "verdict"
  /\ LET p == called(i).profile.id
         s == updateAgentProfileStatus(store, p, status)
     IN /\ IF p \in profileIds(store)
           THEN persistThenReply(s)
           ELSE UNCHANGED <<store, keys, disk, handler>>
        /\ form' = tested(p, status)
  /\ UNCHANGED <<deleted, modal, list>>

-----------------------------------------------------------------------------
(* The renderer *)

Start(calls) == /\ Len(functions) < MaxFunctions
                /\ functions' = Append(functions, calls)

call(op, record) == [op |-> op, profile |-> newRecord(record.id, FALSE)]
save(record) == [op |-> "save_profile", profile |-> record]
do(op) == [op |-> op, profile |-> NoRecord]

openForm(record, isNew) == [NoForm EXCEPT !.profile = record, !.isNew = isNew]

\* randomUUID: an id nothing has used.
fresh == {p \in Profile : /\ p \notin profileIds(store) \union keys \union ids(list) \union deleted
                          /\ \A i \in DOMAIN functions, j \in 1..3 :
                               j \in DOMAIN functions[i] => functions[i][j].profile.id # p
                          /\ form.profile = NoProfile \/ form.profile.id # p}

\* App: which screen the program opens with.
Launch ==
  /\ screen = "off"
  /\ store' = loadedStore
  /\ keys' = loadedKeys
  /\ disk' = [f \in DOMAIN disk |-> settled(disk[f])]
  /\ acked' = [store |-> store', keys |-> keys']
  /\ LET app == store'.appState
         configured == app.onboardingComplete /\ app.agentConfigId # NoProfile
     IN screen' = CASE configured /\ app.agentConfigId \in profileIds(store') \intersect keys' -> "app"
                    [] ~configured /\ ~app.onboardingComplete -> "welcome"
                    [] OTHER -> "connect"
  /\ UNCHANGED <<handler, kills, deleted, functions, modal, list, form>>

WelcomeContinue == /\ screen = "welcome"
                   /\ screen' = "connect"
                   /\ UNCHANGED <<main, functions, modal, list, form>>

\* ConnectAgentScreen keeps the id it began with.
connectId(p) == IF form.profile # NoProfile THEN form.profile.id = p
                ELSE IF store.appState.agentConfigId # NoProfile
                     THEN p = store.appState.agentConfigId
                     ELSE p \in fresh

ConnectTest == \E p \in Profile :
  /\ screen = "connect"
  /\ ~form.testing
  /\ connectId(p)
  /\ LET record == newRecord(p, FALSE) IN
       /\ form' = [form EXCEPT !.profile = record, !.testing = TRUE, !.status = "none"]
       /\ Start(<<call("save_config", record), call("set_secret", record),
                  call("test", record)>>)
  /\ UNCHANGED <<main, screen, modal, list>>

ConnectContinue ==
  /\ screen = "connect"
  /\ form.status = "connected"
  /\ ~form.saving
  /\ form' = [form EXCEPT !.saving = TRUE]
  /\ LET record == form.profile IN
       Start(<<call("save_config", record), call("set_secret", record),
               call("set_app_state", record), do("complete")>>)
  /\ UNCHANGED <<main, screen, modal, list>>

ConnectComplete == \E i \in DOMAIN functions :
  /\ handler = <<>>
  /\ called(i).op = "complete"
  /\ functions' = answered(i)
  /\ screen' = "app"
  /\ form' = NoForm
  /\ UNCHANGED <<main, modal, list>>

\* The agent of the first set-up has its own modal, whatever is the default now.
OpenSettings ==
  /\ screen = "app"
  /\ modal = "none"
  /\ LET p == store.appState.agentConfigId IN
       IF p \in profileIds(store)
       THEN /\ modal' = "settings"
            /\ form' = openForm(newRecord(p, FALSE), FALSE)
            /\ UNCHANGED <<functions, list>>
       ELSE /\ modal' = "profiles"
            /\ list' = {}
            /\ Start(<<do("list")>>)
            /\ UNCHANGED form
  /\ UNCHANGED <<main, screen>>

SettingsSave == /\ modal = "settings"
                /\ ~form.saving
                /\ form' = [form EXCEPT !.saving = TRUE]
                /\ Start(<<call("save_config", form.profile), do("saved")>>)
                /\ UNCHANGED <<main, screen, modal, list>>

FormTest == /\ modal \in {"settings", "edit"}
            /\ ~form.testing
            /\ form' = [form EXCEPT !.testing = TRUE]
            /\ \E withKey \in BOOLEAN :
                 /\ withKey => modal = "edit"
                 /\ Start((IF withKey THEN <<call("set_secret", form.profile)>> ELSE <<>>)
                            \o <<call("test", form.profile)>>)
            /\ UNCHANGED <<main, screen, modal, list>>

Reconfigure == /\ modal = "settings"
               /\ modal' = "profiles"
               /\ list' = {}
               /\ form' = NoForm
               /\ Start(<<do("list")>>)
               /\ UNCHANGED <<main, screen>>

CloseModal == /\ modal # "none"
              /\ modal' = "none"
              /\ list' = {}
              /\ form' = NoForm
              /\ UNCHANGED <<main, functions, screen>>

handleNew == /\ modal = "profiles"
             /\ \E p \in fresh : form' = openForm(newRecord(p, list = {}), TRUE)
             /\ modal' = "edit"
             /\ UNCHANGED <<main, functions, screen, list>>

\* The form starts from the list's copy of the profile.
handleEdit == /\ modal = "profiles"
              /\ \E record \in list : form' = openForm(record, FALSE)
              /\ modal' = "edit"
              /\ UNCHANGED <<main, functions, screen, list>>

cancelEdit == /\ modal = "edit"
              /\ modal' = "profiles"
              /\ form' = NoForm
              /\ UNCHANGED <<main, functions, screen, list>>

handleSave ==
  /\ modal = "edit"
  /\ ~form.saving
  /\ form' = [form EXCEPT !.saving = TRUE]
  /\ \E withKey \in BOOLEAN :
       /\ form.isNew => withKey
       /\ Start(<<save(form.profile)>>
                  \o (IF withKey THEN <<call("set_secret", form.profile)>> ELSE <<>>)
                  \o <<do("saved"), do("list")>>)
  /\ UNCHANGED <<main, screen, modal, list>>

\* onSaved of the form, and the end of SettingsModal's save.
handleSaved == \E i \in DOMAIN functions :
  /\ handler = <<>>
  /\ called(i).op = "saved"
  /\ functions' = answered(i)
  /\ IF modal = "settings"
     THEN form' = [form EXCEPT !.saving = FALSE] /\ UNCHANGED modal
     ELSE IF modal = "edit" THEN form' = NoForm /\ modal' = "profiles"
     ELSE UNCHANGED <<form, modal>>
  /\ UNCHANGED <<main, screen, list>>

handleDelete == /\ modal = "profiles"
                /\ \E record \in list : Start(<<call("delete", record), do("list")>>)
                /\ UNCHANGED <<main, screen, modal, list, form>>

handleSetDefault ==
  /\ modal = "profiles"
  /\ \E record \in list : /\ ~record.isDefault
                          /\ Start(<<call("set_default", record), do("list")>>)
  /\ UNCHANGED <<main, screen, modal, list, form>>

\* The program dies wherever it is; a file being written may be torn.  Memory keeps what
\* it held, which nothing reads before Launch, for AnswersAreDurable.
Kill ==
  /\ screen # "off"
  /\ kills < MaxKills
  /\ kills' = kills + 1
  /\ disk' \in {disk} \union
       {[disk EXCEPT ![f].tmp = Torn] : f \in {f \in DOMAIN disk : disk[f].tmp # Absent}}
  /\ handler' = <<>>
  /\ functions' = <<>>
  /\ screen' = "off"
  /\ modal' = "none"
  /\ list' = {}
  /\ form' = NoForm
  /\ UNCHANGED <<store, keys, acked, deleted>>

-----------------------------------------------------------------------------
(* The specification *)

Init == /\ \/ disk = [store |-> [main |-> Absent, tmp |-> Absent],
                      keys  |-> [main |-> Absent, tmp |-> Absent]]
           \/ \E p \in Profile :
                disk = [store |-> [main |-> Whole(legacyStore(p)), tmp |-> Absent],
                        keys  |-> [main |-> Whole({p}), tmp |-> Absent]]
        /\ store = loadedStore
        /\ keys = loadedKeys
        /\ handler = <<>>
        /\ functions = <<>>
        /\ screen = "off"
        /\ modal = "none"
        /\ list = {}
        /\ form = NoForm
        /\ kills = 0
        /\ acked = [store |-> store, keys |-> keys]
        /\ deleted = {}

Handlers == \/ HandlerContinues \/ ProfileSave \/ ConfigSave \/ SecretSet \/ ProfileDelete
            \/ ProfileSetDefault \/ AppStateSet \/ ProfileList
            \/ TestConnection \/ TestAnswered

User == \/ WelcomeContinue \/ ConnectTest \/ ConnectContinue \/ ConnectComplete
        \/ OpenSettings \/ SettingsSave \/ FormTest \/ Reconfigure \/ CloseModal
        \/ handleNew \/ handleEdit \/ cancelEdit \/ handleSave \/ handleSaved
        \/ handleDelete \/ handleSetDefault

Next == Launch \/ Kill \/ Handlers \/ User

Spec == Init /\ [][Next]_vars

-----------------------------------------------------------------------------
(* Properties *)

\* At most one profile is the default: saving, choosing, deleting and the old form each
\* clear or move the flag over the whole list, from copies that may be out of date.
OneDefault ==
  Cardinality({i \in DOMAIN store.profiles : store.profiles[i].isDefault}) <= 1

\* What a launch reads after a kill, at any instant, is what memory held when the last
\* handler answered or what the handler under way has made of it: no rename is missed, and
\* a file cut short or an older one left beside the file is never taken for the file.
AnswersAreDurable == /\ loadedStore \in {acked.store, store}
                     /\ loadedKeys \in {acked.keys, keys}

\* Set-up is saved in an order that a kill cannot break: once onboarding is recorded, a
\* launch finds its agent and, unless the user deleted the agent, the agent's key; the
\* default, when there is one, is a profile that exists.
OnboardedIsComplete ==
  LET app == loadedStore.appState IN
    /\ app.onboardingComplete =>
         /\ app.agentConfigId \in profileIds(loadedStore)
         /\ app.agentConfigId \in loadedKeys \union deleted
    /\ app.default \in profileIds(loadedStore) \union {NoProfile}

\* What the store says of set-up and default is one story.
SetUpIsCoherent == OneDefault /\ OnboardedIsComplete

\* A profile is never archived on disk while its key is still there: a kill in the middle
\* of a deletion leaves a profile without a key, not a key nobody sees.
KeyGoesFirst ==
  [][\A record \in listAgentProfiles(loadedStore) :
       (record.id \in profileIds(loadedStore)' /\ getAgentProfile(loadedStore', record.id).archived)
         => record.id \notin loadedKeys']_vars

=============================================================================
