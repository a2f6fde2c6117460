------------------------------ MODULE Providers ------------------------------
(***************************************************************************)
(* The model providers: providers.json and the keys beside it, which the   *)
(* Host edits for the settings page and serves as adapters, the page with  *)
(* its two queries, and the desktop's settings that set the default model; *)
(* and apart from those, as "mp", the lists of models and the editor of    *)
(* one provider (ModelsPage.tsx, lib/modelProviders.ts).                   *)
(***************************************************************************)
EXTENDS Naturals, Sequences, FiniteSets, SequencesExt

CONSTANTS Ids,
          MaxOps,
          MaxTurns,     \* what the user does in the models page
          Races         \* what this instance admits of "overlap", "stale form", "headers", "late check",
                        \* "half written", "torn edit", "desktop default", and in the models page of
                        \* "added again", "typed", "other address", "auth", "tagged anew", "model gone", "none left"

VARIABLES pv, mp

None == "none"
Protocols == {"a", "b"}
\* Keys the user types; one of them names a variable of the environment.  0: no key.
NoKey == 0
EnvKey == 9
Keys == {1, 2, EnvKey}
\* An entry refers to a key by "key"; a stored one is in the secrets under the entry's id.
Entry(id, api, key, headers) == [id |-> id, api |-> api, key |-> key, headers |-> headers]
NoEntry == Entry(None, None, None, FALSE)
SettingTasks == {1, 2}
\* One thing the page has the Host do: its kind, how far it is, and what it read or is about to say.
Idle == [kind |-> None, phase |-> None, id |-> None, key |-> NoKey, keep |-> FALSE, entry |-> NoEntry, list |-> <<>>]
NoCheck == [id |-> None, key |-> NoKey, done |-> FALSE]

IndexOf(list, id) == LET at == {k \in DOMAIN list : list[k].id = id} IN IF at = {} THEN 0 ELSE CHOOSE k \in at : TRUE
EntryOf(list, id) == IF IndexOf(list, id) = 0 THEN NoEntry ELSE list[IndexOf(list, id)]
\* Credentials.resolve of an entry's reference.
KeyOf(x, id) ==
    LET e == EntryOf(x.list, id)
    IN CASE e.key = "stored" -> x.secrets[id] [] e.key = "env" -> EnvKey [] OTHER -> NoKey
\* rebindProviders: the entries of the file whose protocol is there; an unreadable file has none.
Bound(x) == IF x.readable THEN {e \in ToSet(x.list) : e.api \in x.protocols} ELSE {}

Init ==
    \E first \in {Entry("p", "a", None, FALSE), Entry("p", "a", None, TRUE)} :
       pv = [readable |-> TRUE, list |-> <<first>>, default |-> "p", secrets |-> [i \in Ids |-> NoKey],
             up |-> TRUE, protocols |-> Protocols, live |-> {first}, synced |-> TRUE,
             tasks |-> [t \in SettingTasks |-> Idle], shown |-> <<first>>, configs |-> <<first>>, check |-> NoCheck,
             settings |-> "p", chosen |-> "p", may |-> [i \in Ids |-> {NoKey}], ops |-> 0]
Op(x) == [x EXCEPT !.ops = @ + 1]
CanOp == pv.ops < MaxOps
Quiet == \A t \in SettingTasks : pv.tasks[t] = Idle
FreeTask(x) == CHOOSE t \in SettingTasks : x.tasks[t] = Idle
MayStart == pv.up /\ CanOp /\ (Quiet \/ ("overlap" \in Races /\ \E t \in SettingTasks : pv.tasks[t] = Idle))
\* No verdict of another key is shown, or about to be.
NoVerdict(id) == pv.check.id # id \/ "late check" \in Races
Start(x, task) == Op([x EXCEPT !.tasks[FreeTask(x)] = task])
\* Until it is told how the change went, the key may be the old one or the new one.
Expect(x, id, key) == [x EXCEPT !.may[id] = @ \cup {key}]

-----------------------------------------------------------------------------
(* The Host                                                                *)
\* entryOf of a draft: a typed key is stored or names a variable; an empty one keeps or clears.
Drafted(x, task, previous) ==
    [task.entry EXCEPT !.key = IF task.key = EnvKey THEN "env"
                               ELSE IF task.key # NoKey THEN "stored"
                               ELSE IF task.keep /\ previous # NoEntry THEN previous.key ELSE None]
\* The keys after provider.save: the old id's goes, a typed one comes, a kept one moves with its provider.
SavedSecrets(x, task, entry) ==
    LET moved == task.id # entry.id
    IN [i \in Ids |->
          IF i = entry.id THEN
              CASE entry.key # "stored" -> NoKey
                [] task.key # NoKey -> task.key
                [] moved /\ x.secrets[task.id] # NoKey -> x.secrets[task.id]
                [] OTHER -> x.secrets[i]
          ELSE IF i = task.id THEN NoKey ELSE x.secrets[i]]
Refuses(x, task) ==
    \/ ~x.readable
    \/ task.kind = "add" /\ IndexOf(x.list, task.id) # 0
    \/ task.entry.id # task.id /\ IndexOf(x.list, task.entry.id) # 0
SavedList(x, task, entry) ==
    LET at == IndexOf(x.list, task.id)
    IN IF at = 0 THEN Append(x.list, entry) ELSE [x.list EXCEPT ![at] = entry]
\* The keys are written first, then the file; then the plugins are synchronised.
Saved(x, task) ==
    LET entry == Drafted(x, task, EntryOf(x.list, task.id))
    IN [x EXCEPT !.secrets = SavedSecrets(x, task, entry),
                 !.list = SavedList(x, task, entry),
                 !.default = IF @ = task.id THEN entry.id ELSE @,
                 !.chosen = IF @ = task.id THEN entry.id ELSE @,
                 !.synced = FALSE]
KeysWritten(x, task) == [x EXCEPT !.secrets = SavedSecrets(x, task, Drafted(x, task, EntryOf(x.list, task.id)))]
\* provider.delete: the file first, then the key.
Deleted(x, id) ==
    [x EXCEPT !.list = SelectSeq(@, LAMBDA e : e.id # id), !.secrets[id] = NoKey, !.synced = FALSE]

\* The user means to set or remove the key; an edit without one means to leave it.
GivesKey(task) == task.kind \in {"key", "add", "delete"} \/ task.key # NoKey
Phase(t, phase) == pv.up /\ pv.tasks[t].phase = phase
Then(x, t, phase) == [x EXCEPT !.tasks[t].phase = phase]
\* setKey reads the providers before it saves one with another key.
ReadsConfigs(t) ==
    /\ Phase(t, "configs")
    /\ LET e == EntryOf(pv.list, pv.tasks[t].id)
       IN pv' = IF ~pv.readable \/ e = NoEntry THEN [pv EXCEPT !.tasks[t] = Idle]
                ELSE [Then(pv, t, "save") EXCEPT !.tasks[t].entry = e]
ProviderSave(t) ==
    /\ Phase(t, "save")
    /\ pv' = IF Refuses(pv, pv.tasks[t]) THEN [pv EXCEPT !.tasks[t] = Idle]
             ELSE Then(Saved(pv, pv.tasks[t]), t, "sync")
\* The second write fails, or the Host dies before it.
ProviderSaveFails(t) ==
    /\ "half written" \in Races
    /\ Phase(t, "save") /\ ~Refuses(pv, pv.tasks[t])
    /\ pv' = [KeysWritten(pv, pv.tasks[t]) EXCEPT !.tasks[t] = Idle]
ProviderDelete(t) ==
    /\ Phase(t, "delete")
    /\ pv' = IF ~pv.readable \/ IndexOf(pv.list, pv.tasks[t].id) = 0 THEN [pv EXCEPT !.tasks[t] = Idle]
             ELSE Then(Deleted(pv, pv.tasks[t].id), t, "sync")
\* The file's text is part of the plugin's configuration, so a change of it loads the adapters again.
Sync == pv.up /\ ~pv.synced /\ pv' = [pv EXCEPT !.live = Bound(pv), !.synced = TRUE]
\* The answer: what was asked is done.
Answered(t) ==
    /\ Phase(t, "sync") /\ pv.synced
    /\ LET task == pv.tasks[t]
           to == IF task.kind = "delete" THEN task.id ELSE task.entry.id
           x == [Then(pv, t, "list") EXCEPT
                    !.may = [i \in Ids |-> IF i = to THEN (IF GivesKey(task) THEN {task.key} ELSE @[i])
                                           ELSE IF i = task.id THEN {NoKey} ELSE @[i]]]
       IN pv' = x
\* list and configs: what there is, as the page will show it.
ReadsList(t) == Phase(t, "list") /\ pv.readable /\ pv' = [Then(pv, t, "show") EXCEPT !.tasks[t].list = pv.list]
ListFails(t) == Phase(t, "list") /\ ~pv.readable /\ pv' = [pv EXCEPT !.tasks[t] = Idle]
\* After a key only the one query is filled; after the others both are read again.
Shows(t) ==
    /\ Phase(t, "show")
    /\ pv' = [pv EXCEPT !.shown = pv.tasks[t].list,
                        !.configs = IF pv.tasks[t].kind = "key" THEN @ ELSE pv.tasks[t].list,
                        !.check = IF pv.tasks[t].kind = "key" /\ pv.tasks[t].key = NoKey THEN NoCheck ELSE @,
                        !.tasks[t] = Idle]
\* llm/protocols-changed: a protocol's plugin comes or goes; the providers are bound anew.
ProtocolsChange(p) ==
    /\ pv.up /\ CanOp
    /\ LET x == [pv EXCEPT !.protocols = IF p \in @ THEN @ \ {p} ELSE @ \cup {p}]
       IN pv' = Op([x EXCEPT !.live = Bound(x)])
\* A desktop message: the settings' model becomes the default; a file that cannot be read is begun anew.
Told(x) == [x EXCEPT !.default = x.settings, !.list = IF x.readable THEN @ ELSE <<>>, !.readable = TRUE, !.synced = FALSE]
DesktopMessage == pv.up /\ CanOp /\ pv' = Op(Told(pv))
\* Somebody edits the file by hand and leaves a mistake in it, or puts it right.
EditByHand ==
    /\ "torn edit" \in Races /\ CanOp /\ Quiet
    /\ pv' = Op([pv EXCEPT !.readable = ~@, !.synced = FALSE])
HostDies ==
    /\ pv.up /\ CanOp
    /\ pv' = Op([pv EXCEPT !.up = FALSE, !.live = {}, !.synced = TRUE, !.tasks = [t \in SettingTasks |-> Idle],
                           !.check = IF @.done THEN @ ELSE NoCheck])
HostStarts == ~pv.up /\ pv' = Told([pv EXCEPT !.up = TRUE, !.live = Bound(pv)])

-----------------------------------------------------------------------------
(* The page                                                                *)
\* connect and disconnect
SetKey(id, key) ==
    /\ MayStart /\ IndexOf(pv.shown, id) # 0
    /\ pv.check.id # id \/ pv.check.done \/ "late check" \in Races
    /\ ~\E t \in SettingTasks : pv.tasks[t].kind = "key" /\ key # NoKey
    /\ pv' = Start([Expect(pv, id, key) EXCEPT !.check = IF key = NoKey THEN @ ELSE NoCheck],
                   [Idle EXCEPT !.kind = "key", !.phase = "configs", !.id = id, !.key = key])
\* The editor: a draft of what the second query has, saved with a new protocol, key, or neither.
\* It knows of no headers, and keeps a key only where that query says there is one.
EditProvider(id, api, key) ==
    LET e == EntryOf(pv.configs, id)
    IN /\ MayStart /\ (key = NoKey \/ NoVerdict(id)) /\ IndexOf(pv.shown, id) # 0 /\ e # NoEntry
       /\ "stale form" \in Races \/ e.key = EntryOf(pv.list, id).key
       /\ "headers" \in Races \/ ~e.headers
       /\ pv' = Start(IF key = NoKey THEN pv ELSE Expect(pv, id, key),
                      [Idle EXCEPT !.kind = "edit", !.phase = "save", !.id = id, !.key = key,
                                   !.keep = key = NoKey /\ e.key # None, !.entry = Entry(id, api, None, FALSE)])
AddProvider(id, api, key) ==
    /\ MayStart /\ NoVerdict(id) /\ IndexOf(pv.shown, id) = 0
    /\ pv' = Start(Expect(pv, id, key),
                   [Idle EXCEPT !.kind = "add", !.phase = "save", !.id = id, !.key = key, !.entry = Entry(id, api, None, FALSE)])
\* Another client may give a provider another name.
RenameProvider(id, to) ==
    LET e == EntryOf(pv.list, id)
    IN /\ MayStart /\ NoVerdict(id) /\ NoVerdict(to) /\ pv.readable /\ e # NoEntry /\ id # to
       /\ pv.settings # id \/ "desktop default" \in Races
       /\ pv' = Start([pv EXCEPT !.may[to] = @ \cup pv.may[id], !.may[id] = @ \cup {NoKey}],
                      [Idle EXCEPT !.kind = "rename", !.phase = "save", !.id = id, !.keep = TRUE, !.entry = [e EXCEPT !.id = to]])
DeleteProvider(id) ==
    /\ MayStart /\ IndexOf(pv.shown, id) # 0
    /\ pv' = Start(Expect(pv, id, NoKey), [Idle EXCEPT !.kind = "delete", !.phase = "delete", !.id = id])
Refresh == MayStart /\ pv' = Start(pv, [Idle EXCEPT !.kind = "refresh", !.phase = "list"])
\* runCheck: the provider is asked with the key it has then; the answer is shown when it comes.
RunCheck(id) ==
    /\ pv.up /\ CanOp /\ EntryOf(pv.shown, id).key # None
    /\ Quiet \/ "late check" \in Races
    /\ \E e \in pv.live : e.id = id
    /\ pv' = Op([pv EXCEPT !.check = [id |-> id, key |-> KeyOf(pv, id), done |-> FALSE]])
CheckAnswered(id, key) ==
    /\ pv.check = [id |-> id, key |-> key, done |-> FALSE]
    /\ pv' = [pv EXCEPT !.check.done = TRUE]
\* The default model of new tasks: saved with the settings, which the Host is told of.
SelectDefault(id) ==
    /\ CanOp /\ pv.settings # id /\ EntryOf(pv.shown, id).key # None
    /\ LET x == [pv EXCEPT !.settings = id, !.chosen = id] IN pv' = Op(IF pv.up THEN Told(x) ELSE x)

Next ==
    \/ \E t \in SettingTasks :
          \/ ReadsConfigs(t) \/ ProviderSave(t) \/ ProviderSaveFails(t) \/ ProviderDelete(t)
          \/ Answered(t) \/ ReadsList(t) \/ ListFails(t) \/ Shows(t)
    \/ Sync \/ DesktopMessage \/ EditByHand \/ HostDies \/ HostStarts \/ Refresh
    \/ \E p \in Protocols : ProtocolsChange(p)
    \/ \E id \in Ids : DeleteProvider(id) \/ RunCheck(id) \/ SelectDefault(id)
    \/ \E id \in Ids, key \in Keys \cup {NoKey} :
          \/ SetKey(id, key) \/ CheckAnswered(id, key)
          \/ \E api \in Protocols : EditProvider(id, api, key) \/ AddProvider(id, api, key)
    \/ \E id, to \in Ids : RenameProvider(id, to)
-----------------------------------------------------------------------------
(* The models page: its lists and its editor of a provider                 *)
Models == {"m", "n"}
Gone == "gone"
Addresses == {1, 2}
\* What a model's capabilities are from; "own": from what the user entered.
Tags == {"catalog", "guess", "default"}
NoModels == [m \in Models |-> Gone]
Has(models) == {m \in Models : models[m] # Gone}
\* What an address lists of a model: its name with what it can do, or the bare name.
Served(address) == IF address = 1 THEN [m |-> "full", n |-> "bare"] ELSE [m |-> "bare", n |-> Gone]

NoEditor == [open |-> FALSE, editing |-> FALSE, address |-> 1, auth |-> FALSE, models |-> NoModels, found |-> NoModels,
             at |-> 0, tags |-> NoModels, asking |-> 0, error |-> FALSE]
NoSave == [busy |-> FALSE, models |-> NoModels, address |-> 1, auth |-> FALSE]
NoProvider == [there |-> FALSE, connected |-> FALSE, models |-> NoModels, address |-> 1, auth |-> FALSE]

PageInit ==
    \E others \in BOOLEAN :
       mp = [provider |-> [NoProvider EXCEPT !.there = TRUE, !.connected = TRUE, !.models = [m |-> "own", n |-> Gone]],
             others |-> others, editor |-> NoEditor, save |-> NoSave, default |-> Gone, hidden |-> {}, meant |-> {}, ops |-> 0]
Again == mp.ops < MaxTurns
Turn(x) == [x EXCEPT !.ops = @ + 1]
Editing == mp.editor.open
Draft == mp.editor

\* enrichModel: what the address says, else what the lists of the providers say of the name, else a guess by it.
Catalog == Has(mp.provider.models) \cup (IF mp.others THEN {"n"} ELSE {})
Filled(m, served) ==
    IF served = "full" THEN "api" ELSE IF m \in Catalog THEN "catalog" ELSE IF m = "m" THEN "guess" ELSE "default"

OpenEditor ==
    /\ ~Editing /\ Again
    /\ \/ /\ ~mp.provider.there /\ ("added again" \in Races \/ mp.hidden = {})
          /\ mp' = Turn([mp EXCEPT !.editor = [NoEditor EXCEPT !.open = TRUE]])
       \/ /\ mp.provider.there
          /\ mp' = Turn([mp EXCEPT !.editor = [NoEditor EXCEPT !.open = TRUE, !.editing = TRUE, !.models = mp.provider.models,
                                                               !.address = mp.provider.address]])
CloseEditor == Editing /\ ~mp.save.busy /\ mp' = [mp EXCEPT !.editor = NoEditor]

\* The fields can be changed while the draft is being saved.
MayType == Editing /\ Again /\ (~mp.save.busy \/ "typed" \in Races)
SetAddress(a) ==
    /\ MayType /\ a # Draft.address
    /\ "other address" \in Races \/ (Draft.at = 0 /\ Draft.asking = 0)
    /\ mp' = Turn([mp EXCEPT !.editor.address = a])
SetAuth == MayType /\ "auth" \in Races /\ mp' = Turn([mp EXCEPT !.editor.auth = ~@])
ToggleModel(m) ==
    /\ MayType /\ m \in Has(Draft.models) \cup Has(Draft.found)
    /\ mp' = Turn([mp EXCEPT !.editor.models[m] = IF @ = Gone THEN Draft.found[m] ELSE Gone])
\* What the user has changed is of no other source any more.
ChangeModel(m) ==
    /\ MayType /\ Draft.models[m] # Gone
    /\ mp' = Turn([mp EXCEPT !.editor.models[m] = "own", !.editor.tags[m] = Gone])
AddManual(m) ==
    /\ MayType /\ Draft.models[m] = Gone
    /\ mp' = Turn([mp EXCEPT !.editor.models[m] = IF Draft.found[m] # Gone THEN Draft.found[m] ELSE Filled(m, "bare"),
                             !.editor.tags[m] = IF Draft.found[m] # Gone THEN @ ELSE Filled(m, "bare")])

Discover ==
    /\ Editing /\ Again /\ Draft.asking = 0
    /\ mp' = Turn([mp EXCEPT !.editor.asking = Draft.address, !.editor.error = FALSE])
\* All that is found is tagged anew, what is in the draft already too.
Discovered ==
    /\ Editing /\ Draft.asking # 0
    /\ LET served == Served(Draft.asking)
           found == [m \in Models |-> IF served[m] = Gone THEN Gone ELSE Filled(m, served[m])]
       IN /\ "tagged anew" \in Races \/ \A m \in Has(found) : Draft.models[m] \in {Gone, found[m]}
          /\ mp' = [mp EXCEPT !.editor.asking = 0, !.editor.found = found, !.editor.at = Draft.asking,
                              !.editor.tags = [m \in Models |-> IF found[m] = Gone THEN @[m] ELSE found[m]]]
DiscoverFails ==
    Editing /\ Draft.asking # 0 /\ mp' = [mp EXCEPT !.editor.asking = 0, !.editor.error = TRUE]

SaveDraft ==
    /\ Editing /\ ~mp.save.busy /\ Again
    /\ mp' = IF Has(Draft.models) = {} THEN Turn([mp EXCEPT !.editor.error = TRUE])
             ELSE Turn([mp EXCEPT !.editor.error = FALSE,
                                  !.save = [busy |-> TRUE, models |-> Draft.models, address |-> Draft.address, auth |-> Draft.auth]])
\* draftToHost leaves out the header it was asked for.
DraftSaved ==
    /\ mp.save.busy
    /\ "model gone" \in Races \/ mp.default \in {Gone} \cup Has(mp.save.models)
    /\ mp' = [mp EXCEPT !.provider = [@ EXCEPT !.there = TRUE, !.models = mp.save.models, !.address = mp.save.address],
                        !.save = NoSave, !.editor = NoEditor]
SaveRefused == mp.save.busy /\ mp' = [mp EXCEPT !.save = NoSave, !.editor.error = TRUE]
DeleteCustom ==
    /\ mp.provider.there /\ ~Editing /\ Again /\ (mp.others \/ mp.default = Gone \/ "none left" \in Races)
    /\ mp' = Turn([mp EXCEPT !.provider = NoProvider, !.meant = {}])
KeyChanges == mp.provider.there /\ ~Editing /\ Again /\ mp' = Turn([mp EXCEPT !.provider.connected = ~@])

\* DefaultModelCard
Options ==
    IF mp.provider.connected THEN {m \in Has(mp.provider.models) : m \notin mp.hidden \/ m = mp.default} ELSE {}
StaleDefault == mp.default # Gone /\ (mp.others \/ mp.provider.there) /\ ~mp.provider.connected
ChooseDefault(m) == ~Editing /\ Again /\ m \in Options \cup {Gone} /\ mp' = Turn([mp EXCEPT !.default = m])
\* setModelsVisible, of one or of all that the search shows
SetVisible(shown, visible) ==
    /\ ~Editing /\ Again /\ shown # {} /\ shown \subseteq Has(mp.provider.models)
    /\ mp' = Turn([mp EXCEPT !.hidden = IF visible THEN @ \ shown ELSE @ \cup shown,
                             !.meant = IF visible THEN @ \ shown ELSE @ \cup shown])

PageNext ==
    \/ OpenEditor \/ CloseEditor \/ SetAuth \/ Discover \/ Discovered \/ DiscoverFails
    \/ SaveDraft \/ DraftSaved \/ SaveRefused \/ DeleteCustom \/ KeyChanges
    \/ \E a \in Addresses : SetAddress(a)
    \/ \E m \in Models : ToggleModel(m) \/ ChangeModel(m) \/ AddManual(m)
    \/ \E m \in Models \cup {Gone} : ChooseDefault(m)
    \/ \E shown \in SUBSET Models, visible \in BOOLEAN : SetVisible(shown, visible)

Spec == (Init /\ PageInit) /\ [][(Next /\ UNCHANGED mp) \/ (PageNext /\ UNCHANGED pv)]_<<pv, mp>>
-----------------------------------------------------------------------------
\* A provider is called with the key the user gave it last, and with none where the key was removed;
\* only a change whose answer has not come leaves two to expect.
KeysAreKept == \A id \in Ids : KeyOf(pv, id) \in pv.may[id]

\* Once it is synchronised the Host serves the providers of the file whose protocols are there.
ServesTheFile == pv.up /\ pv.synced => pv.live = Bound(pv)

\* The default of new tasks is the provider chosen for it, by whatever name it goes now.
DefaultFollows == pv.up => pv.default = pv.chosen

\* The verdict a provider's page shows was given on the key the provider has.
CheckIsOfNow ==
    Quiet /\ pv.check.done /\ EntryOf(pv.list, pv.check.id).key # None => pv.check.key \in pv.may[pv.check.id]

\* A provider changes only by a change of it, which leaves alone what it is not about: the headers,
\* which no form shows, and all but the key where the key is set.
RestIsKept ==
    \A id \in Ids :
       LET old == EntryOf(pv.list, id)
           new == EntryOf(pv'.list, id)
           by == {t \in SettingTasks : pv.tasks[t].phase \in {"save", "delete"} /\ id \in {pv.tasks[t].id, pv.tasks[t].entry.id}}
       IN new # old =>
            /\ by # {}
            /\ old # NoEntry /\ new # NoEntry =>
                  /\ new.headers = old.headers
                  /\ \A t \in by : pv.tasks[t].kind = "key" => new.api = old.api
EditsKeepTheRest == [][RestIsKept]_pv

\* Where the editor says what a model's capabilities are from, they are from there.
TagsAreTrue == \A m \in Has(Draft.models) : Draft.tags[m] \in Tags => Draft.models[m] = Draft.tags[m]
\* The models offered are those of the address in the form.
OffersAreOfAddress == Draft.at # 0 => Draft.at = Draft.address
\* What is saved is what the form shows, and what the form shows of a provider is what was saved.
SavesWhatIsShown ==
    mp.save.busy => mp.save = [busy |-> TRUE, models |-> Draft.models, address |-> Draft.address, auth |-> mp.provider.auth]
\* A model chosen for new tasks that is not there is told to the user.
DefaultIsTold == mp.default # Gone => StaleDefault \/ mp.default \in Options
\* Models are hidden that the user hid.
HiddenAsMeant == mp.hidden \cap Has(mp.provider.models) = mp.meant \cap Has(mp.provider.models)
=============================================================================
