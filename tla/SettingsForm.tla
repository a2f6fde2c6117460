----------------------------- MODULE SettingsForm -----------------------------
(***************************************************************************)
(* The settings page and everybody else who writes settings: the form of   *)
(* SettingsModal.tsx that saves itself a moment after an edit, the         *)
(* composer's modes, the model picked last, the pet that is switched off   *)
(* from its own window.  Each writes all settings, from what it last read. *)
(*                                                                         *)
(* sf.file     the desktop's settings; sf.store  the page's copy, masked   *)
(* sf.form     the open form: values, editedRef, pendingSaveRef, the timer *)
(*             of 320 ms, the flush under way (and whether it closes the   *)
(*             page after), flushes that wait for it, and what it says     *)
(* sf.saves    saveSettings calls: set_settings, then get_settings         *)
(* sf.runtime  the permission mode of the running task, and the pick that  *)
(*             waits for it with the settings it saw                       *)
(* sf.meant    what the user set each setting to last                      *)
(* What set_settings does to the Host is module HarnessHost's.             *)
(***************************************************************************)
EXTENDS Naturals, Sequences, FiniteSets, SequencesExt

CONSTANTS MaxEdits, MaxOthers, MaxOpens,
          Races    \* what this instance admits of "overlap", "pause" and "old status"

VARIABLE sf

\* A credential that is not shown; one with letters typed after its mask; the theme of own colours;
\* a size that the desktop refuses.
Mask == 0
Garbled == 100
Custom == 100
TooLarge == 100
Settings ==
    [row |-> 1, theme |-> 1, color |-> 1, scale |-> 1, rules |-> <<1>>, hook |-> [event |-> "settled", blocks |-> FALSE],
     id |-> 1, secret |-> 1, mode |-> 1, model |-> 1, pet |-> 1, task |-> 1, shortcut |-> 1, agents |-> 3]
Masked(v) == [v EXCEPT !.secret = Mask]
Closed == [open |-> FALSE, inst |-> 0, values |-> Masked(Settings), edited |-> FALSE, pending |-> FALSE, timer |-> FALSE,
           closes |-> FALSE, waiter |-> FALSE, status |-> "idle", statusTimer |-> FALSE, failed |-> FALSE]

Init ==
    sf = [file |-> Settings, store |-> Masked(Settings), form |-> Closed, saves |-> <<>>,
          runtime |-> [mode |-> 1, pick |-> 0, seen |-> Masked(Settings), by |-> "composer"],
          meant |-> Settings, edits |-> 0, others |-> 0]

Calm == sf.saves = <<>> /\ sf.runtime.pick = 0 /\ ~sf.form.edited
SavesOf(inst) == {i \in DOMAIN sf.saves : sf.saves[i].inst = inst}
InFlight == sf.form.open /\ SavesOf(sf.form.inst) # {}

-----------------------------------------------------------------------------
(* What the pages change.  n is a value nobody has chosen yet.             *)
Rows(f, n) == {[f EXCEPT !.row = n]}
Colors(f, n) == {[f EXCEPT !.color = n, !.theme = Custom], [f EXCEPT !.theme = n]}
Sizes(f, n) == {[f EXCEPT !.scale = v] : v \in {n, TooLarge}}
Swapped(r, i) == [r EXCEPT ![i] = r[i + 1], ![i + 1] = r[i]]
Rules(f, n) ==
    {[f EXCEPT !.rules = r] : r \in {Append(f.rules, n)} \cup {RemoveAt(f.rules, i) : i \in DOMAIN f.rules}
                                    \cup {Swapped(f.rules, i) : i \in 1..Len(f.rules) - 1}}
Hooks(f) ==
    {[f EXCEPT !.hook = [event |-> e, blocks |-> FALSE]] : e \in {"settled", "tool_call"} \ {f.hook.event}}
    \cup (IF f.hook.event = "tool_call" THEN {[f EXCEPT !.hook.blocks = ~@]} ELSE {})
\* A credential is entered anew, or there is more to type behind what the field shows.
Credentials(f, n) ==
    {[f EXCEPT !.secret = n]}
    \cup (IF f.secret # Mask THEN {[f EXCEPT !.secret = n]}
          ELSE IF "pause" \in Races THEN {[f EXCEPT !.secret = Garbled]} ELSE {})
\* What new tasks start with; the shortcuts, which can be reset; how many agents run beside each other.
TaskRows(f, n) == {[f EXCEPT !.task = n]}
Shortcuts(f, n) == {[f EXCEPT !.shortcut = v] : v \in {n, Settings.shortcut}}
Limited(v) == IF v = 0 THEN 1 ELSE IF v > 4 THEN 4 ELSE v
Concurrency(f, n) == {[f EXCEPT !.agents = Limited(v)] : v \in {0, 2, n}}
Servers(f, n) == {[f EXCEPT !.id = n]} \cup Credentials(f, n)
Modes(f, n) == {[f EXCEPT !.mode = n], [f EXCEPT !.pet = n]}
Changed(f, n) ==
    Rows(f, n) \cup Colors(f, n) \cup Sizes(f, n) \cup Rules(f, n) \cup Hooks(f) \cup Servers(f, n) \cup Modes(f, n)
        \cup TaskRows(f, n) \cup Shortcuts(f, n) \cup Concurrency(f, n)

\* What the user means: of each setting the last choice; a credential is what was typed.
Means(old, new, n) ==
    [k \in DOMAIN sf.meant |-> IF new[k] = old[k] THEN sf.meant[k]
                               ELSE IF k = "secret" THEN n ELSE new[k]]

-----------------------------------------------------------------------------
(* The form                                                                *)
Open ==
    /\ ~sf.form.open /\ sf.form.inst < MaxOpens
    /\ "overlap" \in Races \/ sf.saves = <<>>
    /\ sf' = [sf EXCEPT !.form = [Closed EXCEPT !.open = TRUE, !.inst = sf.form.inst + 1, !.values = sf.store]]

\* update and scheduleSave.
Edit ==
    LET n == 10 * sf.form.inst + sf.edits + 2 IN
    /\ sf.form.open /\ ~sf.form.closes /\ ~sf.form.waiter /\ sf.edits < MaxEdits
    /\ "overlap" \in Races \/ (sf.runtime.pick = 0 /\ \A i \in DOMAIN sf.saves : sf.saves[i].inst = sf.form.inst)
    /\ \E v \in Changed(sf.form.values, n) :
         sf' = [sf EXCEPT !.form = [@ EXCEPT !.values = v, !.edited = TRUE, !.pending = TRUE, !.timer = TRUE, !.status = "pending"],
                          !.meant = Means(sf.form.values, v, n),
                          !.runtime.by = IF v.mode # sf.form.values.mode THEN "form" ELSE @,
                          !.edits = @ + 1]

Save(m, data, by, inst) == [m EXCEPT !.saves = Append(@, [data |-> data, by |-> by, inst |-> inst, at |-> "set"])]

\* flushSettings once nothing of the form's is in flight: what is pending goes out.
FlushNow(m) ==
    IF ~m.form.pending THEN m
    ELSE Save([m EXCEPT !.form = [@ EXCEPT !.pending = FALSE, !.failed = FALSE, !.status = "saving"]], m.form.values, "form", m.form.inst)

\* The page goes; what was refused goes with it, said to be unsaved.
CloseNow(m) ==
    [m EXCEPT !.form = [Closed EXCEPT !.inst = m.form.inst],
              !.meant = IF m.form.failed THEN m.file ELSE @,
              !.runtime.by = IF m.form.failed THEN "form" ELSE @]

TimerFires ==
    /\ sf.form.open /\ sf.form.timer
    /\ LET fired == [sf EXCEPT !.form.timer = FALSE] IN
       sf' = IF InFlight THEN fired ELSE FlushNow(fired)

\* A mistake the runs must catch: the page closes and what waits for the timer is dropped.
CloseAtOnce ==
    /\ sf.form.open /\ ~sf.form.closes /\ ~sf.form.waiter
    /\ sf' = CloseNow(sf)
\* closeSettings: a flush first, behind the one under way.
CloseSettings ==
    /\ sf.form.open /\ ~sf.form.closes /\ ~sf.form.waiter
    /\ LET stopped == [sf EXCEPT !.form.timer = FALSE] IN
       sf' = IF InFlight THEN [stopped EXCEPT !.form.waiter = TRUE]
             ELSE IF ~sf.form.pending THEN CloseNow(stopped)
             ELSE [FlushNow(stopped) EXCEPT !.form.closes = TRUE]

StatusTimer ==
    /\ sf.form.open /\ sf.form.statusTimer /\ ("old status" \in Races \/ sf.form.status = "saved")
    /\ sf' = [sf EXCEPT !.form.statusTimer = FALSE, !.form.status = "idle"]

-----------------------------------------------------------------------------
(* saveSettings                                                            *)
\* set_settings refuses a credential still masked that it does not know, and what is out of bounds.
Refused(data) ==
    \/ data.secret = Mask /\ data.id # sf.file.id
    \/ data.scale = TooLarge \/ data.agents \notin 1..4 \/ (data.hook.blocks /\ data.hook.event # "tool_call")
Resolved(data) == [data EXCEPT !.secret = IF @ = Mask THEN sf.file.secret ELSE @]

\* A mistake the runs must catch: an open form keeps the settings it was opened with.
NotSynced(m) == m
\* The form follows the store until it is edited.
Synced(m) == IF m.form.open /\ ~m.form.edited THEN [m EXCEPT !.form.values = m.store] ELSE m

\* A flush is over: what came in the meantime goes out next, and a flush that waited finds nothing left.
FlushOver(m) ==
    LET next == FlushNow(m) IN
    IF m.form.waiter \/ (m.form.closes /\ ~m.form.pending) THEN CloseNow(next) ELSE next

Ends(m, i) == [m EXCEPT !.saves = RemoveAt(@, i)]
FormSaved(m, inst) ==
    IF ~m.form.open \/ m.form.inst # inst THEN m
    ELSE FlushOver([m EXCEPT !.form = [@ EXCEPT
             !.edited = @ /\ m.form.pending, !.values = IF m.form.pending THEN @ ELSE Masked(@),
             !.status = "saved", !.statusTimer = TRUE, !.failed = FALSE]])
FormFails(m, inst) ==
    IF ~m.form.open \/ m.form.inst # inst THEN [m EXCEPT !.meant = m.file, !.runtime.by = "form"]
    ELSE FlushOver([m EXCEPT !.form = [@ EXCEPT !.status = "error", !.failed = TRUE]])

\* A refusal, or settings that cannot be written; the mode of the task goes back to the one of the settings.
Failed(i) ==
    LET save == sf.saves[i] gone == Ends(sf, i) IN
    CASE save.by = "form" -> FormFails(gone, save.inst)
      [] save.by = "mode" -> [gone EXCEPT !.meant.mode = sf.file.mode, !.runtime.mode = sf.store.mode]
      [] OTHER -> [gone EXCEPT !.meant = sf.file]
SetAnswered(i) ==
    LET save == sf.saves[i] IN
    /\ save.at = "set"
    /\ \/ sf' = Failed(i)
       \/ ~Refused(save.data) /\ sf' = [sf EXCEPT !.file = Resolved(save.data), !.saves[i].at = "get"]
GetAnswered(i) ==
    LET save == sf.saves[i] read == [Ends(sf, i) EXCEPT !.store = Masked(sf.file)] IN
    /\ save.at = "get"
    /\ sf' = IF save.by = "form" THEN Synced(FormSaved(read, save.inst)) ELSE Synced(read)

-----------------------------------------------------------------------------
(* Other writers, on the page's copy of the settings                       *)
Fresh == 50 + sf.others
Other == sf.others < MaxOthers /\ ("overlap" \in Races \/ Calm)
Writes(key, by) ==
    sf' = Save([sf EXCEPT !.meant[key] = Fresh, !.others = @ + 1], [sf.store EXCEPT ![key] = Fresh], by, 0)

\* rememberForNewTasks, after a model or a thinking level was picked; the pet; Ctrl+O.
RememberForNewTasks == Other /\ Writes("model", "model")
PetDisabled == Other /\ Writes("pet", "pet")
SetDensity == Other /\ ~sf.form.open /\ Writes("row", "density")

\* changeComposerPermission, changeComposerAgentMode: the task's mode first, then the settings as they
\* were before that.
PickMode ==
    /\ Other /\ ~sf.form.open /\ sf.runtime.pick = 0
    /\ sf' = [sf EXCEPT !.runtime = [@ EXCEPT !.pick = Fresh, !.seen = sf.store], !.others = @ + 1]
RuntimeAnswers ==
    LET pick == sf.runtime.pick IN
    /\ pick # 0
    /\ \/ sf' = Save([sf EXCEPT !.runtime = [@ EXCEPT !.mode = pick, !.pick = 0, !.by = "composer"], !.meant.mode = pick],
                     [sf.runtime.seen EXCEPT !.mode = pick], "mode", 0)
       \/ sf' = [sf EXCEPT !.runtime.pick = 0, !.runtime.mode = sf.runtime.seen.mode, !.runtime.by = "composer"]

Next ==
    \/ Open \/ Edit \/ TimerFires \/ CloseSettings \/ StatusTimer
    \/ \E i \in DOMAIN sf.saves : SetAnswered(i) \/ GetAnswered(i)
    \/ RememberForNewTasks \/ PetDisabled \/ SetDensity \/ PickMode \/ RuntimeAnswers

Spec == Init /\ [][Next]_sf
-----------------------------------------------------------------------------
\* Once nothing is under way, every setting is what the user chose last, wherever it was chosen, and a
\* credential is what was typed, however often other settings were saved since (update, flushSettings,
\* closeSettings, resolve_mcp_secret_placeholders).
ChoicesAreKept ==
    sf.saves = <<>> /\ sf.runtime.pick = 0 /\ ~sf.form.pending /\ ~sf.form.failed => sf.file = sf.meant

\* The page says saved when the file has what the form shows, and a save that failed is said to have
\* failed for as long as the form differs from the file (setSaveState).
StatusIsTrue ==
    sf.form.open =>
       /\ sf.form.status = "saved" /\ sf.saves = <<>> => Masked(sf.form.values) = Masked(sf.file)
       /\ sf.form.failed => sf.form.status \in {"error", "pending"}

\* The task runs in the mode the composer shows, when that was set there.
ModeIsUsed == Calm /\ sf.runtime.by = "composer" => sf.runtime.mode = sf.store.mode
=============================================================================
