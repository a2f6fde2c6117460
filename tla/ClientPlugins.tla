---------------------------- MODULE ClientPlugins ----------------------------
(***************************************************************************)
(* The page's side of plugins: what it mounts of them                      *)
(* (lib/clientPluginRuntime.ts), the settings panel that lists, installs,  *)
(* configures and removes them (PluginsSettingsPanel.tsx), and the banner  *)
(* that asks whether a workspace is trusted.  One plugin that may lie in   *)
(* the user's directory and in the workspace's, and a built-in one whose   *)
(* switch is a setting as well.                                            *)
(*                                                                         *)
(* cp.host     the plugins of the Host, as far as their clients go: the    *)
(*             version on the disk, the one its bundle cache has kept      *)
(*             (touched: the entry's file has changed since), the one it   *)
(*             lists (clientEtags, 0 for none); made: what is wrong with   *)
(*             each version.  The Host's half of a plugin is Plugins'; a   *)
(*             client that cannot be bundled is left out.                  *)
(* cp.calls    requests on their way; cp.wire  what the Host has sent back *)
(* cp.client   mounted, the fibers alive, bundleCache, the errors shown,   *)
(*             syncs chained, and how far the reconciliation is            *)
(* cp.panel    the panel: its editor, a question before a removal, the     *)
(*             install dialog, the mutation under way                      *)
(* cp.lists, cp.trust   queries: what was read last, and whether a read is *)
(*             under way                                                   *)
(* cp.meant    what the user has set                                       *)
(***************************************************************************)
EXTENDS Naturals, Sequences, FiniteSets, SequencesExt

CONSTANTS Faults,    \* what may be wrong with the client of a version
          MaxOps,
          Races      \* what this instance admits of "stale toggle", "closed", "restart", "moved", "failed off",
                     \* "left", "entry"

VARIABLE cp

Sources == {"user", "ws"}
Places == {"", "V", "W"}  \* no workspace, one without plugins of its own and one with them
NoFiber == [src |-> "none", version |-> 0, config |-> 0]
NoItem == [src |-> "none", status |-> "none", version |-> 0, config |-> 0, watch |-> FALSE]
NoData == {NoItem}
NoTask == [op |-> "none"]
Idle == [step |-> "idle", item |-> NoItem, version |-> 0]
Trust(given) == IF given THEN "trusted" ELSE "untrusted"
Query(data) == [data |-> data, reading |-> FALSE, failed |-> FALSE]

-----------------------------------------------------------------------------
(* The Host, as the page meets it                                          *)
Serving(h) ==
    IF h.active = "W" /\ h.trusted /\ h.src.ws.there THEN {"ws"} ELSE IF h.src.user.there THEN {"user"} ELSE {}
Item(h, s) ==
    [src |-> s, status |-> IF h.src[s].on THEN "active" ELSE "disabled", version |-> h.src[s].version,
     config |-> h.src[s].config, watch |-> h.src[s].watch]
\* What a workspace has and may not run is added to the list.
Listing(h, place) ==
    {Item(h, s) : s \in Serving(h)}
    \cup {[NoItem EXCEPT !.src = "ws", !.status = "untrusted"] : p \in {place} \cap (IF h.trusted THEN {} ELSE {"W"})}
Active(h, s) == s \in Serving(h) /\ h.src[s].on

\* What was bundled before is used again, unless it was thrown away or the file of the entry is another one.
Compiled(src) == IF src.kept = 0 \/ src.touched THEN src.disk ELSE src.kept
Kept(src) == [src EXCEPT !.kept = Compiled(src), !.touched = FALSE]
Invalid(src) == [src EXCEPT !.kept = 0, !.touched = FALSE]
\* syncNow: what serves is mounted, what is mounted already only where that is forced; the rest is unmounted.
Synced(h, before, forced) ==
    [h EXCEPT !.src = [s \in Sources |->
        IF ~Active(h, s) THEN [h.src[s] EXCEPT !.version = 0]
        ELSE IF forced \/ ~Active(before, s) THEN [Kept(h.src[s]) EXCEPT !.version = Compiled(h.src[s])]
        ELSE h.src[s]]]
\* plugin.list goes to the workspace it names; without one, the Host stays where it is.
Listed(h, place) == IF place \in {"", h.active} THEN h ELSE Synced([h EXCEPT !.active = place], h, FALSE)

Sent(m, msg) == [m EXCEPT !.wire = Append(@, msg)]
Changed(m) == Sent(m, [kind |-> "changed"])
TrustChanged(m) == Sent(m, [kind |-> "trust"])
Answered(m, call, ok, data) == Sent(m, [kind |-> "answer", call |-> call, ok |-> ok, data |-> data])

\* What a mutation does; it names a workspace where the plugin is the workspace's.
Patched(h, call) ==
    LET at == IF call.src = "ws" THEN [h EXCEPT !.active = "W"] ELSE h
        removed == [Invalid(h.src.user) EXCEPT !.there = FALSE, !.on = TRUE, !.config = 0, !.watch = FALSE]
        named == IF call.place = "" THEN h.active ELSE call.place IN
    CASE call.op = "toggle" -> Synced([at EXCEPT !.src[call.src].on = call.to], h, TRUE)
      [] call.op = "configure" -> Synced([at EXCEPT !.src[call.src].config = call.config], h, TRUE)
      [] call.op = "watch" ->
           Synced([at EXCEPT !.src[call.src].config = call.config, !.src[call.src].watch = call.watch], h, TRUE)
      [] call.op = "reload" ->
           Synced([h EXCEPT !.active = named,
                            !.src = [s \in Sources |-> IF call.all \/ s \in Serving(h) THEN Invalid(h.src[s]) ELSE h.src[s]]],
                  h, TRUE)
      [] call.op = "remove" -> Synced([h EXCEPT !.src.user = removed], h, TRUE)
      [] call.op = "builtin" -> [h EXCEPT !.builtin = call.to]
NewVersion(h, s, fault, entry) ==
    [h EXCEPT !.made = Append(@, fault), !.src[s].disk = Len(h.made) + 1, !.src[s].touched = entry]
\* plugin.install and plugin.update fetch another version, which is on unless an update leaves the switch alone.
Fetched(h, call) ==
    {Synced([NewVersion(h, "user", f, TRUE) EXCEPT !.src.user.there = TRUE, !.src.user.on = on, !.src.user.kept = 0,
                                                   !.src.user.watch = @ /\ call.op = "update"], h, TRUE) :
        f \in Faults, on \in {TRUE} \cup (IF call.op = "update" THEN {h.src.user.on} ELSE {})}

\* Who listens is told of what was mounted or unmounted, and of every switch and configuration.
Tells(h, before, call) ==
    \/ call.op \in {"toggle", "configure", "watch", "builtin"} \/ (call.op = "reload" /\ call.all)
    \/ \E s \in Sources : Active(h, s) \/ Active(before, s)

\* What is turned off while its client is fetched, or after that failed, leaves an error behind; and where an
\* entry was saved that nobody watches, a page that asks for the client gets another one than the Host lists.
MayGo(call) ==
    /\ \/ "failed off" \in Races \/ call.op \notin {"toggle", "remove", "set trust"}
       \/ ~cp.client.error /\ cp.client.now = Idle /\ cp.client.syncs = 0 /\ [kind |-> "changed"] \notin ToSet(cp.wire)
    /\ call.op = "bundle" => "entry" \in Races \/ ~cp.host.src[call.src].touched

Refused(m, call) == call.op \in {"toggle", "configure", "watch"} /\ call.src = "ws" /\ ~m.host.trusted
Mutated(m, call, h) ==
    LET done == [m EXCEPT !.host = h] IN
    Answered(IF Tells(h, m.host, call) THEN Changed(done) ELSE done, call, TRUE, Listing(h, h.active))
Serve(call) ==
    LET m == [cp EXCEPT !.calls = @ \ {call}] h == m.host IN
    /\ call \in cp.calls /\ MayGo(call)
    /\ \/ call.op = "list" /\ LET at == Listed(h, call.place)
                              IN cp' = Answered([m EXCEPT !.host = at], call, TRUE,
                                                Listing(at, IF call.place = "" THEN at.active ELSE call.place))
       \/ /\ call.op = "bundle"
          /\ IF Active(h, call.src)
             THEN cp' = Answered([m EXCEPT !.host.src[call.src] = Kept(@)], call, TRUE, Compiled(h.src[call.src]))
             ELSE cp' = Answered(m, call, FALSE, 0)
       \/ call.op = "trust list" /\ cp' = Answered(m, call, TRUE, h.trusted)
       \/ /\ call.op = "set trust"
          /\ LET given == Synced([h EXCEPT !.trusted = call.to, !.active = "W"], h, TRUE)
             IN cp' = Answered(Changed(TrustChanged([m EXCEPT !.host = given])), call, TRUE, call.to)
       \/ /\ call.op \in {"toggle", "configure", "watch", "reload", "remove", "builtin"}
          /\ cp' = IF Refused(m, call) THEN Answered(m, call, FALSE, NoData) ELSE Mutated(m, call, Patched(h, call))
       \/ /\ call.op \in {"install", "update"}
          /\ \/ cp' = Answered(m, call, FALSE, NoData)
             \/ /\ call.op = "update" => h.src.user.there
                /\ \E next \in Fetched(h, call) : cp' = Mutated(m, call, next)

\* A file of the plugin is saved, its entry or one that that imports; it is loaded where it is watched.
SourceSaved(s) ==
    /\ cp.host.src[s].there /\ cp.ops < MaxOps
    /\ \E f \in Faults, entry \in BOOLEAN :
          LET h == NewVersion(cp.host, s, f, entry \/ cp.host.src[s].touched)
              m == [cp EXCEPT !.ops = @ + 1]
              seen == Synced([h EXCEPT !.src[s] = Invalid(@)], h, TRUE)
          IN cp' = IF cp.host.up /\ Active(h, s) /\ h.src[s].watch THEN Changed([m EXCEPT !.host = seen])
                   ELSE [m EXCEPT !.host = h]
\* The requests under way fail, and nothing that was sent arrives.
Crash ==
    /\ cp.host.up /\ cp.ops < MaxOps
    /\ "restart" \in Races \/ (~cp.panel.open /\ cp.panel.task = NoTask /\ ~cp.trust.reading /\ cp.at = "")
    /\ cp' = [cp EXCEPT !.host.up = FALSE, !.host.active = "", !.calls = {}, !.wire = <<>>, !.ops = @ + 1,
                        !.meant = [s \in Sources |-> cp.host.src[s].config],
                        !.client.error = @ \/ cp.client.now.step = "bundle",
                        !.client.now = IF @.step \in {"list", "bundle"} THEN Idle ELSE @,
                        !.lists = [p \in Places |-> [cp.lists[p] EXCEPT !.reading = FALSE, !.failed = @ \/ cp.lists[p].reading]],
                        !.trust.reading = FALSE, !.panel.task = NoTask]
\* onHostReconnect.
Starts ==
    /\ ~cp.host.up
    /\ LET h == [cp.host EXCEPT !.up = TRUE, !.src = [s \in Sources |-> Invalid(@[s])]]
       IN cp' = [cp EXCEPT !.host = Synced(h, h, TRUE), !.client.syncs = @ + 1]

-----------------------------------------------------------------------------
(* What the page mounts                                                    *)
Calls(m, call) == [m EXCEPT !.calls = @ \cup {call}]
Step(m, step) == [m EXCEPT !.client.now.step = step]
Done(m) == [m EXCEPT !.client.now = Idle]
Errs(m) == Done([m EXCEPT !.client.error = TRUE])
Dead(m, s) == [m EXCEPT !.client.fibers = SelectSeq(@, LAMBDA f : f.src # s)]
Alive(m, f) == [m EXCEPT !.client.fibers = Append(@, f), !.client.mounted[f.src] = f,
                         !.client.late = m.host.made[f.version] = "late"]

\* reconcileOnce, one call of sync at a time.
Reconcile ==
    /\ cp.client.now = Idle /\ cp.client.syncs > 0
    /\ LET next == [cp EXCEPT !.client.syncs = @ - 1]
       IN cp' = IF cp.host.up THEN Calls(Step(next, "list"), [op |-> "list", by |-> "client", place |-> cp.at]) ELSE next

\* The next version is here: what is mounted of its source is undone first.
Swap(m, version) ==
    LET s == m.client.now.item.src IN
    IF m.client.mounted[s] # NoFiber THEN [Step(m, "swap") EXCEPT !.client.now.version = version]
    ELSE [Step(m, "mount") EXCEPT !.client.now.version = version]
\* What runs in the right version is left alone.
Load(m) ==
    LET item == m.client.now.item
        current == m.client.mounted[item.src] IN
    IF item = NoItem \/ (current.version = item.version /\ current.config = item.config /\ ~m.client.error) THEN Done(m)
    ELSE IF m.client.cache[item.src] = item.version THEN Swap(m, item.version)
    ELSE IF m.host.up THEN Calls(Step(m, "bundle"), [op |-> "bundle", by |-> "client", src |-> item.src])
    ELSE Errs(m)

\* The script throws, or defines nothing that can be applied.
Throws(m, version) == m.host.made[version] = "script"
\* clearMissingClientPluginErrors
Cleared(m, data) == [m EXCEPT !.client.error = @ /\ data # {}]

ListArrives(m, data) ==
    LET wanted == {i \in data : i.status = "active"}
        item == IF wanted = {} THEN NoItem ELSE CHOOSE i \in wanted : TRUE
        gone == {s \in Sources : m.client.mounted[s] # NoFiber /\ s # item.src}
        next == [Cleared(m, data) EXCEPT !.client.now.item = item,
                          !.client.cache = [s \in Sources |-> IF \E i \in data : i.src = s THEN @[s] ELSE 0],
                          !.client.error = @ /\ ~(gone # {} /\ wanted = {}),
                          !.client.mounted = [s \in Sources |-> IF s \in gone THEN NoFiber ELSE @[s]]]
    IN IF gone # {} THEN Step(next, "drop") ELSE Load(next)
BundleArrives(m, ok, version) ==
    IF ~ok \/ Throws(m, version) THEN Errs(m)
    ELSE Swap([m EXCEPT !.client.cache[m.client.now.item.src] = version], version)

\* A fiber that was disposed of has ended.
Dropped ==
    /\ cp.client.now.step = "drop"
    /\ cp' = Load([cp EXCEPT !.client.fibers = SelectSeq(@, LAMBDA f : cp.client.mounted[f.src] # NoFiber)])
\* A mistake the runs must catch: the next one is mounted beside the last.
SwapBeside == cp.client.now.step = "swap" /\ cp' = Step(cp, "mount")
Disposed == cp.client.now.step = "swap" /\ cp' = Step(Dead(cp, cp.client.now.item.src), "mount")

\* The plugin is applied; if that throws, the one before comes back where it can.
Mount ==
    LET now == cp.client.now s == now.item.src current == cp.client.mounted[s]
        failed == Errs(cp) IN
    /\ now.step = "mount"
    /\ IF cp.host.made[now.version] # "apply"
       THEN cp' = Done(Alive([cp EXCEPT !.client.error = FALSE], [src |-> s, version |-> now.version, config |-> now.item.config]))
       ELSE \/ current # NoFiber /\ cp' = Alive(failed, current)
            \/ cp' = [failed EXCEPT !.client.mounted[s] = NoFiber]
\* A fiber that waited for a service fails once it has it.
LateFails ==
    /\ cp.client.late /\ cp.client.fibers # <<>> /\ cp.client.now = Idle
    /\ cp' = [cp EXCEPT !.client.late = FALSE, !.client.error = TRUE]

-----------------------------------------------------------------------------
(* Queries                                                                 *)
ListOf(place) == [op |-> "list", by |-> "panel", place |-> place]
\* A read replaces the one under way, whose answer is not used.
ReadList(m) ==
    LET read == ListOf(m.at)
        used(msg) == msg.kind = "answer" => msg.call # read IN
    IF ~m.panel.open THEN m
    ELSE IF ~m.host.up THEN [m EXCEPT !.lists[m.at].failed = TRUE]
    ELSE [Calls(m, read) EXCEPT !.wire = SelectSeq(@, used), !.lists[m.at].reading = TRUE]
ReadTrust(m) ==
    IF m.at # "W" \/ ~m.host.up THEN m ELSE Calls([m EXCEPT !.trust.reading = TRUE], [op |-> "trust list"])

Init ==
    \E trusted \in BOOLEAN, place \in Places :
    cp = ReadTrust(
         [host |-> [up |-> TRUE, active |-> "", trusted |-> trusted, builtin |-> TRUE, made |-> <<"none", "none">>,
                    src |-> [user |-> [there |-> TRUE, on |-> TRUE, disk |-> 1, kept |-> 1, touched |-> FALSE,
                                       version |-> 1, config |-> 0, watch |-> FALSE],
                             ws |-> [there |-> TRUE, on |-> TRUE, disk |-> 2, kept |-> 0, touched |-> FALSE,
                                     version |-> 0, config |-> 0, watch |-> TRUE]]],
          calls |-> {}, wire |-> <<>>, at |-> place,
          client |-> [mounted |-> [s \in Sources |-> NoFiber], fibers |-> <<>>, cache |-> [s \in Sources |-> 0],
                      error |-> FALSE, late |-> FALSE, syncs |-> 1, now |-> Idle],
          panel |-> [open |-> FALSE, task |-> NoTask, editing |-> FALSE, draft |-> 0, confirm |-> FALSE, install |-> FALSE],
          lists |-> [p \in Places |-> Query(NoData)], trust |-> [data |-> "unknown", reading |-> FALSE], setting |-> TRUE,
          meant |-> [s \in Sources |-> 0], ops |-> 0])

\* applyMutationResult
ApplyResult(m, data) == IF m.at = "" THEN [m EXCEPT !.lists[""].data = data] ELSE ReadList(m)
\* A switch of a built-in plugin is a setting too, which the form behind the panel writes.
SettingSynced(m, call) ==
    IF call.op = "builtin" /\ m.panel.open THEN [m EXCEPT !.setting = call.to] ELSE m

\* What failed says so, and is not meant any more.
GivenUp(m) == [m EXCEPT !.meant = [s \in Sources |-> m.host.src[s].config]]

MutationEnds(m, call, ok, data) ==
    LET over == [m EXCEPT !.panel.task = NoTask] IN
    IF ~ok THEN GivenUp(over)
    ELSE IF call.op = "set trust" THEN ReadList([over EXCEPT !.trust.data = Trust(data)])
    ELSE ApplyResult(SettingSynced([over EXCEPT !.panel.install = @ /\ call.op # "install"], call), data)

AnswerArrives(m, msg) ==
    LET call == msg.call IN
    CASE call.op = "list" /\ call.by = "client" -> ListArrives(m, msg.data)
      [] call.op = "list" /\ call.by = "panel" -> [m EXCEPT !.lists[call.place] = Query(msg.data)]
      [] call.op = "bundle" -> BundleArrives(m, msg.ok, msg.data)
      [] call.op = "trust list" -> [m EXCEPT !.trust = [data |-> Trust(msg.data), reading |-> FALSE]]
      [] OTHER -> MutationEnds(m, call, msg.ok, msg.data)
Arrive ==
    /\ cp.wire # <<>>
    /\ LET msg == Head(cp.wire) rest == [cp EXCEPT !.wire = Tail(@)] IN
       cp' = IF msg.kind = "answer" THEN AnswerArrives(rest, msg)
             ELSE [ReadTrust(ReadList(rest)) EXCEPT !.client.syncs = @ + 1]

-----------------------------------------------------------------------------
(* The user                                                                *)
Op(m) == [m EXCEPT !.ops = @ + 1]
Can == cp.ops < MaxOps
Shown == cp.lists[cp.at].data \ NoData
Busy == cp.panel.task # NoTask
Mutate(m, call) ==
    cp' = IF m.host.up THEN Calls([m EXCEPT !.panel.task = call], call) ELSE m

\* setWorkspace, and the queries of the place.  The Host is not told that a workspace was left for none.
Move ==
    /\ Can /\ (cp.host.up \/ "restart" \in Races)
    /\ "moved" \in Races \/ (~cp.panel.open /\ ~Busy /\ \A c \in cp.calls : c.op = "list" => c.by = "client")
    /\ \E p \in Places \ {cp.at} : (p # "" \/ "left" \in Races) /\ cp' = Op(ReadTrust(ReadList([cp EXCEPT !.at = p, !.client.syncs = @ + 1])))
\* While the Host is asked about two places it may end at either.
OpenPanel ==
    /\ Can /\ ~cp.panel.open
    /\ "moved" \in Races \/ \A c \in cp.calls : c.op = "list" => c.place = cp.at
    /\ cp' = Op(ReadList([cp EXCEPT !.panel.open = TRUE]))
ClosePanel ==
    /\ cp.panel.open /\ ("closed" \in Races \/ ~Busy)
    /\ cp' = [cp EXCEPT !.panel = [@ EXCEPT !.open = FALSE, !.editing = FALSE, !.confirm = FALSE, !.install = FALSE]]

Pressed == Can /\ cp.panel.open /\ ~Busy
Toggle(i) ==
    /\ Pressed /\ i.status \in {"active", "disabled"}
    /\ Mutate(Op(cp), [op |-> "toggle", src |-> i.src, to |-> i.status = "disabled"])
ToggleBuiltin(to) == Pressed /\ Mutate(Op(cp), [op |-> "builtin", src |-> "user", to |-> to])
EditConfig(i) == Pressed /\ ~cp.panel.editing /\ cp' = Op([cp EXCEPT !.panel.editing = TRUE, !.panel.draft = i.config + 1])
SaveConfig(i) ==
    /\ cp.panel.open /\ ~Busy /\ cp.panel.editing
    /\ Mutate([cp EXCEPT !.panel.editing = FALSE, !.meant[i.src] = IF cp.host.up THEN cp.panel.draft ELSE @],
              [op |-> "configure", src |-> i.src, config |-> cp.panel.draft])
\* The switch sends the configuration it was shown with.
ToggleWatch(i) ==
    /\ Pressed /\ ("stale toggle" \in Races \/ ~cp.lists[cp.at].reading)
    /\ Mutate(Op(cp), [op |-> "watch", src |-> i.src, config |-> i.config, watch |-> ~i.watch])
Reload(all) == Pressed /\ Mutate(Op(cp), [op |-> "reload", src |-> "user", place |-> cp.at, all |-> all])
Update == Pressed /\ (\E i \in Shown : i.src = "user") /\ Mutate(Op(cp), [op |-> "update", src |-> "user"])
RemovePlugin(i) ==
    /\ Pressed /\ i.src = "user"
    /\ IF cp.panel.confirm THEN Mutate([cp EXCEPT !.panel.confirm = FALSE, !.meant.user = IF cp.host.up THEN 0 ELSE @],
                                            [op |-> "remove", src |-> "user"])
       ELSE cp' = Op([cp EXCEPT !.panel.confirm = TRUE])
OpenInstall == Pressed /\ ~cp.panel.install /\ cp' = Op([cp EXCEPT !.panel.install = TRUE])
Install == cp.panel.open /\ cp.panel.install /\ ~Busy /\ Mutate(cp, [op |-> "install", src |-> "user"])
SetTrust(to) ==
    /\ Pressed /\ cp.at = "W" /\ cp.trust.data = Trust(~to)
    /\ Mutate(Op(cp), [op |-> "set trust", to |-> to])
TrustBanner ==
    /\ Can /\ ~Busy /\ cp.at = "W" /\ cp.trust.data = "untrusted"
    /\ Mutate(Op(cp), [op |-> "set trust", to |-> TRUE])
Cancel ==
    /\ ~Busy /\ (cp.panel.editing \/ cp.panel.confirm \/ cp.panel.install)
    /\ cp' = [cp EXCEPT !.panel.editing = FALSE, !.panel.confirm = FALSE, !.panel.install = FALSE]
Retry == cp.panel.open /\ cp.lists[cp.at].failed /\ cp.host.up /\ cp' = ReadList([cp EXCEPT !.lists[cp.at].failed = FALSE])

Next ==
    \/ \E call \in cp.calls : Serve(call)
    \/ \E s \in Sources : SourceSaved(s)
    \/ Crash \/ Starts \/ Reconcile \/ Dropped \/ Disposed \/ Mount \/ LateFails \/ Arrive
    \/ Move \/ OpenPanel \/ ClosePanel \/ Update \/ OpenInstall \/ Install \/ Cancel \/ TrustBanner
    \/ Retry
    \/ \E i \in Shown : Toggle(i) \/ EditConfig(i) \/ SaveConfig(i) \/ ToggleWatch(i) \/ RemovePlugin(i)
    \/ \E to \in BOOLEAN : SetTrust(to) \/ ToggleBuiltin(to) \/ Reload(to)

Spec == Init /\ [][Next]_cp
-----------------------------------------------------------------------------
Quiet ==
    /\ cp.host.up /\ cp.calls = {} /\ cp.wire = <<>> /\ cp.client.now = Idle /\ cp.client.syncs = 0 /\ ~cp.client.late
Wanted == {s \in Serving(cp.host) : cp.host.src[s].on}

\* Of a plugin one client runs at a time, whatever replaces what (reconcileOnce).
OneAtATime == Len(cp.client.fibers) =< 1

\* Once everything has settled, what runs in the page is what the Host has for its workspace, in the
\* version and with the configuration it has there, or an error says that it could not be loaded.
PageFollowsHost ==
    Quiet =>
       /\ cp.host.active = cp.at
       /\ \/ cp.client.error /\ \A i \in DOMAIN cp.client.fibers : cp.client.fibers[i].src \in Wanted
          \/ cp.client.fibers = [i \in 1..Cardinality(Wanted) |->
                LET s == CHOOSE s \in Wanted : TRUE
                IN [src |-> s, version |-> cp.host.src[s].version, config |-> cp.host.src[s].config]]
       /\ cp.client.error => Wanted # {} /\ \A s \in Wanted : cp.host.made[cp.host.src[s].version] # "none"

\* The panel and the banner show the plugins and the trust there are, unless they say that they could not be read.
PanelIsTrue ==
    Quiet =>
       /\ cp.panel.open => cp.lists[cp.at].failed \/ cp.lists[cp.at].data = Listing(cp.host, cp.at)
       /\ cp.at = "W" => cp.trust.data = Trust(cp.host.trusted)

\* A plugin's configuration is the one saved last, and a built-in plugin is on where its setting says so.
ChoicesStand ==
    /\ Quiet => cp.setting = cp.host.builtin
    /\ ~Busy => \A s \in Sources : cp.host.src[s].config = cp.meant[s]
=============================================================================
