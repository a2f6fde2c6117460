------------------------------- MODULE Plugins -------------------------------
(***************************************************************************)
(* One external plugin of the Host's PluginManager: its copies on disk,    *)
(* plugins.json and the trust of the workspace, the queue of operations,   *)
(* the steps of a synchronisation, the file watcher with its timer, and    *)
(* the cache of client bundles beside the requests that fill it.           *)
(* packages/host/src/plugin-manager.ts, plugin-store.ts,                   *)
(* plugin-installer.ts, plugin-manifest.ts, client-bundles.ts.             *)
(*                                                                         *)
(* pm.made      the versions of the plugin's code and what is wrong with   *)
(*              each: its client does not compile, its import or its       *)
(*              apply() fails, or "none"; "client only" has no Host half   *)
(* pm.disk      the version in each directory, 0 when it has none; "backup"*)
(*              is what an install renames the old copy to                 *)
(* pm.missed    directories with an edit that no timer has told of: it was *)
(*              not watched then, or its watcher was closed before the     *)
(*              timer fired                                                *)
(* pm.store     plugins.json, and the trust of the workspace               *)
(* pm.mounted   the entry of `mounted`, None when there is none            *)
(* pm.op        the operation that has the queue, and how far it is        *)
(* Client bundles are cached by directory; an edit is taken to leave the   *)
(* entry file's time and size alone.  External: the plugin, the file       *)
(* system's watch.                                                         *)
(***************************************************************************)
EXTENDS Naturals, Sequences, FiniteSets, SequencesExt, Relation

CONSTANTS Faults,       \* what may be wrong with a new version; "none" is one of them
          MaxVersions,
          MaxOps,       \* requests, fetches and crashes of a behaviour
          N,            \* plugins of one sort, and the services they name
          Services,
          Races         \* what this instance admits of "backup", "clear" and "behind a cycle"

VARIABLES pm,
          po            \* the state of one sort

Dirs == {"managed", "linked", "backup", "project"}
None == [dir |-> "none", version |-> 0, config |-> 0, host |-> FALSE]
Idle == [step |-> "idle"]
NoFetch == [dir |-> "none", rev |-> 0, version |-> 0]
NoPatch == [enabled |-> TRUE, config |-> 0, watch |-> FALSE, origin |-> FALSE, linked |-> FALSE]
List(project) == [kind |-> "list", arg |-> project]

\* The Host starts: every map is empty and the first list() synchronises.
Started(m) ==
    [m EXCEPT !.mounted = None, !.error = FALSE, !.etag = 0, !.op = Idle, !.waiting = <<List("none")>>,
              !.active = FALSE, !.watcher = "none", !.timer = FALSE, !.shown = "none", !.closed = FALSE,
              !.rev = [d \in Dirs |-> 0], !.cache = [d \in Dirs |-> [version |-> 0, rev |-> 0]],
              !.fetch = NoFetch, !.missed = {}]
Init ==
    \E project \in {0, 1}, managed \in {0, 1}, watch \in BOOLEAN :
    pm = Started(
        [made |-> <<"none">>, disk |-> [managed |-> managed, linked |-> 1, backup |-> 0, project |-> project],
         store |-> [user |-> [NoPatch EXCEPT !.watch = watch, !.origin = managed = 1],
                    project |-> [NoPatch EXCEPT !.watch = TRUE]],
         trusted |-> FALSE, active |-> FALSE, mounted |-> None, error |-> FALSE, etag |-> 0, op |-> Idle,
         waiting |-> <<>>, watcher |-> "none", timer |-> FALSE, shown |-> "none", closed |-> FALSE,
         rev |-> <<>>, cache |-> <<>>, fetch |-> NoFetch, missed |-> {}, ops |-> 0])

Tier(dir) == CASE dir = "project" -> "project" [] dir = "none" -> "none" [] OTHER -> "user"
Fault(m, version) == m.made[version]
HasHost(m, dir) == dir # "none" /\ m.disk[dir] # 0 /\ Fault(m, m.disk[dir]) # "client only"

\* scanPluginsDirectory and the linked directories: of two with the same id the later one counts,
\* and a backup directory is not hidden from the scan.
UserDir(m) ==
    IF m.store.user.linked THEN "linked" ELSE IF m.disk.backup # 0 THEN "backup"
    ELSE IF m.disk.managed # 0 THEN "managed" ELSE "none"
\* The merge of the tiers: the plugins of the one active and trusted workspace come first.
Candidate(m) ==
    IF m.active /\ m.trusted /\ m.disk.project # 0 THEN "project" ELSE UserDir(m)
Patch(m, dir) == m.store[Tier(dir)]
Wanted(m) == Candidate(m) # "none" /\ Patch(m, Candidate(m)).enabled
\* A linked directory and a workspace are watched unless told otherwise.
Watched(m) == IF Wanted(m) /\ Patch(m, Candidate(m)).watch THEN Candidate(m) ELSE "none"

-----------------------------------------------------------------------------
(* ClientBundleRegistry                                                    *)
InvalidateDir(m, dir) ==
    IF dir = "none" THEN m ELSE [m EXCEPT !.rev[dir] = @ + 1, !.missed = @ \ {dir}]
Clear(m) ==
    [m EXCEPT !.rev = [d \in Dirs |-> 0], !.cache = [d \in Dirs |-> [version |-> 0, rev |-> 0]],
              !.missed = {}]
Cached(m, dir) == m.cache[dir].version # 0 /\ m.cache[dir].rev = m.rev[dir]
\* The version compile() answers with: what it reads now, or the cached one.
Compiles(m, dir) == IF Cached(m, dir) THEN m.cache[dir].version ELSE m.disk[dir]

-----------------------------------------------------------------------------
(* What an operation does before it synchronises                           *)
NewVersion(m, dir, fault) ==
    [m EXCEPT !.made = Append(@, fault), !.disk[dir] = Len(m.made) + 1,
              !.timer = @ \/ (m.watcher = dir /\ ~m.closed),
              !.missed = IF m.watcher = dir THEN @ ELSE @ \cup {dir}]

SetActive(m, tier) == IF tier = "project" THEN [m EXCEPT !.active = TRUE] ELSE m

\* The copy goes to the managed directory (atomicReplaceDir) or the source is linked in place.
Installed(m, dir, fault) ==
    LET placed == IF dir = "managed" THEN NewVersion(m, dir, fault) ELSE m IN
    [InvalidateDir(placed, dir) EXCEPT
        !.store.user = [@ EXCEPT !.enabled = TRUE, !.watch = dir = "linked", !.origin = TRUE, !.linked = dir = "linked"],
        !.error = FALSE]
\* updateInstalledPlugin: fetched again from where it came from; a linked one is taken as it is.
Updated(m, fault) ==
    IF m.store.user.linked THEN [InvalidateDir(m, "linked") EXCEPT !.error = FALSE]
    ELSE [InvalidateDir(NewVersion(m, "managed", fault), "managed") EXCEPT !.error = FALSE]
\* removeUserPluginFiles: a linked directory is the user's and stays.
Removed(m) ==
    LET current == m.shown IN
    [InvalidateDir(m, current) EXCEPT
        !.store.user = NoPatch, !.error = FALSE, !.etag = 0,
        !.disk = IF m.store.user.linked THEN @
                 ELSE [@ EXCEPT !.managed = 0, !.backup = IF current = "backup" THEN 0 ELSE @]]

Prepare(m, op, fault) ==
    CASE op.kind = "list" -> [m EXCEPT !.active = op.arg = "project"]
      [] op.kind = "enable" -> SetActive([m EXCEPT !.store[op.arg].enabled = TRUE], op.arg)
      [] op.kind = "disable" -> SetActive([m EXCEPT !.store[op.arg].enabled = FALSE, !.error = FALSE], op.arg)
      [] op.kind = "configure" -> SetActive([m EXCEPT !.store[op.arg].config = 1 - @], op.arg)
      [] op.kind = "reload" -> InvalidateDir(m, m.shown)
      [] op.kind = "reload all" -> Clear(m)
      [] op.kind = "install" -> Installed(m, op.arg, fault)
      [] op.kind = "update" -> Updated(m, fault)
      [] op.kind = "remove" -> Removed(m)
      [] op.kind = "trust" -> [m EXCEPT !.trusted = op.arg = "yes", !.active = TRUE]
      [] OTHER -> m

Refused(m, op) ==
    \/ op.kind \in {"enable", "disable", "configure"} /\ op.arg = "project" /\ ~m.trusted
    \/ op.kind = "update" /\ ~m.store.user.origin

NeedsVersion(m, op) ==
    \/ op.kind = "install" /\ op.arg = "managed"
    \/ op.kind = "update" /\ ~m.store.user.linked

-----------------------------------------------------------------------------
(* syncNow                                                                 *)
\* A mistake the runs must catch: an enabled plugin is left where it is.
StillWantedAny(m) == Wanted(m)
StillWanted(m) == Wanted(m) /\ Tier(Candidate(m)) = Tier(m.mounted.dir)
Unmount(m) == IF StillWanted(m) THEN m ELSE [m EXCEPT !.mounted = None, !.etag = 0]

\* Whether the candidate is loaded again: forced, from elsewhere, configured differently or not
\* mounted at all.
Reloads(m, force) ==
    /\ Wanted(m)
    /\ \/ force \/ m.mounted.dir # Candidate(m) \/ m.mounted.config # Patch(m, Candidate(m)).config
       \/ m.mounted.host # HasHost(m, Candidate(m))

Force(m, op) == CASE op.kind = "list" -> FALSE
                  [] op.kind = "reload all" -> m.shown # "none"
                  [] op.kind = "trust" -> m.disk.project # 0
                  [] OTHER -> TRUE

Synchronise(m, force) ==
    LET n == Unmount(m) IN
    [n EXCEPT !.op =
        [step |-> IF Reloads(n, force) THEN "compile" ELSE "finish", force |-> force, dir |-> Candidate(n),
         config |-> IF Wanted(n) THEN Patch(n, Candidate(n)).config ELSE 0, client |-> 0, version |-> 0,
         host |-> HasHost(n, Candidate(n)), previous |-> None, ran |-> n.mounted.host, stuck |-> FALSE]]

\* The next operation of the queue.  list() synchronises when the workspace changes or nothing
\* is known yet.  A bundle under way while "reload all" clears the cache, only as a "clear".
Start ==
    /\ pm.op = Idle /\ pm.waiting # <<>>
    /\ LET op == Head(pm.waiting)
           m  == [pm EXCEPT !.waiting = Tail(@)] IN
       /\ (op.kind = "reload all" /\ m.fetch # NoFetch) => "clear" \in Races
       /\ \E fault \in Faults :
           /\ NeedsVersion(m, op) /\ ~Refused(m, op) => Len(m.made) < MaxVersions
           /\ ~NeedsVersion(m, op) => fault = "none"
           /\ pm' = IF op.kind = "dispose"
                    THEN [Clear(m) EXCEPT !.mounted = None, !.watcher = "none", !.timer = FALSE, !.shown = "none"]
                    ELSE IF Refused(m, op) THEN m
                    ELSE LET prepared == Prepare(m, op, fault) IN
                         IF m.closed THEN prepared ELSE Synchronise(prepared, Force(m, op))

Op(m) == m.op
Gone(m) == m.disk[m.op.dir] = 0
\* The client does not compile: a forced reload keeps what runs, any other ends it.
CompileClient ==
    /\ Op(pm).step = "compile"
    /\ LET v == Compiles(pm, Op(pm).dir) IN
       pm' = IF Gone(pm) \/ Fault(pm, v) = "client"
             THEN [pm EXCEPT !.error = TRUE, !.op.step = "finish",
                             !.mounted = IF Op(pm).force THEN @ ELSE None]
             ELSE [pm EXCEPT !.op.step = "import", !.op.client = v,
                             !.cache[Op(pm).dir] = [version |-> v, rev |-> pm.rev[Op(pm).dir]]]

\* A mistake the runs must catch: an import that fails ends what runs.
ImportFails(m) == [m EXCEPT !.error = TRUE, !.op.step = "finish", !.mounted = None]
\* The new module cannot be imported: a Host half that runs is kept; a client alone is not.
ImportFailed(m) ==
    [m EXCEPT !.error = TRUE, !.op.step = "finish", !.mounted = IF @.host THEN @ ELSE None]
Import ==
    /\ Op(pm).step = "import"
    /\ pm' = IF ~Op(pm).host THEN [pm EXCEPT !.op.version = Op(pm).client, !.op.step = "dispose"]
             ELSE IF ~HasHost(pm, Op(pm).dir) \/ Fault(pm, pm.disk[Op(pm).dir]) = "import" THEN ImportFailed(pm)
             ELSE [pm EXCEPT !.op.version = pm.disk[Op(pm).dir], !.op.step = "dispose"]

DisposePrevious ==
    /\ Op(pm).step = "dispose"
    /\ pm' = [pm EXCEPT !.op.step = "apply", !.op.previous = pm.mounted, !.mounted = None]

Applied(m) ==
    [m EXCEPT !.mounted = [dir |-> m.op.dir, version |-> m.op.version, config |-> m.op.config, host |-> m.op.host],
              !.etag = m.op.client, !.error = FALSE, !.op.step = "finish"]
\* What ran is applied again: if it had a Host half, and that applies once more.
RolledBack(m, again) ==
    [m EXCEPT !.mounted = IF again /\ m.op.previous.host THEN m.op.previous ELSE None,
              !.op.stuck = ~again, !.error = TRUE, !.op.step = "finish"]
Apply ==
    /\ Op(pm).step = "apply"
    /\ IF Op(pm).host /\ Fault(pm, Op(pm).version) = "apply"
       THEN \E again \in BOOLEAN : pm' = RolledBack(pm, again)
       ELSE pm' = Applied(pm)

\* A mistake the runs must catch: a directory that is watched already loses its timer.
ReconcileAll(m) == [m EXCEPT !.watcher = Watched(m), !.timer = FALSE]
\* reconcileWatchers: a watcher of the directory that is wanted stays, with its timer.
ReconcileWatchers(m) ==
    IF m.watcher = Watched(m) THEN m
    ELSE [m EXCEPT !.watcher = Watched(m), !.timer = FALSE,
                   !.missed = IF m.timer THEN @ \cup {m.watcher} ELSE @]
\* The snapshot lists the candidates this synchronisation found, as they stand now.
Finish ==
    /\ Op(pm).step = "finish"
    /\ pm' = [ReconcileWatchers(pm) EXCEPT
                !.op = Idle, !.shown = IF pm.mounted # None THEN pm.mounted.dir ELSE "none"]

-----------------------------------------------------------------------------
(* The callers                                                             *)
Requests ==
    {List("none"), List("project")}
    \cup {[kind |-> k, arg |-> t] : k \in {"enable", "disable", "configure"}, t \in {"user", "project"}}
    \cup {[kind |-> k, arg |-> "none"] : k \in {"reload", "reload all", "update", "remove"}}
    \cup {[kind |-> "install", arg |-> d] : d \in {"managed", "linked"}}
    \cup {[kind |-> "trust", arg |-> a] : a \in {"yes", "no"}}

Request ==
    /\ ~pm.closed /\ pm.ops < MaxOps
    /\ \E op \in Requests :
        pm' = [pm EXCEPT !.waiting = Append(@, op), !.ops = @ + 1]

DisposeManager ==
    /\ ~pm.closed
    /\ pm' = [pm EXCEPT !.closed = TRUE, !.waiting = Append(@, [kind |-> "dispose", arg |-> "none"])]

\* The author of the plugin saves a file.
Edit(dir) ==
    /\ pm.disk[dir] # 0 /\ Len(pm.made) < MaxVersions
    /\ \E fault \in Faults : pm' = NewVersion(pm, dir, fault)

\* A watcher's timer: the bundle is invalidated at once, the synchronisation queued.
TimerFires ==
    /\ pm.timer
    /\ pm' = IF pm.closed THEN [pm EXCEPT !.timer = FALSE]
             ELSE [InvalidateDir(pm, pm.watcher) EXCEPT
                     !.timer = FALSE, !.waiting = Append(@, [kind |-> "hmr", arg |-> "none"])]

\* clientBundle() and the HTTP handler: they compile beside the queue.
FetchStarts ==
    /\ pm.fetch = NoFetch /\ pm.shown # "none" /\ pm.ops < MaxOps
    /\ pm' = [pm EXCEPT !.ops = @ + 1,
                        !.fetch = IF Cached(pm, pm.shown) THEN NoFetch
                                  ELSE [dir |-> pm.shown, rev |-> pm.rev[pm.shown], version |-> 0]]
FetchReads ==
    /\ pm.fetch # NoFetch /\ pm.fetch.version = 0
    /\ pm' = IF pm.disk[pm.fetch.dir] = 0 \/ Fault(pm, pm.disk[pm.fetch.dir]) = "client"
             THEN [pm EXCEPT !.fetch = NoFetch]
             ELSE [pm EXCEPT !.fetch.version = pm.disk[pm.fetch.dir]]
\* A mistake the runs must catch: the bundle is filed under the revision of now.
FiledNow(m) == m.rev[m.fetch.dir]
Filed(m) == m.fetch.rev
FetchEnds ==
    /\ pm.fetch.version # 0
    /\ pm' = [pm EXCEPT !.fetch = NoFetch,
                        !.cache[pm.fetch.dir] = [version |-> pm.fetch.version, rev |-> Filed(pm)]]

\* The Host dies, in the middle of an installation too: after the old copy was renamed away, after
\* the new one was renamed into place, or before plugins.json was written.  The first two leave a
\* backup and are admitted as "backup".
Crash ==
    /\ pm.ops < MaxOps
    /\ pm' = [Started(pm) EXCEPT !.ops = @ + 1]
CrashInInstall ==
    /\ pm.ops < MaxOps /\ pm.op = Idle /\ pm.waiting # <<>>
    /\ NeedsVersion(pm, Head(pm.waiting)) /\ Len(pm.made) < MaxVersions
    /\ \E after \in {"backed up", "placed", "cleaned"} :
        /\ after # "cleaned" => "backup" \in Races /\ pm.disk.managed # 0
        /\ pm' = [Started(NewVersion(pm, "managed", "none")) EXCEPT
                    !.ops = @ + 1,
                    !.disk = [pm.disk EXCEPT
                        !.managed = IF after = "backed up" THEN 0 ELSE Len(pm.made) + 1,
                        !.backup = IF after = "cleaned" THEN @ ELSE pm.disk.managed]]

Next ==
    \/ Start \/ CompileClient \/ Import \/ DisposePrevious \/ Apply \/ Finish
    \/ Request \/ DisposeManager \/ TimerFires
    \/ \E dir \in {"managed", "linked", "project"} : Edit(dir)
    \/ FetchStarts \/ FetchReads \/ FetchEnds \/ Crash \/ CrashInInstall

Spec == Init /\ [][Next]_pm
-----------------------------------------------------------------------------
Quiet == pm.op = Idle /\ pm.waiting = <<>> /\ ~pm.timer /\ pm.fetch = NoFetch /\ ~pm.closed

\* Project code runs only for the active workspace and while the user trusts it.
TrustedOnly ==
    pm.op = Idle /\ ~pm.closed /\ pm.mounted.dir = "project" => pm.active /\ pm.trusted

\* Once everything has settled, the version that runs is the one the user installed, linked or
\* enabled last, and of a watched directory the one saved last, unless the saving was missed, or
\* the error says why not.
LatestRuns ==
    Quiet =>
        IF ~Wanted(pm) THEN pm.mounted = None
        ELSE \/ pm.error
             \/ /\ pm.mounted.dir = Candidate(pm) /\ pm.mounted.dir # "backup"
                /\ pm.mounted.config = Patch(pm, Candidate(pm)).config
                /\ pm.watcher = pm.mounted.dir /\ pm.watcher \notin pm.missed =>
                       pm.mounted.version = pm.disk[pm.mounted.dir]

\* A reload that fails leaves the plugin running: a forced one never ends with nothing where a Host
\* half of the same tier ran, unless that could not be applied again either; and then the error says so.
KeepsRunning ==
    pm.op.step = "finish" /\ pm'.op = Idle /\ pm.op.force /\ pm.op.ran =>
        pm.mounted # None \/ (pm.op.stuck /\ pm.error)
KeepsWorking == [][KeepsRunning]_pm

\* The cached bundle of a watched plugin is never older than its sources once changes have
\* settled, but for a change that was missed.
BundleIsFresh ==
    Quiet /\ pm.mounted # None /\ pm.watcher = pm.mounted.dir /\ Cached(pm, pm.watcher) =>
        pm.watcher \in pm.missed \/ pm.cache[pm.watcher].version = pm.disk[pm.watcher]

\* No saving in a directory that is watched now has been missed.
EditsAreSeen ==
    Quiet /\ pm.mounted # None /\ pm.watcher = pm.mounted.dir => pm.watcher \notin pm.missed

\* While a plugin is reloaded the old version runs until the new one does (ADR 0016).
OldRunsUntilNewDoes ==
    [][pm.op # Idle /\ pm.mounted # None /\ pm'.op # Idle => pm'.mounted # None]_pm

-----------------------------------------------------------------------------
(***************************************************************************)
(* The order plugins are mounted in (packages/kernel): those that provide  *)
(* a service before those that need it, in the order they were found where *)
(* that leaves a choice, with cycles reported and broken; and unmounted    *)
(* the other way round.                                                    *)
(***************************************************************************)
Nodes == 1..N
\* A provider comes before each other plugin that needs one of its services.
DependsOn(nodes) == [<<p, c>> \in Nodes \X Nodes |-> p # c /\ nodes[p].provides \cap nodes[c].inject # {}]
Degree(edges) == [c \in Nodes |-> Cardinality({p \in Nodes : edges[p, c]})]
Reach(edges) == TransitiveClosure(edges, Nodes)
OnCycle(reach, n) == reach[n, n]
OrderInit ==
    \E nodes \in [Nodes -> [inject : SUBSET Services, provides : SUBSET Services]] :
       LET edges == DependsOn(nodes)
           reach == Reach(edges)
       IN /\ \/ "behind a cycle" \in Races
             \/ \A c \in Nodes : (\E p \in Nodes : OnCycle(reach, p) /\ reach[p, c]) => OnCycle(reach, c)
          /\ po = [edges |-> edges, reach |-> reach, degree |-> Degree(edges), placed |-> {}, ordered |-> <<>>, cycles |-> <<>>]

Earliest(set) == CHOOSE n \in set : \A m \in set : n =< m
Waiting(x) == Nodes \ x.placed
Ready(x) == {n \in Waiting(x) : x.degree[n] = 0}
\* A plugin takes its place, and those that wait for it wait for one less.
Placed(x, n) ==
    [x EXCEPT !.placed = @ \cup {n}, !.ordered = Append(@, n),
              !.degree = [m \in Nodes |-> IF m \notin x.placed \cup {n} /\ x.edges[n, m] /\ @[m] > 0 THEN @[m] - 1 ELSE @[m]]]
\* Who is left when nobody is ready is reported, and the first of them goes ahead.
Broken(x) == [x EXCEPT !.cycles = Append(@, Waiting(x))]
Place ==
    /\ Waiting(po) # {}
    /\ po' = IF Ready(po) # {} THEN Placed(po, Earliest(Ready(po))) ELSE Placed(Broken(po), Earliest(Waiting(po)))

OrderSpec == OrderInit /\ [][Place]_po
-----------------------------------------------------------------------------
Position(n) == CHOOSE k \in DOMAIN po.ordered : po.ordered[k] = n
Sorted == po.placed = Nodes

\* None is dropped or mounted twice; a provider comes before who needs it, unless both are on one cycle;
\* and undoing the order, nobody is left without what it needs before it is undone itself.
ProvidersComeFirst ==
    Sorted =>
        /\ IsInjective(po.ordered) /\ Range(po.ordered) = Nodes
        /\ \A p, c \in Nodes : po.edges[p, c] /\ ~po.reach[c, p] => Position(p) < Position(c)

\* A cycle is reported exactly where there is one, whoever is on it; without one the order found is
\* kept wherever nothing demands another.
CyclesAreReported ==
    Sorted =>
        LET onCycle == {n \in Nodes : OnCycle(po.reach, n)}
        IN /\ (po.cycles # <<>>) = (onCycle # {})
           /\ onCycle # {} => onCycle \subseteq UNION Range(po.cycles)
           /\ (\A p, c \in Nodes : po.edges[p, c] => p < c) => po.ordered = [n \in Nodes |-> n]
=============================================================================
