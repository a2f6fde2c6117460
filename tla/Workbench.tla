------------------------------ MODULE Workbench ------------------------------
(***************************************************************************)
(* The files open in the workbench (src/stores/workbenchStore.ts), their   *)
(* editor and the file tree, against the desktop commands that read, write *)
(* and search the workspace on threads of their own, and against others    *)
(* who write the same files.                                               *)
(*                                                                         *)
(* A content is a number, 0 for "no such file"; paths are relative to the  *)
(* workspace.  Highlighting, images and the order of matches are left out. *)
(*                                                                         *)
(* Apart from that, as "op", handing a project or a file to an application *)
(* of this machine: which editors and terminals there are, which one a     *)
(* project opens in, the program that is started and its command line.     *)
(***************************************************************************)
EXTENDS Naturals, Sequences, FiniteSets, SequencesExt, TLC

CONSTANTS Paths, Workspaces,
          MaxContents,  \* contents typed or written by others
          MaxOps,       \* reads, writes, listings and searches; what is opened elsewhere
          Races         \* what this instance admits of "switch", "overtaking", "reopen", "late listing", and
                        \* outside of "main button", "blocked", "unix", "colon names", "two roots"

VARIABLES wb, op

NoItem == [path |-> "none"]
Item(path) == [path |-> path, content |-> 0, saved |-> 0, loading |-> TRUE, saving |-> FALSE, error |-> FALSE]
Init ==
    \E cwd \in Workspaces :
    wb = [cwd |-> cwd, disk |-> [w \in Workspaces |-> [p \in Paths |-> 1]], open |-> <<>>, active |-> "none",
          ops |-> {}, contents |-> 1, foreign |-> {}, confirmed |-> FALSE, failures |-> 0,
          tree |-> [shown |-> "none", expanded |-> FALSE, calls |-> {}],
          searches |-> 0, running |-> {}, count |-> 0]

IsOpen(path) == \E i \in DOMAIN wb.open : wb.open[i].path = path
Of(path) == wb.open[CHOOSE i \in DOMAIN wb.open : wb.open[i].path = path]
Dirty(item) == item.content # item.saved
\* openFiles.map: the item of that path, if it is still open.
WithItem(open, path, item) == [i \in DOMAIN open |-> IF open[i].path = path THEN item ELSE open[i]]
\* The one CodeEditorTab shows: the active file, or else the first.
Shown == IF IsOpen(wb.active) THEN Of(wb.active) ELSE IF wb.open = <<>> THEN NoItem ELSE wb.open[1]
UnderWay(path) == \E o \in wb.ops : o.path = path

Call(w, kind, path, content) ==
    [w EXCEPT !.count = @ + 1,
              !.ops = @ \cup {[id |-> w.count, kind |-> kind, ws |-> w.cwd, path |-> path, content |-> content,
                               done |-> FALSE, ok |-> TRUE]}]
Do(w) == [w EXCEPT !.confirmed = FALSE]

-----------------------------------------------------------------------------
(* The user                                                                *)
\* openFile: a file that is open and clean is read again in the background, one with edits is not,
\* one that could not be read or saved is opened anew.
OpenFile(path) ==
    /\ wb.count < MaxOps
    /\ LET known == IsOpen(path) /\ ~Of(path).error
           placeholder == IF IsOpen(path) THEN [Of(path) EXCEPT !.loading = TRUE, !.saving = FALSE, !.error = FALSE]
                          ELSE Item(path)
           next == [Do(wb) EXCEPT !.active = path,
                        !.open = IF known THEN @ ELSE IF IsOpen(path) THEN WithItem(@, path, placeholder)
                                 ELSE Append(@, placeholder)] IN
       /\ IsOpen(path) /\ Of(path).error /\ Dirty(Of(path)) => "reopen" \in Races
       /\ UnderWay(path) => "overtaking" \in Races
       /\ wb' = IF known /\ Dirty(Of(path)) THEN next ELSE Call(next, "open", path, 0)

\* handleReload, with the user's consent when there are edits.
ReloadFile ==
    /\ wb.count < MaxOps /\ Shown # NoItem
    /\ UnderWay(Shown.path) => "overtaking" \in Races
    /\ LET w == [Do(wb) EXCEPT !.open = WithItem(@, Shown.path, [Shown EXCEPT !.loading = TRUE, !.error = FALSE]),
                               !.confirmed = Dirty(Shown)] IN
       wb' = Call(w, "reload", Shown.path, 0)

\* The editor of a file that is read and has no error; every change goes to the store.
Type ==
    /\ Shown # NoItem /\ ~Shown.loading /\ ~Shown.error /\ wb.contents < MaxContents
    /\ wb' = [Do(wb) EXCEPT !.contents = @ + 1, !.open = WithItem(@, Shown.path, [Shown EXCEPT !.content = wb.contents + 1])]

\* saveFile, by the button (there are edits) or Ctrl+S in the editor; what is written is the content of this moment.
SaveFile ==
    /\ wb.count < MaxOps /\ Shown # NoItem
    /\ (Dirty(Shown) /\ ~Shown.saving) \/ (~Shown.loading /\ ~Shown.error)
    /\ UnderWay(Shown.path) => "overtaking" \in Races
    /\ wb' = Call([Do(wb) EXCEPT !.open = WithItem(@, Shown.path, [Shown EXCEPT !.saving = TRUE, !.error = FALSE])],
                  "save", Shown.path, Shown.content)

SelectFile(path) == IsOpen(path) /\ wb.active # path /\ wb' = [Do(wb) EXCEPT !.active = path]

\* closeFile, with the user's consent when there are edits; the neighbour becomes the active file.
CloseFile(path) ==
    /\ IsOpen(path)
    /\ LET index == CHOOSE i \in DOMAIN wb.open : wb.open[i].path = path
           left == RemoveAt(wb.open, index) IN
       wb' = [Do(wb) EXCEPT !.open = left, !.confirmed = Dirty(Of(path)),
                            !.active = IF wb.active # path THEN @
                                       ELSE IF left = <<>> THEN "none"
                                       ELSE IF index \in DOMAIN left THEN left[index].path ELSE left[index - 1].path]

-----------------------------------------------------------------------------
(* The commands                                                            *)
\* read_workspace_file and write_workspace_file; a read fails when there is no file, a write may.
Performed(o) == [o EXCEPT !.done = TRUE]
ReadWorkspaceFile(o) ==
    /\ ~o.done /\ o.kind \in {"open", "reload"}
    /\ LET content == wb.disk[o.ws][o.path] IN
       wb' = [Do(wb) EXCEPT !.ops = (@ \ {o}) \cup {[Performed(o) EXCEPT !.content = content, !.ok = content # 0]},
                            !.foreign = IF o.ws = wb.cwd THEN @ \ {o.path} ELSE @]
WriteWorkspaceFile(o) ==
    /\ ~o.done /\ o.kind = "save"
    /\ \/ wb' = [Do(wb) EXCEPT !.ops = (@ \ {o}) \cup {Performed(o)}, !.disk[o.ws][o.path] = o.content,
                               !.foreign = IF o.ws = wb.cwd THEN @ \ {o.path} ELSE @]
       \/ /\ wb.failures = 0
          /\ wb' = [Do(wb) EXCEPT !.ops = (@ \ {o}) \cup {[Performed(o) EXCEPT !.ok = FALSE]}, !.failures = 1]

\* A mistake the runs must catch: what a read brings replaces edits made meanwhile.
LoadedOver(item, o) == [item EXCEPT !.content = o.content, !.saved = o.content, !.loading = FALSE, !.error = FALSE]
\* What a read brings, unless it was a background one and there are edits by now.
Loaded(item, o) ==
    IF o.kind = "open" /\ ~item.loading /\ Dirty(item) THEN item
    ELSE [item EXCEPT !.content = o.content, !.saved = o.content, !.loading = FALSE, !.error = FALSE]
\* A mistake the runs must catch: what was typed during the write counts as written.
SavedNow(item, o) == [item EXCEPT !.saved = item.content, !.saving = FALSE, !.error = FALSE]
Saved(item, o) == [item EXCEPT !.saved = o.content, !.saving = FALSE, !.error = FALSE]

Answer(o) ==
    /\ o.done
    /\ wb' = [Do(wb) EXCEPT !.ops = @ \ {o},
                !.open = IF ~IsOpen(o.path) THEN @
                         ELSE WithItem(@, o.path,
                                  CASE ~o.ok -> [Of(o.path) EXCEPT !.loading = IF o.kind = "save" THEN @ ELSE FALSE,
                                                                   !.saving = IF o.kind = "save" THEN FALSE ELSE @, !.error = TRUE]
                                    [] o.ok /\ o.kind = "save" -> Saved(Of(o.path), o)
                                    [] OTHER -> Loaded(Of(o.path), o)),
                !.confirmed = o.kind = "reload"]

-----------------------------------------------------------------------------
(* The tree and its searches                                               *)
\* toggleDirectory of one directory: it is listed when it is opened and not known yet.
ToggleDirectory ==
    /\ wb.count < MaxOps
    /\ LET opens == ~wb.tree.expanded IN
       wb' = [Do(wb) EXCEPT !.count = @ + 1, !.tree.expanded = opens,
                            !.tree.calls = IF opens /\ wb.tree.shown = "none" THEN @ \cup {wb.cwd} ELSE @]
DirectoryListed(ws) ==
    /\ ws \in wb.tree.calls
    /\ wb' = [Do(wb) EXCEPT !.tree.calls = @ \ {ws}, !.tree.shown = ws]

\* search_workspace_files under one request id: a later search cancels the one before.
SearchStarts ==
    /\ wb.count < MaxOps
    /\ wb' = [Do(wb) EXCEPT !.count = @ + 1, !.searches = wb.count + 1,
                !.running = {IF r.id = wb.searches THEN [r EXCEPT !.cancelled = TRUE] ELSE r : r \in @}
                            \cup {[id |-> wb.count + 1, stage |-> "git", cancelled |-> FALSE]}]
\* No repository, or git fails: the files are walked instead.
SearchFallsBack(r) ==
    /\ r.stage = "git" /\ ~r.cancelled
    /\ wb' = [Do(wb) EXCEPT !.running = (@ \ {r}) \cup {[r EXCEPT !.stage = "files"]}]
\* A mistake the runs must catch: a search that ends forgets whichever one has its id by now.
ForgetsAny(w, r) == 0
Forgets(w, r) == IF w.searches = r.id THEN 0 ELSE w.searches
\* Found, or given up because it is cancelled.
SearchEnds(r) == wb' = [Do(wb) EXCEPT !.running = @ \ {r}, !.searches = Forgets(wb, r)]
CancelSearch ==
    /\ wb.searches # 0
    /\ \E r \in wb.running : r.id = wb.searches /\ ~r.cancelled
         /\ wb' = [Do(wb) EXCEPT !.running = (@ \ {r}) \cup {[r EXCEPT !.cancelled = TRUE]}]

-----------------------------------------------------------------------------
\* A mistake the runs must catch: the tree of the workspace before stays.
ResetNothing(tree) == tree
ResetTree(tree) == [tree EXCEPT !.shown = "none", !.expanded = FALSE]
\* Another workspace: the tree starts again, the open files stay.
SwitchWorkspace(ws) ==
    /\ ws # wb.cwd
    /\ wb.open # <<>> \/ wb.ops # {} => "switch" \in Races
    /\ wb.tree.calls # {} => "late listing" \in Races
    /\ wb' = [Do(wb) EXCEPT !.cwd = ws, !.tree = ResetTree(@), !.foreign = {}]

\* The agent, Git or another editor.
OthersWrite(path) ==
    /\ wb.contents < MaxContents
    /\ wb' = [Do(wb) EXCEPT !.contents = @ + 1, !.disk[wb.cwd][path] = wb.contents + 1, !.foreign = @ \cup {path}]
OthersDelete(path) ==
    /\ wb.disk[wb.cwd][path] # 0 /\ wb.contents < MaxContents
    /\ wb' = [Do(wb) EXCEPT !.contents = @ + 1, !.disk[wb.cwd][path] = 0, !.foreign = @ \cup {path}]

Next ==
    \/ \E path \in Paths : OpenFile(path) \/ SelectFile(path) \/ CloseFile(path) \/ OthersWrite(path) \/ OthersDelete(path)
    \/ ReloadFile \/ Type \/ SaveFile
    \/ \E o \in wb.ops : ReadWorkspaceFile(o) \/ WriteWorkspaceFile(o) \/ Answer(o)
    \/ ToggleDirectory \/ SearchStarts \/ CancelSearch
    \/ \E ws \in Workspaces : DirectoryListed(ws) \/ SwitchWorkspace(ws)
    \/ \E r \in wb.running : SearchFallsBack(r) \/ SearchEnds(r)

-----------------------------------------------------------------------------
(* The editors and terminals of the machine                                *)
\* One editor of each kind of command line, and a fork of the first; in the order of the catalogue.
Catalogue == <<"cursor", "vscode", "zed", "notepadpp", "webstorm", "visualstudio">>
Editors == ToSet(Catalogue)
Style(e) == CASE e \in {"cursor", "vscode"} -> "goto" [] e = "zed" -> "colon" [] OTHER -> e
SupportsLine(e) == Style(e) # "visualstudio"
None == "none"
\* An argument: an option, a path, and the numbers at its end.  The second file has one in its name.
Arg(option, path, numbers) == [option |-> option, path |-> path, numbers |-> numbers]
Option(name) == Arg(name, "", <<>>)
Number(n) == Arg("", "", <<n>>)
Path(file) == IF file = "odd" THEN Arg("", "plain", <<1>>) ELSE Arg("", file, <<>>)
Files == IF "colon names" \in Races THEN {"plain", "odd"} ELSE {"plain"}
NoLine == 0

-----------------------------------------------------------------------------
(* The command line, and what the editor reads in it                       *)
Located(file, line, column) ==
    [Path(file) EXCEPT !.numbers = @ \o IF line = NoLine THEN <<>> ELSE <<line>> \o IF column = NoLine THEN <<>> ELSE <<column>>]
\* A column without a line is none.
ColumnOf(line, column) == IF line = NoLine THEN NoLine ELSE column
FolderArg(workspace) == IF workspace = None THEN <<>> ELSE <<Path(workspace)>>
\* editor_launch_args of a file, and of a folder alone.
FileArgs(style, workspace, file, line, column) ==
    LET at == ColumnOf(line, column)
        If(n, args) == IF n = NoLine THEN <<>> ELSE args
    IN CASE style = "goto" ->
               FolderArg(workspace) \o (IF line = NoLine THEN <<Path(file)>> ELSE <<Option("-g"), Located(file, line, at)>>)
         [] style = "colon" -> FolderArg(workspace) \o <<Located(file, line, at)>>
         [] style = "webstorm" ->
               FolderArg(workspace) \o If(line, <<Option("--line"), Number(line)>>) \o If(at, <<Option("--column"), Number(at)>>)
                  \o <<Path(file)>>
         [] style = "notepadpp" -> If(line, <<Arg("-n", "", <<line>>)>>) \o If(at, <<Arg("-c", "", <<at>>)>>) \o <<Path(file)>>
         [] style = "visualstudio" -> <<Option("/Edit"), Path(file)>>
LaunchArgs(style, workspace, file, line, column) ==
    IF file # None THEN FileArgs(style, workspace, file, line, column)
    ELSE (IF style = "notepadpp" THEN <<Option("-openFoldersAsWorkspace")>> ELSE <<>>) \o FolderArg(workspace)

\* What an editor makes of them: the folders, and the file with the place in it, if any.
Folders(args) == {a.path : a \in {b \in ToSet(args) : b.path \in Workspaces}}
NoFile == [path |-> Option(""), line |-> NoLine, column |-> NoLine]
Nth(numbers, n) == IF Len(numbers) < n THEN NoLine ELSE numbers[n]
\* A number or two at the end are a place where the editor looks for one in the path itself.
InPath(arg) ==
    LET n == IF Len(arg.numbers) > 2 THEN Len(arg.numbers) - 2 ELSE 0
    IN [path |-> [arg EXCEPT !.numbers = SubSeq(@, 1, n)], line |-> Nth(arg.numbers, n + 1), column |-> Nth(arg.numbers, n + 2)]
Valued(args, name) ==
    LET at == {k \in DOMAIN args : args[k].option = name}
    IN IF at = {} THEN NoLine
       ELSE LET k == CHOOSE j \in at : TRUE IN IF args[k].numbers # <<>> THEN args[k].numbers[1] ELSE args[k + 1].numbers[1]
Beside(arg, args, line, column) == [path |-> arg, line |-> Valued(args, line), column |-> Valued(args, column)]
Reads(style, args) ==
    LET named == SelectSeq(args, LAMBDA a : a.path = "plain")
        arg == Last(named)
    IN IF named = <<>> THEN NoFile
       ELSE CASE style = "goto" /\ Option("-g") \in ToSet(args) -> InPath(arg)
              [] style = "colon" -> InPath(arg)
              [] style = "webstorm" -> Beside(arg, args, "--line", "--column")
              [] style = "notepadpp" -> Beside(arg, args, "-n", "-c")
              [] OTHER -> [path |-> arg, line |-> NoLine, column |-> NoLine]

-----------------------------------------------------------------------------
(* The machine                                                             *)
\* Installed programs: by folder, by the command of a name, and the versions of the IDE by where they are.
Versions == {1, 2}
Roots == IF "two roots" \in Races THEN {1, 2} ELSE {1}
Installs == Roots \X Versions
Program(e, version) == [of |-> e, version |-> version]
NoProgram == Program(None, 0)
\* The found ones are sorted by their paths, and the last is the first to be taken.
Newest(installs) == CHOOSE i \in installs : \A j \in installs : j[1] < i[1] \/ (j[1] = i[1] /\ j[2] =< i[2])
\* A fork brings the command of the editor it comes from; on Windows its folder gives it away.
FromPath(x, e) ==
    LET owner == x.commands[e]
    IN IF owner = None \/ (e = "vscode" /\ owner = "cursor" /\ "unix" \notin Races) THEN NoProgram ELSE Program(owner, 1)
Resolve(x, e) ==
    IF e = "webstorm" THEN (IF x.storms = {} THEN NoProgram ELSE Program(e, Newest(x.storms)[2]))
    ELSE IF e \in x.folders THEN Program(e, 1)
    ELSE IF e = "visualstudio" THEN NoProgram ELSE FromPath(x, e)
ListWorkspaceEditors(x) == SelectSeq(Catalogue, LAMBDA e : Resolve(x, e) # NoProgram)
\* The terminals that come with the system, and one that may be there.
ListTerminalApps(x) == {"powershell", "cmd"} \cup (IF x.bash THEN {"git-bash"} ELSE {})

Asked(folder, file, line, column) == [folder |-> folder, file |-> file, line |-> line, column |-> column]
NoLaunch == [kind |-> None, of |-> None, asked |-> Asked(None, None, NoLine, NoLine), program |-> NoProgram, args |-> <<>>, cwd |-> None]
Machines ==
    [folders : {{}, {"vscode"}, {"zed", "notepadpp"}, {"cursor", "visualstudio"}},
     commands : {[e \in Editors |-> IF e = c[1] THEN c[2] ELSE None] :
                    c \in {<<"vscode", None>>, <<"vscode", "vscode">>, <<"vscode", "cursor">>, <<"zed", "zed">>}},
     storms : SUBSET Installs, bash : BOOLEAN]
OpenerInit ==
    \E m \in Machines, w \in Workspaces :
       op = m @@ [default |-> "system", stored |-> [v \in Workspaces |-> None], blocked |-> "blocked" \in Races,
                  override |-> <<None, None>>, place |-> w, known |-> <<>>, terminals |-> {}, listed |-> FALSE, removed |-> {},
                  launch |-> NoLaunch, chosen |-> [v \in Workspaces |-> None], ops |-> 0]
Op(x) == [x EXCEPT !.ops = @ + 1]
CanOp == op.ops < MaxOps

\* The lists are made once.
Listed ==
    /\ ~op.listed
    /\ op' = [op EXCEPT !.listed = TRUE, !.known = ListWorkspaceEditors(op), !.terminals = ListTerminalApps(op)]
\* Others remove a program meanwhile.
Uninstall(e) ==
    /\ CanOp /\ op.listed /\ Resolve(op, e) # NoProgram
    /\ op' = Op([op EXCEPT !.folders = @ \ {e}, !.commands[e] = None, !.storms = IF e = "webstorm" THEN {} ELSE @,
                           !.removed = @ \cup {e}])
SelectWorkspace(w) == CanOp /\ op.place # w /\ op' = Op([op EXCEPT !.place = w])
SetDefault(e) == CanOp /\ op.default # e /\ op' = Op([op EXCEPT !.default = e])
Reload == CanOp /\ ~op.blocked /\ op' = Op([op EXCEPT !.override = <<None, None>>, !.listed = FALSE, !.known = <<>>, !.launch = NoLaunch])

\* preferredWorkspaceEditor: just chosen, remembered, the settings' or the first; only installed ones.
Among(x, e) == IF e \in ToSet(x.known) THEN e ELSE None
FirstOf(choices) == LET is == SelectSeq(choices, LAMBDA e : e # None) IN IF is = <<>> THEN None ELSE Head(is)
Preferred(x) ==
    FirstOf(<<IF x.override[1] = x.place THEN Among(x, x.override[2]) ELSE None, Among(x, x.stored[x.place]), Among(x, x.default)>>
              \o x.known)
\* launch_editor: the program is looked for again.
Launched(x, e, workspace, file, line, column) ==
    LET program == Resolve(x, e)
    IN [x EXCEPT !.launch = [kind |-> IF program = NoProgram THEN "failed" ELSE "editor", of |-> e, program |-> program,
                             asked |-> Asked(workspace, file, line, column),
                             args |-> IF program = NoProgram THEN <<>> ELSE LaunchArgs(Style(e), workspace, file, line, column),
                             cwd |-> workspace]]
\* chooseWorkspaceEditor
Chosen(x, e) ==
    [Launched(x, e, x.place, None, NoLine, NoLine) EXCEPT
        !.stored[x.place] = IF x.blocked THEN @ ELSE e, !.override = <<x.place, e>>]
ChooseEditor(e) ==
    /\ CanOp /\ e \in ToSet(op.known)
    /\ op' = Op([Chosen(op, e) EXCEPT !.chosen[op.place] = e])
\* The main button opens, and so chooses, what it shows.
OpenPreferred ==
    /\ CanOp /\ (Preferred(op) = op.chosen[op.place] \/ "main button" \in Races)
    /\ Preferred(op) # None
    /\ op' = Op(Chosen(op, Preferred(op)))
RevealWorkspace == CanOp /\ op.listed /\ Preferred(op) = None /\ op' = Op([op EXCEPT !.launch = [NoLaunch EXCEPT !.kind = "manager", !.cwd = op.place]])
\* A file of the project, from a diff or a tool call, in its editor or in another.
OpenInEditor(e, file, line, column) ==
    /\ CanOp /\ e \in ToSet(op.known)
    /\ op' = Op(Launched(op, e, op.place, file, line, column))
OpenTerminalApp(app) ==
    /\ CanOp /\ app \in op.terminals
    /\ op' = Op([op EXCEPT !.launch = [NoLaunch EXCEPT !.kind = "terminal", !.of = app, !.cwd = op.place,
                                                      !.args = IF app = "git-bash" THEN <<Arg("--cd", op.place, <<>>)>> ELSE <<>>]])

OpenerNext ==
    \/ Listed \/ Reload \/ OpenPreferred \/ RevealWorkspace
    \/ \E e \in Editors : Uninstall(e) \/ ChooseEditor(e)
    \/ \E e \in {"system", "zed", "webstorm", "vscode"} : SetDefault(e)
    \/ \E w \in Workspaces : SelectWorkspace(w)
    \/ \E e \in Editors, file \in Files, line, column \in {NoLine, 2} : OpenInEditor(e, file, line, column)
    \/ \E app \in {"powershell", "cmd", "git-bash"} : OpenTerminalApp(app)

Spec == (Init /\ OpenerInit) /\ [][(Next /\ UNCHANGED op) \/ (OpenerNext /\ UNCHANGED wb)]_<<wb, op>>
-----------------------------------------------------------------------------
\* A file shown without a mark is what is on disk in this workspace, once nothing is under way and
\* unless others have written it since; the tree is this workspace's.
CleanIsOnDisk ==
    /\ \A i \in DOMAIN wb.open :
         LET item == wb.open[i] IN
         ~Dirty(item) /\ ~item.loading /\ ~item.error /\ ~UnderWay(item.path) /\ item.path \notin wb.foreign
           => item.content = wb.disk[wb.cwd][item.path]
    /\ wb.tree.shown \in {"none", wb.cwd}

\* What was typed goes away only when the user types on, agrees to it, or has saved it.
EditsStay ==
    \A i \in DOMAIN wb.open : Dirty(wb.open[i]) =>
        \/ wb'.contents # wb.contents \/ wb'.confirmed
        \/ \E j \in DOMAIN wb'.open : wb'.open[j].path = wb.open[i].path /\ wb'.open[j].content = wb.open[i].content
EditsAreKept == [][EditsStay]_wb

\* The search that runs for a request id is the last one, and can be cancelled.
SearchesCanBeCancelled == \A r \in wb.running : ~r.cancelled => wb.searches = r.id

\* The editor makes of its command line what was asked for: the file, the place in it if it takes one,
\* in the window of the project if it can be told.
OpensAsAsked ==
    op.launch.kind = "editor" =>
        LET l == op.launch
            line == IF SupportsLine(l.of) THEN l.asked.line ELSE NoLine
        IN /\ Reads(Style(l.of), l.args) = IF l.asked.file = None THEN NoFile
                   ELSE [path |-> Path(l.asked.file), line |-> line, column |-> ColumnOf(line, l.asked.column)]
           /\ l.asked.file = None \/ Style(l.of) \in {"goto", "colon", "webstorm"} => Folders(l.args) = {l.asked.folder}

\* The program that starts is the one that was asked for, in its newest version; one that was listed and
\* is still there does start.
StartsTheOne ==
    /\ op.launch.kind = "editor" => op.launch.program.of = op.launch.of
    /\ op.launch.kind = "editor" /\ op.launch.of = "webstorm" => \A i \in op.storms : i[2] =< op.launch.program.version
    /\ op.launch.kind = "failed" => op.launch.of \in op.removed

\* A project opens in what was last chosen for it, or else in what the settings say.
OpensInItsOwn ==
    op.listed => Preferred(op) = FirstOf(<<Among(op, op.chosen[op.place]), Among(op, op.default)>> \o op.known)
=============================================================================
