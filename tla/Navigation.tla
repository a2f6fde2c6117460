----------------------------- MODULE Navigation -----------------------------
(***************************************************************************)
(* Where the page is and what it lists, as two machines.  "nv": the        *)
(* screen, where it was before, its back and forward stacks, the archiving *)
(* of conversations, and the notifications of the bell and of the          *)
(* operating system.  "pl": the projects and sessions of the side bar, the *)
(* registered projects as the desktop process has them, the page's copy    *)
(* that a change is shown in before it is saved, and the order that both   *)
(* are remembered in while sessions come, go and are worked on.            *)
(***************************************************************************)
EXTENDS Naturals, Sequences, FiniteSets, SequencesExt

CONSTANTS Workspaces, Hubs,
          MaxEach,          \* sessions of a workspace, the last of which is made meanwhile
          MaxNotifications, \* MAX_NOTIFICATIONS
          MaxRaised,        \* runs that end or ask
          MaxSessions,      \* sessions of the side bar
          MaxOps,           \* steps of the user, and of the Host in the side bar
          Races             \* what this instance admits of "leaves", "early", "partial", "starting", "limit", "reload"
                            \* on the screen, and of "overtaking", "refetch", "spelling", "unwritten" in the side bar

VARIABLES nv, pl

\* NavigationTarget: a session, the home page of a workspace, or a hub.
Session(w, n) == <<"session", w, n>>
Sessions == {Session(w, n) : w \in Workspaces, n \in 1..MaxEach}
HomeOf(w) == <<"home", w, 0>>
HubOf(h) == <<"hub", h, 0>>
NoSession == <<"none", "none", 0>>
NoHub == "none"
Made == {s \in Sessions : s[3] < MaxEach}
NoTask == [at |-> "none", files |-> {}, home |-> NoSession, rt |-> NoSession]

Init ==
    \E w \in Workspaces :
       nv = [hub |-> NoHub, draft |-> TRUE, file |-> NoSession, place |-> w, settings |-> FALSE, rt |-> NoSession,
             opening |-> FALSE, runtimes |-> {}, made |-> Made, listed |-> Made, archived |-> {}, back |-> <<>>,
             forward |-> <<>>, task |-> NoTask, viewed |-> NoSession, focus |-> TRUE, notices |-> <<>>, os |-> {},
             known |-> {}, raised |-> 0, ops |-> 0]

Step(x) == [x EXCEPT !.ops = @ + 1]
CanStep == nv.ops < MaxOps /\ ("leaves" \in Races \/ nv.task.at # "stopping")

-----------------------------------------------------------------------------
(* The screen                                                              *)
\* currentNavigationTarget
Current(x) ==
    IF x.hub # NoHub THEN HubOf(x.hub) ELSE IF ~x.draft /\ x.file # NoSession THEN x.file ELSE HomeOf(x.place)
Trail(x) == x.back \o <<Current(x)>> \o Reverse(x.forward)
\* prepareNewTask
Blank(x) == [x EXCEPT !.rt = NoSession, !.opening = FALSE, !.file = NoSession]
\* applyNavigationTarget: a session is shown at once, and its runtime when it has started.
Applied(x, t) ==
    CASE t[1] = "hub" -> [x EXCEPT !.hub = t[2]]
      [] t[1] = "home" -> [Blank(x) EXCEPT !.place = t[2], !.draft = TRUE, !.hub = NoHub]
      [] t[1] = "session" ->
            LET shown == [x EXCEPT !.place = t[2], !.draft = FALSE, !.hub = NoHub] IN
            IF x.file = t /\ x.rt = t THEN shown ELSE [shown EXCEPT !.file = t, !.opening = TRUE]
\* navigateTo
Navigated(x, t) ==
    IF Current(x) = t THEN x ELSE Applied([x EXCEPT !.back = Append(@, Current(x)), !.forward = <<>>], t)
Targets(x) == x.listed \cup {HomeOf(w) : w \in Workspaces} \cup {HubOf(h) : h \in Hubs}
NavigateTo(t) ==
    /\ CanStep /\ (t \notin nv.archived \/ "early" \in Races)
    /\ nv' = Step(Navigated(nv, t))
NavigateBack ==
    /\ CanStep /\ nv.back # <<>>
    /\ nv' = Step(Applied([nv EXCEPT !.back = Front(@), !.forward = Append(@, Current(nv))], Last(nv.back)))
NavigateForward ==
    /\ CanStep /\ nv.forward # <<>>
    /\ nv' = Step(Applied([nv EXCEPT !.forward = Front(@), !.back = Append(@, Current(nv))], Last(nv.forward)))
\* The shortcut for a new task leaves no trail.
NewChat ==
    /\ CanStep /\ nv.rt # NoSession /\ nv.rt = nv.file
    /\ nv' = Step([Blank(nv) EXCEPT !.draft = TRUE, !.hub = NoHub])
SetSettings(open) == CanStep /\ nv.settings # open /\ nv' = Step([nv EXCEPT !.settings = open])

Connected ==
    /\ nv.opening
    /\ nv' = [nv EXCEPT !.opening = FALSE, !.rt = nv.file, !.runtimes = @ \cup {nv.file}]
\* The runtime on screen before stays the store's own.
ConnectFails == nv.opening /\ nv' = [nv EXCEPT !.opening = FALSE]
\* The first message of a new task makes its session.
StartTask(s) ==
    /\ CanStep /\ nv.hub = NoHub /\ nv.draft /\ s[2] = nv.place /\ s \notin nv.made
    /\ nv' = Step([nv EXCEPT !.draft = FALSE, !.file = s, !.rt = s, !.opening = FALSE, !.made = @ \cup {s},
                             !.listed = @ \cup {s}, !.runtimes = @ \cup {s}])

-----------------------------------------------------------------------------
(* Notifications                                                           *)
Ids(notices) == {notices[k].id : k \in DOMAIN notices}
\* removeNotifications: the system's own are closed with those of the bell.
Removed(x, ids) ==
    [x EXCEPT !.notices = SelectSeq(@, LAMBDA e : e.id \notin ids), !.os = @ \ (ids \cap x.known), !.known = @ \ ids]
IdsOf(x, s) == {x.notices[k].id : k \in {j \in DOMAIN x.notices : x.notices[j].of = s}}
\* sessionIsBeingViewed
Viewed(x, s) == s # NoSession /\ x.viewed = s /\ x.focus
\* raise: a notification, and what the system shows if the settings ask for it.
Raised(x, of, about, loud) ==
    LET id == x.raised + 1
        new == [id |-> id, of |-> of, about |-> about]
        next == [x EXCEPT !.raised = id]
        all == <<new>> \o x.notices
    IN IF Viewed(x, of) THEN next
       ELSE [next EXCEPT !.notices = SubSeq(all, 1, IF Len(all) < MaxNotifications THEN Len(all) ELSE MaxNotifications),
                         !.os = IF loud THEN @ \cup {id} ELSE @, !.known = IF loud THEN @ \cup {id} ELSE @]
CanRaise == nv.raised < MaxRaised /\ (Len(nv.notices) < MaxNotifications \/ "limit" \in Races)
\* A run ends or asks: of the runtime on screen it is the session on screen that is named.
RunTells(s, loud) ==
    /\ CanRaise /\ s \in nv.runtimes
    /\ s = nv.rt => nv.file = s \/ "starting" \in Races
    /\ nv' = Raised(nv, IF s = nv.rt THEN nv.file ELSE s, s, loud)
\* A scheduled run is told of in the bell alone.
ScheduleTells(s) == CanRaise /\ s \in nv.listed /\ nv' = Raised(nv, s, s, FALSE)

\* setViewedSession, after what is on screen was drawn.
Viewable(x) == IF ~x.draft /\ x.hub = NoHub /\ ~x.settings THEN x.file ELSE NoSession
Sees(x) == IF x.focus /\ x.viewed # NoSession THEN Removed(x, IdsOf(x, x.viewed)) ELSE x
SetViewed == nv.viewed # Viewable(nv) /\ nv' = Sees([nv EXCEPT !.viewed = Viewable(nv)])
Focus(has) == CanStep /\ nv.focus # has /\ nv' = Step(Sees([nv EXCEPT !.focus = has]))
OpenNotification(k) ==
    /\ CanStep
    /\ LET notice == nv.notices[k]
           left == Removed(nv, {notice.id})
       IN /\ notice.of \notin nv.archived \/ notice.of \notin nv.listed \/ "early" \in Races
          /\ nv' = Step(Navigated(left, IF notice.of \in nv.listed THEN notice.of ELSE HomeOf(notice.of[2])))
Dismiss(k) == CanStep /\ nv' = Step(Removed(nv, {nv.notices[k].id}))
MarkAllRead == CanStep /\ nv.notices # <<>> /\ nv' = Step(Removed(nv, Ids(nv.notices)))
SystemCloses(id) == id \in nv.os /\ nv' = [nv EXCEPT !.os = @ \ {id}, !.known = @ \ {id}]
\* The page is loaded again: the notifications are read back, the system's are no longer known.
Reload ==
    /\ CanStep /\ nv.task = NoTask /\ (nv.os = {} \/ "reload" \in Races)
    /\ nv' = Step([Blank(nv) EXCEPT !.draft = TRUE, !.hub = NoHub, !.settings = FALSE, !.runtimes = {},
                                    !.back = <<>>, !.forward = <<>>, !.viewed = NoSession, !.known = {}])

-----------------------------------------------------------------------------
(* Archiving                                                               *)
Archive(files) ==
    CanStep /\ nv.task = NoTask /\ files # {} /\ nv' = Step([nv EXCEPT !.task = [@ EXCEPT !.at = "sent", !.files = files]])
\* forgetArchivedSessions
Forgotten(x, files) ==
    [x EXCEPT !.back = SelectSeq(@, LAMBDA t : t \notin files), !.forward = SelectSeq(@, LAMBDA t : t \notin files)]
\* What is on screen is left for the home page of its workspace.
Leaves(x) == Applied(x, x.task.home)
ArchiveAnswers ==
    /\ nv.task.at = "sent"
    /\ LET files == nv.task.files
           done == Forgotten([nv EXCEPT !.archived = @ \cup files], files)
       IN nv' = IF nv.file \notin files THEN [done EXCEPT !.task.at = "listing"]
                ELSE [done EXCEPT !.task.at = "stopping", !.task.home = HomeOf(nv.file[2]), !.task.rt = nv.rt, !.opening = FALSE]
\* One that fails is the end of it, whatever became of the others.
ArchiveFails ==
    /\ nv.task.at = "sent"
    /\ \E done \in SUBSET nv.task.files :
          /\ done # {} => "partial" \in Races
          /\ done # nv.task.files
          /\ nv' = [nv EXCEPT !.archived = @ \cup done, !.task = NoTask]
\* disconnect, which may fail and leave the runtime.
ArchiveLeaves(stopped) ==
    /\ nv.task.at = "stopping"
    /\ LET left == IF stopped THEN [nv EXCEPT !.runtimes = @ \ {nv.task.rt}, !.rt = IF @ = nv.task.rt THEN NoSession ELSE @]
                   ELSE nv
       IN nv' = [Leaves(left) EXCEPT !.task = [NoTask EXCEPT !.at = "listing"]]
RefreshSessions == nv.task.at = "listing" /\ nv' = [nv EXCEPT !.listed = nv.made \ nv.archived, !.task = NoTask]
Restore(s) ==
    /\ CanStep /\ nv.task = NoTask
    /\ nv' = Step([nv EXCEPT !.archived = @ \ {s}, !.listed = @ \cup {s}])

Next ==
    \/ \E t \in Targets(nv) : NavigateTo(t)
    \/ NavigateBack \/ NavigateForward \/ NewChat \/ Connected \/ ConnectFails \/ SetViewed \/ MarkAllRead \/ Reload
    \/ \E b \in BOOLEAN : SetSettings(b) \/ Focus(b) \/ ArchiveLeaves(b) \/ (\E s \in Sessions : RunTells(s, b))
    \/ \E s \in Sessions : StartTask(s) \/ ScheduleTells(s) \/ Archive({s} \cap nv.listed) \/ (s \in nv.archived /\ Restore(s))
    \/ \E w \in Workspaces : Archive({s \in nv.listed : s[2] = w})
    \/ \E k \in DOMAIN nv.notices : OpenNotification(k) \/ Dismiss(k)
    \/ \E id \in nv.os : SystemCloses(id)
    \/ ArchiveAnswers \/ ArchiveFails \/ RefreshSessions
Spec == Init /\ [][Next]_nv
-----------------------------------------------------------------------------
(* The side bar: a workspace is a place                                    *)
\* A workspace is written in more than one way (case, slashes); normalizedPath is its place.
Paths == [at : Workspaces, as : IF "spelling" \in Races THEN {1, 2} ELSE {1}]
NewProject(path) == [path |-> path, named |-> FALSE, pinned |-> FALSE, hidden |-> FALSE]
NoOrder == [sessions |-> <<>>, workspaces |-> <<>>]

ProjectsInit ==
    pl = [memory |-> <<>>, disk |-> <<>>, cache |-> <<>>, query |-> "idle", answer |-> <<>>, calls |-> <<>>,
          sessions |-> <<>>, archived |-> {}, made |-> 0, listed |-> <<>>, order |-> NoOrder, pinned |-> {}, ops |-> 0]

ListStep(x) == [x EXCEPT !.ops = @ + 1]
CanChange == pl.ops < MaxOps

-----------------------------------------------------------------------------
(* Registered projects                                                     *)
At(projects, place) == {k \in DOMAIN projects : projects[k].path.at = place}
FirstAt(projects, place) == CHOOSE k \in At(projects, place) : \A j \in At(projects, place) : k <= j
\* projectConfig: the project registered at a workspace, or what one is like before.
ConfigOf(projects, path) ==
    IF At(projects, path.at) = {} THEN NewProject(path) ELSE projects[FirstAt(projects, path.at)]

\* What register_project_cmd, save_project_cmd and remove_local_project_cmd make of the list.
Put(projects, project) ==
    IF At(projects, project.path.at) = {} THEN Append(projects, project)
    ELSE [projects EXCEPT ![FirstAt(projects, project.path.at)] = project]
Changed(projects, call) ==
    LET existing == ConfigOf(projects, call.project.path) IN
    CASE call.op = "save" -> Put(projects, call.project)
      [] call.op = "register" -> Put(projects, [existing EXCEPT !.path = call.project.path, !.hidden = FALSE])
      [] call.op = "remove" -> Put(projects, [existing EXCEPT !.hidden = TRUE])
Hidden(x, path) == ConfigOf(x.cache, path).hidden

\* A change is shown at once and saved afterwards.
Call(x, op, project) == [x EXCEPT !.calls = Append(@, [op |-> op, project |-> project, at |-> "sent"])]
Undisturbed ==
    pl.query # "idle" \/ (\E k \in DOMAIN pl.calls : pl.calls[k].op = "register" \/ pl.calls[k].at = "failed")
        => "refetch" \in Races
UpdateProject(path, pinned, named) ==
    LET next == [ConfigOf(pl.cache, path) EXCEPT !.path = path, !.pinned = pinned, !.named = named] IN
    /\ CanChange /\ Undisturbed /\ ~Hidden(pl, path)
    /\ pl' = ListStep(Call([pl EXCEPT !.cache = Changed(@, [op |-> "save", project |-> next])], "save", next))
RemoveProject(path) ==
    /\ CanChange /\ Undisturbed /\ ~Hidden(pl, path)
    /\ pl' = ListStep(Call([pl EXCEPT !.cache = Changed(@, [op |-> "remove", project |-> NewProject(path)])],
                       "remove", NewProject(path)))
\* selectWorkspace registers, and what is registered is read back.
SelectWorkspace(path) ==
    CanChange /\ Len(pl.calls) < 2 /\ pl' = ListStep(Call(pl, "register", NewProject(path)))

\* The list is changed under its lock, and then written; a write may fail, with the list changed.
RunCall(k) ==
    /\ pl.calls[k].at = "sent"
    /\ "overtaking" \in Races \/ \A j \in 1..k - 1 : pl.calls[j].at # "sent"
    /\ LET next == Changed(pl.memory, pl.calls[k]) IN
       \/ pl' = [pl EXCEPT !.memory = next, !.disk = next, !.calls[k].at = "saved"]
       \/ /\ Len(pl.calls) > 1 => "refetch" \in Races
          /\ pl.calls[k].op = "register" => "unwritten" \in Races
          /\ pl' = [pl EXCEPT !.memory = next, !.calls[k].at = "failed"]
\* invalidateQueries: a reading under way is given up for a new one.
Invalidated(x) == [x EXCEPT !.query = "asked", !.answer = <<>>]
\* A failed change is shown as it is, and so is what was registered.
Answered(x, call) == IF (call.at = "failed") = (call.op # "register") THEN Invalidated(x) ELSE x
AnswerCall(k) ==
    /\ pl.calls[k].at # "sent"
    /\ pl' = Answered([pl EXCEPT !.calls = RemoveAt(@, k)], pl.calls[k])
ReadProjects == pl.query = "asked" /\ pl' = [pl EXCEPT !.query = "read", !.answer = pl.memory]
ShowProjects == pl.query = "read" /\ pl' = [pl EXCEPT !.query = "idle", !.cache = pl.answer, !.answer = <<>>]

-----------------------------------------------------------------------------
(* Sessions and the order they are shown in                                *)
Of(x, s) == CHOOSE k \in DOMAIN x.sessions : x.sessions[k].file = s
CreateSession(path) ==
    /\ CanChange /\ pl.made < MaxSessions
    /\ pl' = ListStep([pl EXCEPT !.made = @ + 1, !.sessions = <<[file |-> pl.made + 1, cwd |-> path]>> \o @])
\* A session that is worked on becomes the newest.
Touch(k) ==
    CanChange /\ k > 1 /\ pl' = ListStep([pl EXCEPT !.sessions = <<pl.sessions[k]>> \o RemoveAt(@, k)])
ArchiveSession(k) ==
    CanChange /\ pl' = ListStep([pl EXCEPT !.sessions = RemoveAt(@, k), !.archived = @ \cup {pl.sessions[k]}])
RestoreSession(session) ==
    /\ CanChange /\ (pl.calls = <<>> \/ "refetch" \in Races)
    /\ pl' = ListStep(Invalidated([pl EXCEPT !.archived = @ \ {session}, !.sessions = Append(@, session)]))
PinSession(file) ==
    CanChange /\ pl' = ListStep([pl EXCEPT !.pinned = IF file \in @ THEN @ \ {file} ELSE @ \cup {file}])

Files(sessions) == [k \in DOMAIN sessions |-> sessions[k].file]
FirstOfEach(seq) == FoldLeft(LAMBDA acc, e : IF Contains(acc, e) THEN acc ELSE Append(acc, e), <<>>, seq)
Without(seq, other) == SelectSeq(seq, LAMBDA e : ~Contains(other, e))
\* reconcileSidebarSessionOrder: sessions not seen before come first, the others keep their place.
SessionOrder(previous, sessions) ==
    LET retained == SelectSeq(previous, LAMBDA f : Contains(Files(sessions), f))
    IN Without(Files(sessions), retained) \o retained
PlaceOf(sessions, f) == (CHOOSE s \in {sessions[k] : k \in DOMAIN sessions} : s.file = f).cwd.at
PlacesOf(sessions, files) == FirstOfEach([k \in DOMAIN files |-> PlaceOf(sessions, files[k])])
\* reconcileSidebarOrder: a workspace moves to the top only when it gains a session.
ReconcileSidebarOrder(previous, sessions) ==
    IF sessions = <<>> THEN previous
    ELSE LET order == SessionOrder(previous.sessions, sessions)
             promoted == PlacesOf(sessions, Without(order, previous.sessions))
             listed == promoted \o Without(previous.workspaces, promoted)
         IN [sessions |-> order, workspaces |-> listed \o Without(PlacesOf(sessions, order), listed)]
Refresh ==
    /\ pl.listed # pl.sessions
    /\ pl' = [pl EXCEPT !.listed = pl.sessions, !.order = ReconcileSidebarOrder(@, pl.sessions)]
\* The page is loaded again, and the projects and sessions with it; the order is remembered.
ReloadLists ==
    /\ CanChange /\ pl.calls = <<>>
    /\ pl' = ListStep(Invalidated([pl EXCEPT !.cache = <<>>, !.listed = <<>>]))

\* The groups shown: a workspace with sessions, or a registered project.
Chats(x, path) == {k \in DOMAIN x.listed : x.listed[k].cwd = path}
Groups(x) ==
    {path \in Paths : ~Hidden(x, path) /\ (Chats(x, path) # {} \/ \E k \in DOMAIN x.cache : x.cache[k].path = path)}
Index(seq, e) == CHOOSE k \in DOMAIN seq : seq[k] = e
\* sortSidebarProjectGroups: pinned projects first, then the remembered, then the registered.
GroupRank(x, path) ==
    <<IF ConfigOf(x.cache, path).pinned THEN 0 ELSE 1,
      IF Contains(x.order.workspaces, path.at) THEN Index(x.order.workspaces, path.at)
      ELSE Len(x.order.workspaces) + 1 +
           (IF Chats(x, path) # {} THEN 0
            ELSE Len(x.listed) + (IF At(x.cache, path.at) = {} THEN 0 ELSE FirstAt(x.cache, path.at)))>>
\* sortSidebarSessions: pinned sessions first, then the remembered order.
SessionRank(x, f) == <<IF f \in x.pinned THEN 0 ELSE 1, Index(x.order.sessions, f)>>
Before(a, b) == a[1] < b[1] \/ (a[1] = b[1] /\ a[2] < b[2])

ProjectsNext ==
    \/ \E path \in Paths : \/ RemoveProject(path) \/ SelectWorkspace(path) \/ CreateSession(path)
                           \/ \E pinned, named \in BOOLEAN : UpdateProject(path, pinned, named)
    \/ \E k \in DOMAIN pl.calls : RunCall(k) \/ AnswerCall(k)
    \/ ReadProjects \/ ShowProjects
    \/ \E k \in DOMAIN pl.sessions : Touch(k) \/ ArchiveSession(k) \/ PinSession(pl.sessions[k].file)
    \/ \E session \in pl.archived : RestoreSession(session)
    \/ Refresh \/ ReloadLists
ProjectsSpec == ProjectsInit /\ [][ProjectsNext]_pl
-----------------------------------------------------------------------------
\* Back and forward never lead to a conversation that was archived.
NoneArchived == ToSet(nv.back \o nv.forward) \cap nv.archived = {}

\* Going back and forward moves along one trail; going elsewhere cuts off what was ahead and keeps
\* what is behind; and only archived conversations are taken out of it.
TrailIsKept ==
    nv'.back # nv.back \/ nv'.forward # nv.forward
        => \/ Trail(nv') = Trail(nv)
           \/ nv'.back = Append(nv.back, Current(nv)) /\ nv'.forward = <<>>
           \/ nv' = Forgotten(nv', nv.task.files) /\ nv.task.at = "sent"
           \/ nv'.back = <<>> /\ nv'.runtimes = {}

\* Archiving takes the user off the screen only if what is on it was archived.
StaysWhereSent ==
    nv.task.at = "stopping" /\ nv'.task.at = "listing" /\ Current(nv') # Current(nv) => nv.file \in nv.archived

\* The session that the user is looking at has no notification, however late it was raised.
ViewedHasNone == nv.focus /\ nv.viewed = Viewable(nv) /\ nv.viewed # NoSession => IdsOf(nv, nv.viewed) = {}

\* What the system shows is in the bell, and goes with it.
SystemShowsListed == nv.os \subseteq Ids(nv.notices)

\* A notification leads to the session it tells of.
LeadsThere == \A k \in DOMAIN nv.notices : nv.notices[k].of = nv.notices[k].about

\* The two together.
Moves == [][TrailIsKept /\ StaysWhereSent]_nv

\* Once nothing is under way the side bar shows the projects as they are registered.
ShownAsRegistered == pl.query = "idle" /\ pl.calls = <<>> => pl.cache = pl.memory

\* A project is shown once, and every session of a project that is not removed is in one group.
OneGroupEach ==
    /\ \A a, b \in Groups(pl) : a.at = b.at => a = b
    /\ \A k \in DOMAIN pl.listed : ~Hidden(pl, pl.listed[k].cwd) => pl.listed[k].cwd \in Groups(pl)

\* "A workspace moves to the top only when it gains a session.  Sessions that disappear never move
\* it", nor does work in a session; and a session keeps its slot once it has one.
KeepsOrder ==
    LET gained(path) == \E k \in Chats(pl', path) : ~Contains(pl.order.sessions, pl'.listed[k].file)
        same(path) == ConfigOf(pl.cache, path).pinned = ConfigOf(pl'.cache, path).pinned
                      /\ (Chats(pl, path) # {} \/ Chats(pl', path) = {})
        kept(f) == Contains(pl.order.sessions, f) /\ Contains(pl'.order.sessions, f) /\ (f \in pl.pinned <=> f \in pl'.pinned)
    IN /\ \A a, b \in Groups(pl) \cap Groups(pl') :
            same(a) /\ same(b) /\ ~gained(a) /\ ~gained(b) /\ Before(GroupRank(pl, a), GroupRank(pl, b))
               => Before(GroupRank(pl', a), GroupRank(pl', b))
       /\ \A f, g \in 1..MaxSessions :
            kept(f) /\ kept(g) /\ Before(SessionRank(pl, f), SessionRank(pl, g)) => Before(SessionRank(pl', f), SessionRank(pl', g))
OrderIsKept == [][KeepsOrder]_pl
=============================================================================
