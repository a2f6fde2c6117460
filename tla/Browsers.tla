------------------------------- MODULE Browsers -------------------------------
(***************************************************************************)
(* The browsers the agents drive (packages/browser): one BrowserSession    *)
(* (driver.ts) per agent session, started on first use, connected to one   *)
(* tab over the DevTools protocol, closed when it has been idle, and, with *)
(* a persistent profile, locked against the others.                        *)
(*                                                                         *)
(* Awaits inside a command to the browser are left out; what is kept are   *)
(* the steps between which others move: asking the user, closing what is   *)
(* left, launching, waiting for the debugging port, connecting, switching  *)
(* the tab, acting, and the picture that is taken after it.                *)
(***************************************************************************)
EXTENDS Naturals, Sequences, FiniteSets, SequencesExt

CONSTANTS Agents,      \* agent sessions
          Persistent,  \* whether there is a profile directory
          MaxObjects,  \* BrowserSessions made
          MaxProcs,    \* browser processes started
          MaxCalls,    \* tool calls
          Races        \* what this instance admits of "parallel calls", "slow call", "two starts"

VARIABLE br
None == 0
Tabs == 1..2
NoTab == [proc |-> None, tab |-> None]
NewSession == [child |-> None, port |-> None, at |-> NoTab, locked |-> FALSE]

Init ==
    br = [open |-> [a \in Agents |-> None], objects |-> <<>>, procs |-> <<>>, activePort |-> None, lock |-> None,
          calls |-> {}, count |-> 0, rejected |-> FALSE]

Alive(p) == p \in DOMAIN br.procs /\ br.procs[p].alive
Connected(o) == LET at == br.objects[o].at IN Alive(at.proc) /\ at.tab \in br.procs[at.proc].tabs
CallsOf(a) == {c \in br.calls : c.agent = a}
\* A call goes on to another step, w being what it has done to the rest.
Goes(w, c, step) == [w EXCEPT !.calls = (@ \ {c}) \cup {[c EXCEPT !.step = step]}]
Fails(w, c, why) == [w EXCEPT !.calls = (@ \ {c}) \cup {[c EXCEPT !.step = "failed", !.why = why]}]
\* "acted" is where it has acted, "seen" what its answer shows.
NewCall(id, a, kind, tab, object, step) ==
    [id |-> id, agent |-> a, kind |-> kind, tab |-> tab, object |-> object, step |-> step, why |-> "",
     acted |-> NoTab, seen |-> NoTab]

-----------------------------------------------------------------------------
(* The tools                                                               *)
\* What only looks is never asked about and is tried again when the connection is lost meanwhile.
Kinds == {"inspect", "click", "new tab", "close tab"}
Asks(kind) == kind # "inspect"
\* execute: asks the user if it must, unless the session has full access, and refuses if it is read-only.
Begin(a, kind, tab) ==
    /\ br.count < MaxCalls
    /\ CallsOf(a) # {} => "parallel calls" \in Races
    /\ kind = "new tab" => tab = None
    /\ kind = "close tab" => tab # None
    /\ br' = [br EXCEPT !.count = @ + 1,
                        !.calls = @ \cup {NewCall(br.count, a, kind, tab, None, IF Asks(kind) THEN "asking" ELSE "allowed")}]
Confirmed(c) == c.step = "asking" /\ br' = Goes(br, c, "allowed")
Denied(c) == c.step = "asking" /\ br' = [br EXCEPT !.calls = @ \ {c}]

\* browserFor: the session's browser, or a new one; its timer starts again.
BrowserFor(c) ==
    /\ c.step = "allowed"
    /\ IF br.open[c.agent] # None
       THEN br' = [br EXCEPT !.calls = (@ \ {c}) \cup {[c EXCEPT !.step = "start", !.object = br.open[c.agent]]}]
       ELSE /\ Len(br.objects) < MaxObjects
            /\ br' = [br EXCEPT !.objects = Append(@, NewSession), !.open[c.agent] = Len(br.objects) + 1,
                                !.calls = (@ \ {c}) \cup {[c EXCEPT !.step = "start", !.object = Len(br.objects) + 1]}]

\* Nobody has called for a while: the browser is forgotten and closed.
IdleClose(a) ==
    /\ br.open[a] # None
    /\ CallsOf(a) # {} => "slow call" \in Races
    /\ br' = [br EXCEPT !.open[a] = None,
                        !.calls = @ \cup {NewCall(0, a, "idle", None, br.open[a], "close")}]

\* closeAll, when the plugin goes: every browser is closed, and errors are dropped.
CloseAll ==
    /\ br.calls = {} /\ \E a \in Agents : br.open[a] # None
    /\ br' = [br EXCEPT !.open = [a \in Agents |-> None],
                        !.calls = {NewCall(0, a, "stop", None, br.open[a], "close") : a \in {b \in Agents : br.open[b] # None}}]

-----------------------------------------------------------------------------
(* BrowserSession                                                          *)
\* connectTarget, to the tab it was on if that is still there.
Connect(w, o, p, tab) == [w EXCEPT !.objects[o].at = [proc |-> p, tab |-> tab]]
PageOf(p, tab) == IF tab \in br.procs[p].tabs THEN tab ELSE CHOOSE t \in br.procs[p].tabs : TRUE
\* What a call does once the browser is there: go to the tab it names, or act on the one at hand.
First(c) == IF c.tab # None /\ c.kind \in {"inspect", "click"} THEN "switch" ELSE "act"
\* ensureStarted: connected; or the endpoint still answers; or everything is closed and started again.
EnsureStarted(c) ==
    /\ c.step = "start"
    /\ LET o == c.object
           port == br.objects[o].port IN
       br' = IF Connected(o) THEN Goes(br, c, First(c))
             ELSE IF Alive(port) THEN Goes(Connect(br, o, port, PageOf(port, br.objects[o].at.tab)), c, First(c))
             ELSE Goes(br, c, "close")

\* A mistake the runs must catch: a browser whose port is not known yet is not killed.
KilledByPort(w, o) == [w EXCEPT !.procs = [p \in DOMAIN @ |-> IF p = w.objects[o].port THEN [@[p] EXCEPT !.alive = FALSE] ELSE @[p]]]
\* Browser.close over the endpoint, or else the process that was spawned.
Killed(w, o) == [w EXCEPT !.procs = [p \in DOMAIN @ |-> IF p \in {w.objects[o].port, w.objects[o].child}
                                                         THEN [@[p] EXCEPT !.alive = FALSE] ELSE @[p]]]
\* The rest of close: the lock goes last.
Reset(w, o) == [w EXCEPT !.objects[o] = NewSession, !.lock = IF w.objects[o].locked THEN None ELSE @]
\* close: a port that is set must answer, or nothing more is done.
Refuses(o) == br.objects[o].port # None /\ ~Alive(br.objects[o].port)

Close(c) ==
    /\ c.step = "close"
    /\ LET w == Killed(br, c.object) IN
       CASE c.kind = "stop" -> br' = [(IF Refuses(c.object) THEN br ELSE Reset(w, c.object)) EXCEPT !.calls = @ \ {c}]
         [] c.kind = "idle" -> br' = [(IF Refuses(c.object) THEN [br EXCEPT !.rejected = TRUE] ELSE Reset(w, c.object))
                                        EXCEPT !.calls = @ \ {c}]
         [] OTHER -> br' = IF Refuses(c.object) THEN Fails(br, c, "cannot close") ELSE Goes(Reset(w, c.object), c, "launch")

\* A mistake the runs must catch: a profile is taken whoever uses it.
AnyProfile == TRUE
\* acquireProfileLock: a lock is taken over when no browser answers on the profile's last port.
ProfileIsFree == br.lock = None \/ ~Alive(br.activePort)

\* The browser is spawned; it says where it listens in the profile's directory.
Launch(c) ==
    /\ c.step = "launch"
    /\ IF Persistent /\ ~ProfileIsFree THEN br' = Fails(br, c, "in use")
       ELSE /\ Len(br.procs) < MaxProcs
            /\ (Persistent /\ br.lock # None /\ Alive(br.objects[br.lock].child) /\ ~Alive(br.activePort)) => "two starts" \in Races
            /\ LET p == Len(br.procs) + 1
                   w == [br EXCEPT !.procs = Append(@, [alive |-> TRUE, ready |-> FALSE, tabs |-> {1}]),
                                   !.objects[c.object] = [@ EXCEPT !.child = p, !.locked = Persistent],
                                   !.lock = IF Persistent THEN c.object ELSE @,
                                   !.activePort = IF Persistent THEN None ELSE @] IN
               br' = Goes(w, c, "wait")
Ready(p) ==
    /\ Alive(p) /\ ~br.procs[p].ready
    /\ br' = [br EXCEPT !.procs[p].ready = TRUE, !.activePort = IF Persistent THEN p ELSE @]

\* waitForDevToolsPort, waitForTargets and connectTarget; what has died since it said where it
\* listens cannot be closed either, and its port stays.
Listens(c) ==
    /\ c.step = "wait"
    /\ LET p == br.objects[c.object].child IN
       /\ p # None /\ br.procs[p].ready
       /\ LET w == [br EXCEPT !.objects[c.object].port = p] IN
          br' = IF Alive(p) THEN Goes(Connect(w, c.object, p, 1), c, First(c)) ELSE Fails(w, c, "launch")
\* It exits before it listens, or takes too long: what was started is closed.
StartFails(c) ==
    /\ c.step = "wait"
    /\ LET p == br.objects[c.object].child IN
       /\ ~(p # None /\ br.procs[p].ready)
       /\ br' = Fails(Reset(Killed(br, c.object), c.object), c, "launch")

\* The connection is lost: what only looks starts once more (withReadOnlyRecovery), all else fails.
Lost(c) == IF c.kind = "inspect" /\ c.why = ""
           THEN [br EXCEPT !.calls = (@ \ {c}) \cup {[c EXCEPT !.step = "start", !.why = "again"]}]
           ELSE Fails(br, c, "lost")
Here(c) == br.objects[c.object].at
PortOf(c) == br.objects[c.object].port
TabsAt(p) == IF Alive(p) THEN br.procs[p].tabs ELSE {}
\* A mistake the runs must catch: the picture is of any tab, the first of the browser.
SeenFirst(w, c) == [w EXCEPT !.calls = (@ \ {c}) \cup {[c EXCEPT !.step = "done", !.seen = [Here(c) EXCEPT !.tab = 1]]}]
\* The answer shows the tab that is at hand by now.
Seen(w, c) == [w EXCEPT !.calls = (@ \ {c}) \cup {[c EXCEPT !.step = "done", !.seen = Here(c)]}]

\* A mistake the runs must catch: a call for a tab acts on the one at hand.
StaysOn(c) == c.step = "switch" /\ br' = Goes(br, c, "act")
\* switchTab: the tab is looked for over the port and connected to, the old connection being there or not.
Switch(c) ==
    /\ c.step = "switch"
    /\ br' = IF PortOf(c) = None THEN Lost(c)
             ELSE IF c.tab \notin TabsAt(PortOf(c)) THEN Fails(br, c, "no such tab")
             ELSE Goes(Connect(br, c.object, PortOf(c), c.tab), c, IF c.kind = "new tab" THEN "picture" ELSE "act")

\* inspect shows the tab at hand; a click acts on it.
Act(c) ==
    /\ c.step = "act" /\ c.kind \in {"inspect", "click"}
    /\ br' = IF ~Connected(c.object) THEN Lost(c)
             ELSE IF c.kind = "inspect" THEN Seen(br, c)
             ELSE [br EXCEPT !.calls = (@ \ {c}) \cup {[c EXCEPT !.step = "picture", !.acted = Here(c)]}]
\* newTab: the tab is made over the connection, then looked for and connected to like any other.
NewTab(c) ==
    /\ c.step = "act" /\ c.kind = "new tab"
    /\ IF ~Connected(c.object) THEN br' = Lost(c)
       ELSE \E tab \in Tabs \ TabsAt(Here(c).proc) :
                br' = [br EXCEPT !.procs[Here(c).proc].tabs = @ \cup {tab},
                                 !.calls = (@ \ {c}) \cup {[c EXCEPT !.step = "switch", !.tab = tab]}]
\* closeTab: never the only one; that the connection is lost is no error.
CloseTab(c) ==
    /\ c.step = "act" /\ c.kind = "close tab"
    /\ br' = IF Cardinality(TabsAt(PortOf(c))) <= 1 \/ (Connected(c.object) /\ c.tab \notin TabsAt(PortOf(c)))
             THEN Fails(br, c, "no such tab")
             ELSE IF ~Connected(c.object) THEN Goes(br, c, "move")
             ELSE Goes([br EXCEPT !.procs[Here(c).proc].tabs = @ \ {c.tab}], c, "move")
\* The rest of it: the connection goes on to another tab if it was to that one.
MoveOn(c) ==
    /\ c.step = "move"
    /\ LET rest == TabsAt(PortOf(c)) \ {c.tab} IN
       IF rest = {} THEN br' = Fails(br, c, "lost")
       ELSE IF Connected(c.object) /\ Here(c).tab # c.tab THEN br' = Goes(br, c, "picture")
       ELSE \E tab \in rest : br' = Goes(Connect(br, c.object, PortOf(c), tab), c, "picture")
\* What the page looks like after it.
Picture(c) ==
    /\ c.step = "picture"
    /\ br' = IF Connected(c.object) THEN Seen(br, c) ELSE Lost(c)
Return(c) == c.step \in {"done", "failed"} /\ br' = [br EXCEPT !.calls = @ \ {c}]

-----------------------------------------------------------------------------
\* The browser crashes or its user closes it, or closes a tab.
Dies(p) == Alive(p) /\ br' = [br EXCEPT !.procs[p].alive = FALSE]
TabCloses(p, tab) ==
    /\ Alive(p) /\ tab \in br.procs[p].tabs /\ Cardinality(br.procs[p].tabs) > 1
    /\ br' = [br EXCEPT !.procs[p].tabs = @ \ {tab}]

Next ==
    \/ \E a \in Agents, kind \in Kinds, tab \in {None} \cup Tabs : Begin(a, kind, tab)
    \/ \E c \in br.calls : \/ Confirmed(c) \/ Denied(c) \/ BrowserFor(c) \/ EnsureStarted(c) \/ Close(c) \/ Launch(c)
                           \/ Listens(c) \/ StartFails(c) \/ Switch(c) \/ Act(c) \/ NewTab(c) \/ CloseTab(c)
                           \/ MoveOn(c) \/ Picture(c) \/ Return(c)
    \/ \E a \in Agents : IdleClose(a)
    \/ CloseAll
    \/ \E p \in DOMAIN br.procs : Ready(p) \/ Dies(p) \/ \E tab \in Tabs : TabCloses(p, tab)
Spec == Init /\ [][Next]_br
-----------------------------------------------------------------------------
\* Every browser that runs belongs to a session that is open, or to a call or a close under way.
NoBrowserLeft ==
    \A p \in DOMAIN br.procs : br.procs[p].alive =>
        \E o \in DOMAIN br.objects :
            /\ p \in {br.objects[o].child, br.objects[o].port}
            /\ (\E a \in Agents : br.open[a] = o) \/ (\E c \in br.calls : c.object = o)

\* One browser at a time uses the persistent profile.
OneBrowserPerProfile == Persistent => Cardinality({p \in DOMAIN br.procs : br.procs[p].alive}) <= 1

\* What a call answers with shows the tab it acted on, the one it names if it names one, in the browser
\* of its own session; after a new tab that tab, after a closed one another, whatever the user closes
\* and however often the connection is lost meanwhile.
ActsOnItsTab ==
    \A c \in br.calls : c.step = "done" =>
        /\ c.kind \in {"inspect", "click"} /\ c.tab # None => c.seen.tab = c.tab
        /\ c.kind = "click" => c.seen = c.acted
        /\ c.kind = "new tab" => c.seen.tab = c.tab
        /\ c.kind = "close tab" => c.seen.tab # c.tab
        /\ c.seen.proc \in {br.objects[c.object].child, br.objects[c.object].port}

\* When the browser of a session is gone, the next call starts a fresh one (driver.ts:182): no call finds
\* before it has launched one that what is left cannot be closed.
FreshBrowserStarts == \A c \in br.calls : c.step = "failed" => c.why # "cannot close"
=============================================================================
