------------------------------- MODULE Machine -------------------------------
(***************************************************************************)
(* The machine, as the user and the agents work it through the desktop.    *)
(*                                                                         *)
(* The integrated terminals: the tabs of TerminalPanel.tsx, each with a    *)
(* viewport, and the sessions of src-tauri/src/terminal.rs, each with a    *)
(* shell and a thread that reads its output.  The page's terminal commands *)
(* are synchronous, so the main thread runs them in the order of the calls *)
(* (calls); output and exits come back as events (events).  Output is what *)
(* UTF-8 makes of characters: "e" is a lead byte L and its continuation C, *)
(* "x" a byte that is no text.                                             *)
(*                                                                         *)
(* Computer use (packages/computer) and the native helper it starts for    *)
(* every action (src-tauri/src/computer.rs): the control session of an     *)
(* agent, its last capture, the windows and the input sent.  A title is a  *)
(* set of words, contained in another one when it is a subset; bounds and  *)
(* pictures are those of what they show, the screen or a window.  The      *)
(* pixels, UI elements and the encoding are left out.                      *)
(***************************************************************************)
EXTENDS Naturals, Sequences, FiniteSets, SequencesExt

CONSTANTS MaxTabs,     \* tabs opened
          MaxOutput,   \* characters the shells write
          Sizes,       \* sizes of the panel
          MaxSteps,    \* selections, resizes and keys
          Windows,     \* window handles, smaller ones in front
          Titles,      \* titles windows may have
          MaxChanges,  \* an agent's calls and changes of the desktop
          Races        \* what this instance admits of "reload", "early typing", and for an agent of
                       \* "mode", "parallel calls", "titles", "drag"

VARIABLES tm,  \* the terminals
          co   \* computer use
-----------------------------------------------------------------------------
(* The terminals                                                           *)
Ids == 1..MaxTabs
None == 0

NoShell == [wrote |-> <<>>, piped |-> <<>>, lead |-> FALSE, alive |-> FALSE, reading |-> FALSE, size |-> 0, keys |-> <<>>]
NoView == [stage |-> "none", size |-> 0, text |-> <<>>, typed |-> <<>>]
Init ==
    tm = [tabs |-> <<>>, active |-> None, visible |-> FALSE, panel |-> CHOOSE size \in Sizes : TRUE, frame |-> None,
          view |-> [i \in Ids |-> NoView],
          next |-> 1, calls |-> <<>>, events |-> <<>>, hub |-> {}, shells |-> [i \in Ids |-> NoShell],
          steps |-> 0, output |-> 0, running |-> TRUE]

Active == IF tm.active = None /\ tm.tabs # <<>> THEN tm.tabs[1] ELSE tm.active
Sent(t, call) == [t EXCEPT !.calls = Append(@, call)]
Has(i) == Contains(tm.tabs, i)

-----------------------------------------------------------------------------
(* The page                                                                *)
\* createSession and the mount of its viewport, which fits itself to the panel when it can be measured
\* and starts to listen.
CreateSession(t) ==
    [t EXCEPT !.tabs = Append(@, t.next), !.active = t.next, !.next = @ + 1,
              !.frame = IF t.visible THEN t.next ELSE None,
              !.view[t.next] = [NoView EXCEPT !.stage = "listening", !.size = IF t.visible THEN t.panel ELSE 0]]
NewTab == tm.running /\ tm.visible /\ tm.next <= MaxTabs /\ tm' = CreateSession(tm)

\* Both listeners are registered: the shell is asked for, in the size the viewport has by now.
Listening(i) ==
    /\ tm.view[i].stage = "listening"
    /\ tm' = Sent([tm EXCEPT !.view[i].stage = "open"], [kind |-> "create", id |-> i, size |-> tm.view[i].size])

\* fit and terminalResize of a viewport that is shown.
Refit(t, i) == Sent([t EXCEPT !.view[i].size = t.panel], [kind |-> "resize", id |-> i, size |-> t.panel])
\* A mistake the runs must catch: a viewport keeps the size it had when it was hidden.
NeverRefits(t, i) == [t EXCEPT !.frame = None]
\* The frame after a tab was selected or the panel shown.
Refits(t, i) == [Refit(t, i) EXCEPT !.frame = None]
Frame == tm.running /\ tm.frame # None /\ tm' = Refits(tm, tm.frame)

SelectTab(i) ==
    /\ tm.running /\ Has(i) /\ i # Active /\ tm.steps < MaxSteps
    /\ tm' = [tm EXCEPT !.active = i, !.frame = IF tm.visible THEN i ELSE None, !.steps = @ + 1]

\* setBottomOpen and the tabs of plugins: a panel that is shown without a tab opens one.
SetVisible ==
    /\ tm.running /\ tm.steps < MaxSteps
    /\ LET t == [tm EXCEPT !.visible = ~@, !.steps = @ + 1, !.frame = None] IN
       tm' = IF tm.visible THEN t
             ELSE IF tm.tabs # <<>> THEN [t EXCEPT !.frame = Active]
             ELSE IF tm.next <= MaxTabs THEN CreateSession(t) ELSE t

\* The ResizeObserver of the selected viewport; a hidden one has no size and is left alone.
ResizePanel(size) ==
    /\ tm.running /\ tm.steps < MaxSteps /\ size # tm.panel
    /\ LET t == [tm EXCEPT !.panel = size, !.steps = @ + 1] IN
       tm' = IF tm.visible /\ tm.tabs # <<>> THEN Refit(t, Active) ELSE t

TypeKey ==
    /\ tm.running /\ tm.visible /\ tm.tabs # <<>> /\ tm.steps < MaxSteps
    /\ tm.view[Active].stage # "open" => "early typing" \in Races
    /\ tm' = Sent([tm EXCEPT !.steps = @ + 1, !.view[Active].typed = Append(@, tm.steps)],
                  [kind |-> "write", id |-> Active, size |-> tm.steps])

\* handleClose; the viewport's clean-up stops listening and closes the session.
CloseTab(i) ==
    /\ tm.running /\ Has(i)
    /\ LET index == CHOOSE k \in DOMAIN tm.tabs : tm.tabs[k] = i
           left == RemoveAt(tm.tabs, index)
           active == IF tm.active # i THEN tm.active ELSE IF index \in DOMAIN left THEN left[index]
                     ELSE IF left = <<>> THEN None ELSE left[index - 1]
           shown == IF active # None THEN active ELSE IF left = <<>> THEN None ELSE left[1] IN
       tm' = Sent([tm EXCEPT !.tabs = left, !.active = active, !.view[i] = [NoView EXCEPT !.stage = "gone"],
                             !.frame = IF ~tm.visible \/ shown = None THEN None ELSE IF shown # Active THEN shown ELSE @],
                  [kind |-> "close", id |-> i, size |-> 0])

\* The page is loaded anew, without any clean-up.
Reload ==
    /\ tm.running /\ (tm.tabs # <<>> => "reload" \in Races)
    /\ tm' = [tm EXCEPT !.tabs = <<>>, !.active = None, !.frame = None,
                        !.view = [i \in Ids |-> [tm.view[i] EXCEPT !.stage = IF i < tm.next THEN "gone" ELSE @]]]

-----------------------------------------------------------------------------
(* The main thread                                                         *)
\* terminal_create: the thread of the shell starts to read; the shell may fail to start.
TerminalCreate(t, call) ==
    {[t EXCEPT !.hub = @ \cup {call.id}, !.shells[call.id] = [NoShell EXCEPT !.alive = TRUE, !.reading = TRUE, !.size = call.size]]}
    \cup (IF call.id = 1 THEN {[t EXCEPT !.view[call.id].stage = IF @ = "open" THEN "failed" ELSE @]} ELSE {})
\* A mistake the runs must catch: the session goes and its shell stays.
Drops(t, id) == [t EXCEPT !.hub = @ \ {id}]
\* terminal_close
TerminalClose(t, id) == [t EXCEPT !.hub = @ \ {id}, !.shells[id].alive = IF id \in t.hub THEN FALSE ELSE @]

Command ==
    /\ tm.running /\ tm.calls # <<>>
    /\ LET call == Head(tm.calls)
           t == [tm EXCEPT !.calls = Tail(@)] IN
       CASE call.kind = "create" -> tm' \in TerminalCreate(t, call)
         [] call.kind = "close" -> tm' = TerminalClose(t, call.id)
         [] call.kind = "resize" /\ call.id \in tm.hub -> tm' = [t EXCEPT !.shells[call.id].size = call.size]
         [] call.kind = "write" /\ call.id \in tm.hub -> tm' = [t EXCEPT !.shells[call.id].keys = Append(@, call.size)]
         [] OTHER -> tm' = t

\* The window closes: close_all.
Quit ==
    /\ tm.running
    /\ tm' = [tm EXCEPT !.running = FALSE, !.hub = {}, !.tabs = <<>>, !.calls = <<>>, !.events = <<>>, !.frame = None, !.active = None, !.output = 0, !.steps = 0, !.next = 1,
                        !.view = [i \in Ids |-> NoView],
                        !.shells = [i \in Ids |-> [NoShell EXCEPT !.alive = tm.shells[i].alive /\ i \notin tm.hub]]]

-----------------------------------------------------------------------------
(* Shells and the threads that read them                                   *)
Bytes(ch) == IF ch = "e" THEN <<"L", "C">> ELSE <<"C">>
ShellWrites(i, ch) ==
    /\ tm.running /\ tm.shells[i].alive /\ tm.output < MaxOutput
    /\ tm' = [tm EXCEPT !.output = @ + 1, !.shells[i].wrote = Append(@, ch), !.shells[i].piped = @ \o Bytes(ch)]
ShellExits(i) == tm.running /\ tm.shells[i].alive /\ tm' = [tm EXCEPT !.shells[i].alive = FALSE]

\* Utf8Stream: what is decoded, and whether a lead byte waits for its continuation.
Step(d, byte) ==
    IF byte = "L" THEN [text |-> IF d.lead THEN Append(d.text, "x") ELSE d.text, lead |-> TRUE]
    ELSE [text |-> Append(d.text, IF d.lead THEN "e" ELSE "x"), lead |-> FALSE]
\* A mistake the runs must catch: each read is decoded on its own.
PushAlone(lead, bytes) ==
    LET d == FoldLeft(Step, [text |-> <<>>, lead |-> FALSE], bytes) IN
    [text |-> IF d.lead THEN Append(d.text, "x") ELSE d.text, lead |-> FALSE]
Push(lead, bytes) == FoldLeft(Step, [text |-> <<>>, lead |-> lead], bytes)

Event(t, i, kind, text) == [t EXCEPT !.events = Append(@, [id |-> i, kind |-> kind, text |-> text])]
\* A read returns what is there, up to the buffer's size.
ReaderReads(i, n) ==
    /\ tm.running /\ tm.shells[i].reading /\ n <= Len(tm.shells[i].piped)
    /\ LET d == Push(tm.shells[i].lead, SubSeq(tm.shells[i].piped, 1, n))
           t == [tm EXCEPT !.shells[i].piped = SubSeq(@, n + 1, Len(@)), !.shells[i].lead = d.lead] IN
       tm' = IF d.text = <<>> THEN t ELSE Event(t, i, "output", d.text)
\* The end of the output: what is left of a character, then the exit.
ReaderEnds(i) ==
    /\ tm.running /\ tm.shells[i].reading /\ ~tm.shells[i].alive /\ tm.shells[i].piped = <<>>
    /\ LET t == [tm EXCEPT !.shells[i].reading = FALSE, !.shells[i].lead = FALSE] IN
       tm' = Event(IF tm.shells[i].lead THEN Event(t, i, "output", <<"x">>) ELSE t, i, "exit", <<"end">>)

\* The listeners of the tab the event is for; nobody listens for a tab that is gone.
Receive ==
    /\ tm.running /\ tm.events # <<>>
    /\ LET event == Head(tm.events)
           t == [tm EXCEPT !.events = Tail(@)] IN
       tm' = IF Has(event.id) THEN [t EXCEPT !.view[event.id].text = @ \o event.text] ELSE t

Next ==
    \/ NewTab \/ Frame \/ SetVisible \/ TypeKey \/ Reload \/ Command \/ Quit \/ Receive
    \/ \E size \in Sizes : ResizePanel(size)
    \/ \E i \in Ids : Listening(i) \/ SelectTab(i) \/ CloseTab(i) \/ ShellExits(i) \/ ReaderEnds(i)
    \/ \E i \in Ids, ch \in {"e", "x"} : ShellWrites(i, ch)
    \/ \E i \in Ids, n \in 1..2 : ReaderReads(i, n)
Spec == Init /\ [][Next]_tm
-----------------------------------------------------------------------------
\* What is on its way to the page for a tab.
OnItsWay(i) == FlattenSeq([k \in DOMAIN tm.events |-> IF tm.events[k].id = i THEN tm.events[k].text ELSE <<>>])

\* A terminal shows what its shell wrote, whole characters in their order, and the exit after all of it.
OutputIsWhole ==
    \A i \in ToSet(tm.tabs) :
        LET all == tm.view[i].text \o OnItsWay(i)
            said == SelectSeq(all, LAMBDA ch : ch # "end") IN
        /\ IsPrefix(said, tm.shells[i].wrote)
        /\ "end" \in ToSet(all) => said = tm.shells[i].wrote /\ Last(all) = "end"

\* No shell runs on without a tab: there is one, or its end is on the way.
NoOrphans ==
    \A i \in Ids : tm.shells[i].alive =>
        tm.running /\ (Has(i) \/ \E k \in DOMAIN tm.calls : tm.calls[k].kind = "close" /\ tm.calls[k].id = i)

\* The shell of the terminal on show has been told the size of the panel, and got the keys typed.
ShellKnows ==
    LET i == Active IN
    tm.tabs # <<>> /\ tm.visible /\ tm.frame = None /\ tm.calls = <<>> /\ tm.view[i].stage = "open" /\ i \in tm.hub
      => tm.shells[i].size = tm.panel /\ tm.shells[i].keys = tm.view[i].typed

-----------------------------------------------------------------------------
(* Computer use                                                            *)
Screen == 0
Nothing == 99
Idle == [mode |-> "idle", source |-> Nothing, title |-> {}]
NoHelper == [action |-> "none", input |-> <<>>]

ToldApart(titles) == \A w, v \in Windows : titles[w] # {} /\ titles[w] \subseteq titles[v] => w = v
ControlInit ==
    \E titles \in [Windows -> Titles], permission \in {"ask", "read-only", "full-access"} :
    /\ "titles" \in Races \/ ToldApart(titles)
    /\ co = [titles |-> titles, permission |-> permission, session |-> Idle, approved |-> FALSE, last |-> Nothing,
             listed |-> Nothing, start |-> [step |-> "none", source |-> Nothing, mode |-> "observe", title |-> {}],
             helper |-> NoHelper, shot |-> [wanted |-> Nothing, got |-> Nothing], down |-> {}, steps |-> 0]
Counts == co.steps < MaxChanges
Free == (co.helper = NoHelper /\ co.start.step = "none") \/ "parallel calls" \in Races
IsOpen(w) == co.titles[w] # {}

-----------------------------------------------------------------------------
(* The tools                                                               *)
\* sources: every window, and the screen with the bounds of the capture at hand, or else of a new one.
Sources == IF co.last = Nothing THEN Screen ELSE co.last
ListSources ==
    /\ Counts /\ Free
    /\ co' = [co EXCEPT !.steps = @ + 1, !.last = Sources, !.listed = Sources]

\* computer_start: the source must be there, control is of the screen only and never in read-only mode,
\* and is asked for unless the session has full access.
Start(source, mode) ==
    /\ Counts /\ Free /\ co.start.step = "none"
    /\ source = Screen \/ (source \in Windows /\ IsOpen(source))
    /\ LET c == [co EXCEPT !.steps = @ + 1, !.last = Sources]
           ask == [step |-> IF mode = "control" /\ co.permission # "full-access" THEN "asking" ELSE "starts",
                   source |-> source, mode |-> mode, title |-> IF source = Screen THEN {} ELSE co.titles[source]] IN
       co' = IF mode = "control" /\ (source # Screen \/ co.permission = "read-only") THEN c ELSE [c EXCEPT !.start = ask]
Allowed == co.start.step = "asking" /\ co' = [co EXCEPT !.start.step = "starts"]
DeniedByUser == co.start.step = "asking" /\ co' = [co EXCEPT !.start.step = "none", !.start.source = Nothing, !.start.title = {}]
Started ==
    /\ co.start.step = "starts"
    /\ co' = [co EXCEPT !.session = [mode |-> co.start.mode, source |-> co.start.source, title |-> co.start.title],
                        !.approved = co.start.mode = "control",
                        !.start = [step |-> "none", source |-> Nothing, mode |-> "observe", title |-> {}]]
Stop == Counts /\ Free /\ co' = [co EXCEPT !.steps = @ + 1, !.session = Idle, !.approved = FALSE]

\* A mistake the runs must catch: input is allowed in any session.
AnySession(kind) == co.session.mode # "idle"
\* assertSessionAllows
SessionAllows(kind) == co.session.mode # "idle" /\ (kind = "control" => co.session.mode = "control")

Runs(action, input) == co' = [co EXCEPT !.steps = @ + 1, !.helper = [action |-> action, input |-> input]]
\* computer_screenshot and computer_inspect, of the session's own source.
Screenshot == Counts /\ Free /\ SessionAllows("observe") /\ Runs("screenshot", <<>>)

-----------------------------------------------------------------------------
(* The input of an action, one SendInput after the other                   *)
Ev(key, up) == [key |-> key, up |-> up]
\* A mistake the runs must catch: a key after the other, as if each were a combination of its own.
PressEach(modifiers, key) ==
    [i \in 1..Len(modifiers) |-> <<Ev(modifiers[i], FALSE)>>] \o <<<<Ev(key, FALSE), Ev(key, TRUE)>>>>
        \o [i \in 1..Len(modifiers) |-> <<Ev(modifiers[i], TRUE)>>]
\* press_combo: modifiers down in order, the key, modifiers up in reverse, all in one go.
Press(modifiers, key) ==
    <<[i \in 1..Len(modifiers) |-> Ev(modifiers[i], FALSE)] \o <<Ev(key, FALSE), Ev(key, TRUE)>>
        \o [i \in 1..Len(modifiers) |-> Ev(Reverse(modifiers)[i], TRUE)]>>
Click(count) == [i \in 1..count |-> <<Ev("button", FALSE), Ev("button", TRUE)>>]
TypeText(n) == [i \in 1..n |-> <<Ev("char", FALSE), Ev("char", TRUE)>>]
Drag == <<<<Ev("button", FALSE)>>, <<>>, <<Ev("button", TRUE)>>>>
\* The actions of one request; a batch is one action after the other.
Inputs == {Press(<<"ctrl", "shift">>, "k"), Click(2), TypeText(1) \o Press(<<"ctrl">>, "k")} \cup (IF "drag" \in Races THEN {Drag} ELSE {})
Input(input) == Counts /\ Free /\ SessionAllows("control") /\ Runs("input", input)

HeldAfter(down, events) ==
    FoldLeft(LAMBDA held, e : IF e.up THEN held \ {e.key} ELSE held \cup {e.key}, down, events)
HelperSends ==
    /\ co.helper.input # <<>>
    /\ co' = [co EXCEPT !.down = HeldAfter(@, Head(co.helper.input)), !.helper.input = Tail(@)]

\* find_window: the first whose title contains the words asked for.
FindWindow(title) ==
    LET found == {w \in Windows : IsOpen(w) /\ title \subseteq co.titles[w]} IN
    IF found = {} THEN {} ELSE {CHOOSE w \in found : \A v \in found : w <= v}
\* A mistake the runs must catch: whatever window is in front is captured.
Foremost(source, title) == {w \in Windows : IsOpen(w) /\ \A v \in Windows : IsOpen(v) => w <= v}
\* capture_screen: the window of that title, or the whole screen.
Captured(source, title) == IF source \in Windows THEN FindWindow(title) ELSE {Screen}
\* The helper is done; after a click the session's source is captured as well.
HelperEnds ==
    /\ co.helper # NoHelper /\ co.helper.input = <<>>
    /\ LET c == [co EXCEPT !.helper = NoHelper] IN
       IF co.helper.action = "screenshot"
       THEN LET got == Captured(co.session.source, co.session.title) IN
            co' = IF co.session.mode = "idle" \/ got = {} THEN c
                  ELSE [c EXCEPT !.last = CHOOSE w \in got : TRUE,
                                 !.shot = [wanted |-> co.session.source, got |-> CHOOSE w \in got : TRUE]]
       ELSE co' = c

\* The call is aborted or takes too long: the helper is killed.
Cancelled == co.helper # NoHelper /\ co' = [co EXCEPT !.helper = NoHelper]

-----------------------------------------------------------------------------
\* The agent session is unloaded; its last capture goes.
Unloaded == Free /\ co.last # Nothing /\ co' = [co EXCEPT !.last = Nothing]
SetMode(permission) ==
    /\ Counts /\ permission # co.permission
    /\ co.session.mode = "control" \/ co.start.step # "none" => "mode" \in Races
    /\ co' = [co EXCEPT !.steps = @ + 1, !.permission = permission]
\* A window opens, closes or is called something else.
Retitled(w, title) ==
    /\ Counts /\ title # co.titles[w]
    /\ w \in {co.session.source, co.start.source} => "titles" \in Races
    /\ "titles" \in Races \/ ToldApart([co.titles EXCEPT ![w] = title])
    /\ co' = [co EXCEPT !.steps = @ + 1, !.titles[w] = title]

ControlNext ==
    \/ ListSources \/ Allowed \/ DeniedByUser \/ Started \/ Stop \/ Screenshot \/ HelperSends \/ HelperEnds \/ Cancelled \/ Unloaded
    \/ \E source \in Windows \cup {Screen}, mode \in {"observe", "control"} : Start(source, mode)
    \/ \E input \in Inputs : Input(input)
    \/ \E permission \in {"ask", "read-only", "full-access"} : SetMode(permission)
    \/ \E w \in Windows, title \in Titles \cup {{}} : Retitled(w, title)
ControlSpec == ControlInit /\ [][ControlNext]_co
-----------------------------------------------------------------------------
\* Keys and buttons are pressed only in a control session the user has approved, not after it was stopped
\* and not in read-only mode.
InputWasApproved == co.helper.action = "input" => co.approved /\ co.permission # "read-only"
\* Whatever ends an action, no key or button stays down after it.
NothingIsHeld == co.helper = NoHelper => co.down = {}
\* A capture of a session on a window shows that window.
CapturesItsWindow == co.shot.got = co.shot.wanted
\* The screen is listed with the bounds of the screen, which input is aimed with.
ScreenIsListed == co.listed \in {Nothing, Screen}
=============================================================================
