----------------------------- MODULE DesktopPet -----------------------------
(***************************************************************************)
(* The pet: a window of its own that shows what the main window tells it   *)
(* of the tasks, and opens them.  The main window makes the list of        *)
(* activities and sends it; the pet's window keeps what it was last told,  *)
(* takes clicks, presses and drags, and fits its size to what it shows     *)
(* while it stays where the user has put it.                               *)
(***************************************************************************)
EXTENDS Naturals, Sequences, FiniteSets, SequencesExt, FiniteSetsExt

CONSTANTS Tasks,        \* sessions with a file
          MaxItems,     \* activities listed at most
          Area,         \* the width of the work area, of which the collapsed pet takes one
          MaxOps,
          Races         \* what this instance admits of "early", "unsaved", "failing save", "touch", "emptied", "native drag", "quick"

VARIABLE pet

NoTask == "none"
New == "new"                       \* a task whose session has no file yet
Statuses == <<"needs-input", "blocked", "ready", "running">>
Priority(status) == CHOOSE k \in DOMAIN Statuses : Statuses[k] = status
Size(panel) == CASE panel = "none" -> 1 [] panel = "menu" -> 2 [] panel = "activity" -> 3

-----------------------------------------------------------------------------
(* What there is to tell                                                   *)
\* The key is the session's file, or else the folder and the title, which are of different origin.
Item(task, key, status, at, notice) == [task |-> task, key |-> key, status |-> status, at |-> at, notice |-> notice]
OfNotices(x) == {Item(n.of, n.of, IF n.kind = "completion" THEN "ready" ELSE "needs-input", n.at, TRUE) : n \in x.notices}
OfRuntimes(x) ==
    {Item(t, IF t = New THEN "folder" ELSE t, IF x.runs[t].is = "asks" THEN "needs-input" ELSE "running", x.runs[t].at, FALSE)
        : t \in {u \in DOMAIN x.runs : x.runs[u].is \in {"asks", "streaming", "starting"}}}
\* currentPetActivity: what is on screen, of which alone a stop or a retry is told.
CurrentStatus(x) ==
    CASE x.runs[x.shown].is = "asks" -> "needs-input"
      [] x.runs[x.shown].is \in {"exited", "retries"} -> "blocked"
      [] x.runs[x.shown].is \in {"streaming", "starting"} -> "running"
      [] OTHER -> "nothing"
Current(x) ==
    IF x.shown = NoTask \/ CurrentStatus(x) = "nothing" THEN {}
    ELSE {Item(x.shown, IF x.shown = New THEN "title" ELSE x.shown, CurrentStatus(x), x.runs[x.shown].at, FALSE)}
Before(a, b) ==
    \/ Priority(a.status) < Priority(b.status)
    \/ a.status = b.status /\ a.at > b.at
\* buildPetActivities
Candidates(x) == OfNotices(x) \cup OfRuntimes(x) \cup Current(x)
OnePerKey(items) == {CHOOSE i \in items : i.key = key /\ ~\E j \in items : j.key = key /\ Before(j, i)
                        : key \in {i.key : i \in items}}
Activities(x) ==
    LET all == SetToSortSeq(OnePerKey(Candidates(x)), Before)
    IN SubSeq(all, 1, IF Len(all) < MaxItems THEN Len(all) ELSE MaxItems)
Payload(x) == [enabled |-> x.enabled, items |-> Activities(x)]

Quiet == [is |-> "quiet", at |-> 0]
NoEffect == [at |-> "none", payload |-> <<>>]
NoPress == [down |-> FALSE, touch |-> FALSE, moved |-> FALSE, held |-> FALSE]

Init ==
    pet = [runs |-> [t \in Tasks \cup {New} |-> Quiet], notices |-> {}, shown |-> NoTask, enabled |-> TRUE, saving |-> FALSE, now |-> 0,
           rendered |-> <<>>, effect |-> NoEffect, stored |-> [enabled |-> TRUE, items |-> <<>>],
           window |-> "closed", visible |-> FALSE, wire |-> <<>>, told |-> [enabled |-> TRUE, items |-> <<>>],
           hiding |-> FALSE, asks |-> <<>>,
           press |-> NoPress, ignore |-> FALSE, click |-> "none", menu |-> FALSE, tray |-> FALSE,
           corner |-> Area, size |-> Size("none"), resizes |-> <<>>, nudges |-> <<>>, home |-> Area, fitted |-> "none", ops |-> 0]

Op(x) == [x EXCEPT !.ops = @ + 1]
CanOp == pet.ops < MaxOps
Told == pet.window # "opened" \/ "early" \in Races
-----------------------------------------------------------------------------
(* The main window                                                         *)
\* What becomes of a task: it starts, runs, asks, stops, ends.
Becomes(t, is) ==
    /\ CanOp /\ Told /\ pet.runs[t].is # is
    /\ t = New => is \in {"starting", "quiet"} /\ (is = "starting" => pet.shown # New \/ "unsaved" \in Races)
    /\ LET x == [pet EXCEPT !.runs[t] = [is |-> is, at |-> pet.now + 1], !.now = @ + 1]
       IN pet' = Op(x)
\* The end of a run that is not on screen is notified.
Notified(t, kind) ==
    /\ CanOp /\ Told /\ t # New /\ pet.shown # t
    /\ pet' = Op([pet EXCEPT !.notices = @ \cup {[of |-> t, kind |-> kind, at |-> pet.now + 1]}, !.now = @ + 1,
                             !.runs[t] = [is |-> IF kind = "completion" THEN "quiet" ELSE "asks", at |-> pet.now + 1]])
\* The task on screen has no notifications.
Seen(x, t) == [x EXCEPT !.shown = t, !.notices = {n \in @ : n.of # t}]
Show(t) ==
    /\ CanOp /\ Told /\ pet.shown # t /\ (t = New => pet.runs[New].is = "quiet" \/ "unsaved" \in Races)
    /\ pet' = Op(Seen(pet, t))
\* The switch in the settings, which nobody turns while it is being turned, or before it is drawn.
SetEnabled(on) ==
    /\ CanOp /\ Told /\ pet.enabled # on /\ ~pet.hiding /\ ~pet.saving /\ pet.rendered = Payload(pet)
    /\ pet' = Op([pet EXCEPT !.enabled = on])

\* The effect: a payload is stored at once, and the one before it is cancelled.
Render ==
    /\ Payload(pet) # pet.rendered
    /\ pet' = [pet EXCEPT !.rendered = Payload(pet), !.stored = Payload(pet), !.effect = [at |-> "finding", payload |-> Payload(pet)]]
Emit ==
    /\ pet.effect.at = "finding"
    /\ pet' = [pet EXCEPT !.effect.at = "emitted", !.wire = Append(@, pet.effect.payload)]
ShowOrHide ==
    /\ pet.effect.at = "emitted"
    /\ pet' = [pet EXCEPT !.effect = NoEffect, !.visible = pet.effect.payload.enabled]
\* A click of the pet on an activity, and its request to be hidden.
MainHears ==
    /\ pet.asks # <<>>
    /\ LET ask == Head(pet.asks)
           rest == [pet EXCEPT !.asks = Tail(@)]
       IN pet' = CASE ask = "disable" -> [rest EXCEPT !.saving = pet.enabled]
                   [] ask = New -> rest
                   [] OTHER -> Seen(rest, ask)
SavesDisabled == pet.saving /\ pet' = [pet EXCEPT !.saving = FALSE, !.enabled = FALSE]
SaveFails == pet.saving /\ "failing save" \in Races /\ pet' = [pet EXCEPT !.saving = FALSE]

-----------------------------------------------------------------------------
(* The pet's window                                                        *)
\* It begins with what is stored, and listens some time later.
Open ==
    /\ pet.window = "closed" /\ (pet.rendered = Payload(pet) \/ "early" \in Races)
    /\ pet' = [pet EXCEPT !.window = "opened", !.told = pet.stored]
Listen == pet.window = "opened" /\ pet' = [pet EXCEPT !.window = "listening"]
Hear ==
    /\ pet.wire # <<>>
    /\ LET items == Head(pet.wire).items
       IN /\ (items # <<>> \/ "emptied" \in Races \/ ~(pet.tray \/ pet.click = "activities"))
          /\ pet' = [pet EXCEPT !.wire = Tail(@), !.told = IF pet.window = "listening" THEN Head(pet.wire) ELSE @]
Alive == pet.window = "listening" /\ pet.visible
CanAct == CanOp /\ Alive

\* The panel decides on the window's size: what a change of it sets going.
Panel(x) == IF x.tray THEN "activity" ELSE IF x.menu THEN "menu" ELSE "none"
ReadAt(x, panel, resets) == Append(x.resizes, [panel |-> panel, at |-> "reading", x |-> 0, resets |-> resets])
Fit == Panel(pet) # pet.fitted /\ pet' = [pet EXCEPT !.fitted = Panel(pet), !.resizes = ReadAt(pet, Panel(pet), FALSE)]
Calm(x) == x.resizes = <<>> /\ x.nudges = <<>> /\ x.fitted = Panel(x)
MayFit == Calm(pet) \/ "quick" \in Races

BeginDrag(touch) ==
    CanAct /\ ~pet.press.down /\ pet' = Op([pet EXCEPT !.press = [NoPress EXCEPT !.down = TRUE, !.touch = touch]])
\* The system moves the window from here on.
ContinueDrag(to) ==
    /\ Alive /\ pet.press.down /\ ~pet.press.moved /\ MayFit
    /\ to # pet.home /\ Panel(pet) = "none"
    /\ pet' = [pet EXCEPT !.press.moved = TRUE, !.ignore = TRUE, !.menu = FALSE, !.tray = FALSE, !.corner = to, !.home = to]
LongPress ==
    /\ Alive /\ pet.press.down /\ pet.press.touch /\ ~pet.press.moved /\ ~pet.press.held /\ MayFit
    /\ ~pet.tray \/ "touch" \in Races
    /\ pet' = [pet EXCEPT !.press.held = TRUE, !.ignore = TRUE, !.menu = TRUE]
\* schedulePrimaryAction, with the activities as they are drawn at the click.
Clicked(x) ==
    IF x.ignore THEN [x EXCEPT !.ignore = FALSE]
    ELSE [x EXCEPT !.click = IF x.told.items # <<>> THEN "activities" ELSE "nothing"]
\* finishDrag, and the click that follows unless the system has kept the release to itself.
FinishDrag(clicks) ==
    /\ Alive /\ pet.press.down /\ (clicks \/ (pet.press.moved /\ "native drag" \in Races))
    /\ LET up == [pet EXCEPT !.press = NoPress] IN pet' = IF clicks THEN Clicked(up) ELSE up
PrimaryAction ==
    /\ Alive /\ pet.click # "none" /\ MayFit
    /\ pet' = IF pet.click = "activities" THEN [pet EXCEPT !.click = "none", !.menu = FALSE, !.tray = ~@]
              ELSE [pet EXCEPT !.click = "none", !.menu = FALSE, !.tray = FALSE]
Closed(x) == [x EXCEPT !.menu = FALSE, !.tray = FALSE]
Jump == Alive /\ pet.click # "none" /\ MayFit /\ pet' = [Closed(pet) EXCEPT !.click = "none"]
ContextMenu == CanAct /\ ~pet.press.down /\ MayFit /\ pet' = Op([pet EXCEPT !.menu = ~@, !.tray = FALSE])
Escape == Alive /\ (pet.menu \/ pet.tray) /\ MayFit /\ pet' = Closed(pet)
OpenActivity(k) ==
    /\ CanAct /\ pet.tray /\ MayFit
    /\ pet' = Op([pet EXCEPT !.tray = FALSE, !.asks = Append(@, pet.told.items[k].task)])
HidePet ==
    /\ CanAct /\ pet.menu /\ ~pet.hiding /\ MayFit
    /\ pet' = Op([Closed(pet) EXCEPT !.hiding = TRUE, !.asks = Append(@, "disable")])
Hides == pet.hiding /\ pet' = [pet EXCEPT !.hiding = FALSE, !.visible = FALSE]

\* resizePetWindow: the position and size are read, then the size is set, then the position.
Clamped(x, size) == IF x > Area - size THEN Area - size ELSE x
ResizeReads(k) ==
    /\ pet.resizes[k].at = "reading"
    /\ LET r == pet.resizes[k]
           left == pet.corner - Size(r.panel)
           done == IF r.resets THEN [pet EXCEPT !.resizes[k].at = "placing", !.resizes[k].x = Area - Size("none")]
                   ELSE [pet EXCEPT !.resizes = RemoveAt(@, k)]
       IN pet' = IF pet.size = Size(r.panel) THEN done
                 ELSE [pet EXCEPT !.resizes[k].at = "sizing",
                                  !.resizes[k].x = Clamped(IF pet.corner < Size(r.panel) THEN 0 ELSE left, Size(r.panel))]
ResizeSets(k) ==
    /\ pet.resizes[k].at = "sizing"
    /\ LET size == Size(pet.resizes[k].panel)
       IN pet' = [pet EXCEPT !.resizes[k].at = "moving", !.size = size, !.corner = (pet.corner - pet.size) + size]
Placed(x, left) == [x EXCEPT !.corner = left + x.size]
ResizeMoves(k) ==
    /\ pet.resizes[k].at = "moving"
    /\ LET moved == Placed(pet, pet.resizes[k].x)
       IN pet' = IF pet.resizes[k].resets THEN [moved EXCEPT !.resizes[k].at = "placing", !.resizes[k].x = Area - Size("none")]
                 ELSE [moved EXCEPT !.resizes = RemoveAt(@, k)]
\* resetPosition collapses the window itself, beside what closing the menu sets going.
ResetPosition ==
    /\ CanAct /\ pet.menu /\ MayFit
    /\ pet' = Op([Closed(pet) EXCEPT !.resizes = ReadAt(pet, "none", TRUE), !.home = Area])
ResetPlaces(k) ==
    /\ pet.resizes[k].at = "placing" /\ (Len(pet.resizes) = 1 \/ "quick" \in Races) /\ (pet.fitted = Panel(pet) \/ "quick" \in Races)
    /\ pet' = [Placed(pet, pet.resizes[k].x) EXCEPT !.resizes = RemoveAt(@, k)]
\* nudgeWindow
Nudge(by) ==
    /\ CanAct /\ MayFit /\ by.from = pet.home
    /\ pet' = Op([pet EXCEPT !.nudges = Append(@, [by |-> by.to, from |-> by.from, at |-> "reading", x |-> 0]), !.home = by.to])
NudgeReads(k) ==
    pet.nudges[k].at = "reading" /\ pet' = [pet EXCEPT !.nudges[k].at = "moving", !.nudges[k].x = pet.corner - pet.size]
NudgeMoves(k) ==
    /\ pet.nudges[k].at = "moving"
    /\ LET n == pet.nudges[k]
           to == (n.x + n.by) - n.from
       IN pet' = [Placed(pet, to) EXCEPT !.nudges = RemoveAt(@, k)]

\* Where there is room for every panel.
Places == Size("activity")..Area
Next ==
    \/ \E t \in Tasks \cup {New} :
          \/ \E is \in {"quiet", "starting", "streaming", "asks", "exited", "retries"} : Becomes(t, is)
          \/ \E kind \in {"completion", "request"} : Notified(t, kind)
          \/ Show(t)
    \/ Show(NoTask)
    \/ \E b \in BOOLEAN : SetEnabled(b) \/ BeginDrag(b) \/ FinishDrag(b)
    \/ Render \/ Emit \/ ShowOrHide \/ MainHears \/ SavesDisabled \/ SaveFails
    \/ Open \/ Listen \/ Hear \/ Fit \/ LongPress \/ PrimaryAction \/ Jump \/ ContextMenu \/ Escape \/ HidePet \/ Hides \/ ResetPosition
    \/ \E k \in DOMAIN pet.told.items : OpenActivity(k)
    \/ \E to \in Places : ContinueDrag(to)
    \/ \E k \in DOMAIN pet.resizes : ResizeReads(k) \/ ResizeSets(k) \/ ResizeMoves(k) \/ ResetPlaces(k)
    \/ \E from, to \in Places : (from + 1 = to \/ to + 1 = from) /\ Nudge([from |-> from, to |-> to])
    \/ \E k \in DOMAIN pet.nudges : NudgeReads(k) \/ NudgeMoves(k)
Spec == Init /\ [][Next]_pet
-----------------------------------------------------------------------------
\* A task has one activity, however many sources tell of it, and what waits for the user comes first.
OneActivityEach == \A i, j \in DOMAIN Activities(pet) : Activities(pet)[i].task = Activities(pet)[j].task => i = j
WaitingIsFirst ==
    (\E t \in Tasks : pet.runs[t].is = "asks") => Activities(pet)[1].status = "needs-input"

\* At rest the pet's window shows what the main window would tell it, and is there when the settings say so.
AtRest == /\ pet.window = "listening" /\ pet.effect = NoEffect /\ pet.wire = <<>> /\ pet.rendered = Payload(pet)
          /\ pet.asks = <<>> /\ ~pet.saving /\ ~pet.hiding
PetIsTold == AtRest => pet.told = Payload(pet) /\ pet.visible = pet.enabled

\* A press that neither moves nor lasts is a click that acts.
PressActs == pet.press.down /\ ~pet.press.moved /\ ~pet.press.held => ~pet.ignore

\* The menu and the tray are not drawn over each other.
OnePanel == ~(pet.menu /\ pet.tray)

\* The window fits what it shows, and the pet stands where the user has put it.
PetStays == Calm(pet) /\ pet.window = "listening" => pet.size = Size(Panel(pet)) /\ pet.corner = pet.home

\* The tray is drawn when the user asks for it, not because an activity comes.
Drawn(x) == x.tray /\ x.told.items # <<>>
TrayIsAsked == ~Drawn(pet) /\ Drawn(pet') => pet'.tray # pet.tray
Asked == [][TrayIsAsked]_pet
=============================================================================
