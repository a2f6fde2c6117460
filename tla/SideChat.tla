------------------------------ MODULE SideChat ------------------------------
(***************************************************************************)
(* The side chat of the workbench (SideChatPanel.tsx), a runtime on a      *)
(* hidden fork of the conversation on screen, and the two things it is     *)
(* made of that the task on screen uses as well: the composer              *)
(* (Composer.tsx, ModelPicker.tsx) and the questions of the Host           *)
(* (ExtensionDialog.tsx).  Three machines, each with a variable.           *)
(*                                                                         *)
(* sc   the workbench (right, tab, visited) and the conversation; the      *)
(*      panel mounted, if any (chat), the starts and the stops under way;  *)
(*      the adapter's runtimes (live, and those it takes for running, rt); *)
(*      the Host's forks; the calls on their way to it and, in "wire",     *)
(*      its answers and events on their way back.  Texts and attachments   *)
(*      are numbered as they are made; "got" are those the Host has taken. *)
(* cm   the composer: an @ mention and its results, and the mode, model    *)
(*      and thinking level it shows, against those of the session          *)
(* qd   the question shown, and how far its answer is                      *)
(***************************************************************************)
EXTENDS Naturals, Sequences, FiniteSets, SequencesExt

CONSTANTS Conversations,
          MaxMounts,   \* panels and starts of one
          MaxOps,      \* what the user does, the Host asks and the connection suffers
          Queries, Modes,
          AskTypes,    \* the questions of a batch
          Races    \* what this instance admits of "away", "typed", "attached", "late refusal", "cut off",
                   \* "two questions", "withdrawn", "fast keys", "other mode", "drawn again", "tab",
                   \* "attach fails"

VARIABLES sc, cm, qd

-----------------------------------------------------------------------------
(* The workbench, and what a side chat starts and stops                    *)
NoChat ==
    [n |-> 0, of |-> "none", phase |-> "none", held |-> 0, streaming |-> FALSE, text |-> 0, files |-> {},
     loading |-> 0, given |-> {}, ask |-> 0]
Fresh(n, conv) == [NoChat EXCEPT !.n = n, !.of = conv, !.phase = "starting"]
Init ==
    sc = [conv |-> CHOOSE c \in Conversations : TRUE, right |-> FALSE, tab |-> "files", visited |-> FALSE,
          n |-> 0, chat |-> NoChat, jobs |-> {}, stops |-> {}, live |-> {}, rt |-> {}, forks |-> <<>>,
          online |-> TRUE, calls |-> <<>>, wire |-> <<>>, made |-> 0, asked |-> 0, got |-> {}, ops |-> 0]

\* A mistake the runs must catch: a side chat is stopped as a task is.
StoppingOnly(m, f, n) == [m EXCEPT !.live = @ \ {f}, !.rt = @ \ {f}]
\* agent.stop: the runtime goes from the adapter; the fork is aborted and deleted, if there is a connection.
Stopping(m, f, n) ==
    LET gone == [m EXCEPT !.live = @ \ {f}, !.rt = @ \ {f}] IN
    IF m.online THEN [gone EXCEPT !.stops = @ \cup {[fork |-> f, n |-> n, step |-> "abort"]}] ELSE gone
Starting(m) ==
    [m EXCEPT !.n = @ + 1, !.jobs = @ \cup {[n |-> m.n + 1, of |-> m.conv, step |-> "fork", fork |-> 0]}]
Mounted(m) == m.right /\ (m.visited \/ m.tab = "side")
Left(m) == [(IF m.chat.held = 0 THEN m ELSE Stopping(m, m.chat.held, m.chat.n)) EXCEPT !.chat = NoChat]
\* The panel is keyed by the conversation: another one is another panel.
Rendered(m) ==
    LET left == IF m.chat # NoChat /\ (~Mounted(m) \/ m.chat.of # m.conv) THEN Left(m) ELSE m IN
    IF Mounted(left) /\ left.chat = NoChat
    THEN [Starting(left) EXCEPT !.chat = Fresh(left.n + 1, left.conv)] ELSE left

\* A panel that goes while there is no connection leaves its fork.
MayDo == sc.ops < MaxOps
MayMove == /\ MayDo /\ sc.n < MaxMounts
           /\ sc.online \/ "away" \in Races \/ sc.chat.held = 0
Moved(m) == sc' = [Rendered(m) EXCEPT !.ops = @ + 1]
OpenTab(tab) ==
    /\ MayMove /\ (~sc.right \/ sc.tab # tab)
    /\ Moved([sc EXCEPT !.right = TRUE, !.tab = tab, !.visited = @ \/ tab = "side"])
SetRight ==
    MayMove /\ Moved([sc EXCEPT !.right = ~@])
Select(conv) ==
    /\ MayMove /\ conv # sc.conv
    /\ Moved([sc EXCEPT !.conv = conv, !.visited = @ /\ sc.tab = "side"])
Restart ==
    /\ sc.chat.phase = "error" /\ sc.n < MaxMounts /\ MayDo
    /\ sc' = [Starting(sc) EXCEPT !.chat.n = sc.n + 1, !.chat.phase = "starting", !.chat.files = {},
                                  !.chat.given = @ \ sc.chat.files, !.ops = @ + 1]

\* The start of a side chat: session.fork, session.subscribe, then session.get and the models.
Current(j) == sc.chat.n = j.n
Without(m, j) == [m EXCEPT !.jobs = @ \ {j}]
Stepped(m, j, step, f) == [m EXCEPT !.jobs = (@ \ {j}) \cup {[j EXCEPT !.step = step, !.fork = f]}]
Fork(j) ==
    LET f == Len(sc.forks) + 1 IN
    /\ j \in sc.jobs /\ j.step = "fork" /\ sc.online
    /\ sc' = [Stepped(sc, j, "attach", f) EXCEPT
                  !.forks = Append(@, [of |-> j.of, there |-> TRUE, running |-> FALSE, asks |-> {}]),
                  !.live = @ \cup {f}]
Attach(j) ==
    /\ j \in sc.jobs /\ j.step = "attach" /\ sc.online
    /\ sc' = IF Current(j) THEN [Stepped(sc, j, "read", j.fork) EXCEPT !.chat.held = j.fork]
             ELSE Stopping(Without(sc, j), j.fork, j.n)
Read(j) ==
    /\ j \in sc.jobs /\ j.step = "read" /\ sc.online
    /\ sc' = IF Current(j) THEN [Without(sc, j) EXCEPT !.chat.phase = "ready"] ELSE Without(sc, j)
\* What a start that fails has made so far is stopped, once the panel holds it.
Failed(m, j) ==
    LET out == Without(m, j) IN
    IF ~Current(j) THEN out
    ELSE IF j.step # "read" THEN [out EXCEPT !.chat.phase = "error"]
    ELSE [Stopping(out, j.fork, j.n) EXCEPT !.chat.held = 0, !.chat.phase = IF m.online THEN @ ELSE "error"]
\* A fork that cannot be subscribed to stays, and so does its runtime: the panel never learns of them.
StartFails(j) ==
    /\ j \in sc.jobs /\ (j.step # "attach" \/ "attach fails" \in Races)
    /\ sc' = Failed(sc, j)

Sent(m, msg) == [m EXCEPT !.wire = Append(@, msg)]
Ended(m, f) ==
    LET idle == [m EXCEPT !.forks[f].running = FALSE, !.forks[f].asks = {}]
    IN IF m.forks[f].running THEN Sent(idle, [kind |-> "end", fork |-> f]) ELSE idle
StopSide(s) ==
    /\ s \in sc.stops /\ sc.online
    /\ \/ /\ s.step = "abort" /\ \A c \in ToSet(sc.calls) : c.fork # s.fork
          /\ sc' = [Ended(sc, s.fork) EXCEPT !.stops = (@ \ {s}) \cup {[s EXCEPT !.step = "delete"]}]
       \/ /\ s.step = "delete"
          /\ sc' = [sc EXCEPT !.stops = @ \ {s}, !.forks[s.fork].there = sc.forks[s.fork].running,
                              !.chat = IF @.n = s.n THEN [@ EXCEPT !.phase = "error"] ELSE @]

-----------------------------------------------------------------------------
(* What is sent, and what comes back                                       *)
Ready == sc.chat.phase = "ready"
InFlight(m) == [i \in DOMAIN SelectSeq(m.wire, LAMBDA w : w.kind = "answer") |->
                    SelectSeq(m.wire, LAMBDA w : w.kind = "answer")[i].call] \o m.calls
Type ==
    /\ Ready /\ MayDo /\ sc.chat.text = 0
    /\ InFlight(sc) = <<>> \/ "typed" \in Races
    /\ sc' = [sc EXCEPT !.ops = @ + 1, !.made = @ + 1, !.chat.text = sc.made + 1, !.chat.given = @ \cup {sc.made + 1}]
\* Files are read before they are attached, whatever is sent meanwhile.
PickFile ==
    /\ Ready /\ MayDo /\ sc.chat.loading = 0
    /\ sc' = [sc EXCEPT !.ops = @ + 1, !.made = @ + 1, !.chat.loading = sc.made + 1]
FileRead ==
    /\ sc.chat.loading # 0
    /\ \/ sc' = [sc EXCEPT !.chat.loading = 0, !.chat.files = @ \cup {sc.chat.loading},
                           !.chat.given = @ \cup {sc.chat.loading}]
       \/ sc' = [sc EXCEPT !.chat.loading = 0]
RemoveFile ==
    \E f \in sc.chat.files :
        sc' = [sc EXCEPT !.chat.files = @ \ {f}, !.chat.given = @ \ {f}]

\* The composer empties itself, the panel its attachments; a refusal puts the text back.
Refused(m, call) ==
    IF m.chat.n # call.n THEN m
    ELSE IF call.kind = "abort" THEN [m EXCEPT !.chat.streaming = FALSE]
    ELSE IF call.kind = "respond" THEN m
    ELSE [m EXCEPT !.chat.streaming = call.was, !.chat.text = call.text]
Call(kind) ==
    [kind |-> kind, n |-> sc.chat.n, fork |-> sc.chat.held, text |-> sc.chat.text, files |-> sc.chat.files,
     was |-> sc.chat.streaming]
Submit ==
    LET call == Call(IF sc.chat.streaming THEN "queue" ELSE "prompt")
        emptied == [sc EXCEPT !.chat.text = 0, !.chat.files = {}, !.chat.streaming = TRUE] IN
    /\ Ready /\ (sc.chat.text # 0 \/ sc.chat.files # {})
    /\ sc.chat.streaming \/ InFlight(sc) = <<>> \/ "late refusal" \in Races
    /\ IF sc.online THEN sc' = [emptied EXCEPT !.calls = Append(@, call)]
       ELSE /\ sc.chat.files = {} \/ "attached" \in Races
            /\ sc' = Refused(emptied, call)
Stop ==
    /\ Ready /\ sc.chat.streaming /\ MayDo
    /\ IF sc.online THEN sc' = [sc EXCEPT !.ops = @ + 1, !.calls = Append(@, Call("abort"))]
       ELSE "cut off" \in Races /\ sc' = Refused(sc, Call("abort"))
Respond ==
    /\ sc.chat.ask # 0 /\ (sc.online \/ "withdrawn" \in Races)
    /\ sc' = [sc EXCEPT !.chat.ask = 0,
                        !.calls = IF sc.online THEN Append(@, [Call("respond") EXCEPT !.text = sc.chat.ask]) ELSE @]

\* session.prompt, steer, followUp and abort, and ui.respond; what is queued behind no run begins one.
Answered(m, call, ok) == Sent(m, [kind |-> "answer", call |-> call, ok |-> ok])
Taken(m, call) == [m EXCEPT !.got = @ \cup call.files \cup ({call.text} \ {0})]
Serve ==
    LET call == Head(sc.calls)
        m == [sc EXCEPT !.calls = Tail(@)]
        f == sc.forks[call.fork]
        begun == Sent([m EXCEPT !.forks[call.fork].running = TRUE], [kind |-> "start", fork |-> call.fork])
        mayRefuse == /\ call.kind = "queue" => "late refusal" \in Races
                     /\ call.files # {} => "attached" \in Races IN
    /\ sc.calls # <<>> /\ sc.online
    /\ \/ /\ call.kind = "abort" /\ (f.asks = {} \/ "withdrawn" \in Races)
          /\ sc' = Answered(Ended(m, call.fork), call, TRUE)
       \/ call.kind = "respond" /\ sc' = Answered([m EXCEPT !.forks[call.fork].asks = @ \ {call.text}], call, TRUE)
       \/ call.kind = "queue" /\ f.running /\ sc' = Answered(Taken(m, call), call, TRUE)
       \/ call.kind \in {"prompt", "queue"} /\ ~f.running /\ sc' = Answered(Taken(begun, call), call, TRUE)
       \/ /\ call.kind \in {"prompt", "queue"} /\ ~(call.kind = "queue" /\ f.running) /\ mayRefuse
          /\ sc' = Answered(m, call, FALSE)

Running(f) == sc.forks[f].running
Ask(f) ==
    /\ f \in DOMAIN sc.forks /\ Running(f) /\ MayDo /\ sc.online
    /\ sc.forks[f].asks = {} \/ "two questions" \in Races
    /\ sc' = Sent([sc EXCEPT !.ops = @ + 1, !.asked = @ + 1, !.forks[f].asks = @ \cup {sc.asked + 1}],
                  [kind |-> "ask", fork |-> f, id |-> sc.asked + 1])
RunEnds(f) ==
    /\ f \in DOMAIN sc.forks /\ Running(f) /\ sc.forks[f].asks = {}
    /\ sc' = IF sc.online THEN Ended(sc, f) ELSE [sc EXCEPT !.forks[f].running = FALSE]

Told(m, f, running) ==
    [m EXCEPT !.rt = IF running THEN @ \cup ({f} \cap m.live) ELSE @ \ {f},
              !.chat = IF @.held = f THEN [@ EXCEPT !.streaming = running] ELSE @]
Arrive ==
    LET w == Head(sc.wire)
        m == [sc EXCEPT !.wire = Tail(@)] IN
    /\ sc.wire # <<>>
    /\ sc' = CASE w.kind \in {"start", "end"} -> Told(m, w.fork, w.kind = "start")
               [] w.kind = "ask" -> IF m.chat.held = w.fork
                                    THEN [m EXCEPT !.chat.ask = w.id] ELSE m
               [] w.kind = "answer" -> IF ~w.ok \/ w.call.kind = "abort" THEN Refused(m, w.call) ELSE m

\* The connection goes, with or without the Host: calls without an answer fail, in their order.
Lose ==
    \E dies \in BOOLEAN :
        LET cut == [sc EXCEPT !.online = FALSE, !.wire = <<>>, !.calls = <<>>, !.stops = {}, !.ops = @ + 1,
                              !.forks = [f \in DOMAIN @ |-> IF dies THEN [@[f] EXCEPT !.running = FALSE, !.asks = {}]
                                                            ELSE @[f]]]
            refused == FoldLeft(Refused, cut, InFlight(sc)) IN
        /\ sc.online /\ MayDo
        /\ (sc.jobs = {} /\ sc.stops = {}) \/ "away" \in Races
        /\ InFlight(sc) = <<>> \/ "cut off" \in Races
        /\ (\A f \in DOMAIN sc.forks : sc.forks[f].asks = {}) \/ "withdrawn" \in Races
        /\ sc' = FoldSet(LAMBDA j, m : Failed(m, j), refused, sc.jobs)
\* Runtimes that ran and do so no more have their turn ended.
Back ==
    /\ ~sc.online
    /\ sc' = LET on == [sc EXCEPT !.online = TRUE, !.rt = {f \in sc.live : Running(f)}] IN
             IF sc.chat.held \in sc.rt \ on.rt THEN [on EXCEPT !.chat.streaming = FALSE] ELSE on

Next ==
    \/ \E tab \in {"side", "files"} : OpenTab(tab)
    \/ SetRight \/ Restart
    \/ \E conv \in Conversations : Select(conv)
    \/ \E j \in sc.jobs : Fork(j) \/ Attach(j) \/ Read(j) \/ StartFails(j)
    \/ \E s \in sc.stops : StopSide(s)
    \/ Type \/ PickFile \/ FileRead \/ RemoveFile \/ Submit \/ Stop \/ Respond
    \/ Serve \/ Arrive \/ Lose \/ Back
    \/ \E f \in DOMAIN sc.forks : Ask(f) \/ RunEnds(f)

Quiet == sc.online /\ sc.calls = <<>> /\ sc.wire = <<>>
\* A fork is there for the panel that holds it, or while it is started or stopped.
ForksAreHeld ==
    \A f \in DOMAIN sc.forks : sc.forks[f].there =>
        sc.chat.held = f \/ (\E j \in sc.jobs : j.fork = f) \/ (\E s \in sc.stops : s.fork = f)
\* The side chat on screen is of the conversation on screen, and so is the fork it runs on.
ChatIsOfConversation == sc.chat # NoChat => sc.chat.of = sc.conv /\ (sc.chat.held # 0 => sc.forks[sc.chat.held].of = sc.conv)
\* What is written or attached is in the composer, on its way, or with the Host; and there only.
KeepsInput ==
    LET calls == {c \in ToSet(InFlight(sc)) : c.n = sc.chat.n} IN
    /\ sc.chat.given \subseteq sc.got \cup {sc.chat.text} \cup sc.chat.files \cup UNION {{c.text} \cup c.files : c \in calls}
    /\ calls = {} => ({sc.chat.text} \cup sc.chat.files) \cap sc.got = {}
\* With nothing on its way, the panel shows a run when there is one, and the question the run waits for.
StreamingIsTrue == Quiet /\ Ready => sc.chat.streaming = Running(sc.chat.held)
DialogIsAsked == Quiet /\ sc.chat.held # 0 => sc.forks[sc.chat.held].asks = {sc.chat.ask} \ {0}

-----------------------------------------------------------------------------
(* The composer                                                            *)
NoResults == [of |-> "none", there |-> FALSE]
ComposerInit ==
    \E default \in Modes, own \in IF "other mode" \in Races THEN Modes \cup {"none"} ELSE {"none"} :
        cm = [mention |-> "none", hidden |-> FALSE, results |-> NoResults, search |-> "none",
              chosen |-> [of |-> "none", from |-> "none"],
              default |-> default, session |-> [mode |-> own, model |-> "m1", level |-> "off"],
              shown |-> [mode |-> default, model |-> "m1", level |-> "off"],
              previous |-> "m1", switching |-> FALSE, streaming |-> FALSE, calls |-> <<>>, answers |-> <<>>, ops |-> 0]

Does(m) == cm.ops < MaxOps /\ cm' = [m EXCEPT !.ops = @ + 1]
MenuOpen(m) == m.mention # "none" /\ ~m.hidden
\* Another query gives up the search before it; only a menu that closes forgets what was found.
Searching(m) ==
    IF MenuOpen(m) THEN [m EXCEPT !.search = m.mention] ELSE [m EXCEPT !.search = "none", !.results = NoResults]
Mention(query) ==
    query # cm.mention /\ Does(Searching([cm EXCEPT !.mention = query, !.hidden = FALSE]))
Dismiss ==
    MenuOpen(cm) /\ cm' = Searching([cm EXCEPT !.hidden = TRUE])
Found ==
    /\ cm.search # "none"
    /\ cm' = [cm EXCEPT !.search = "none", !.results = [of |-> cm.search, there |-> TRUE]]
\* An entry replaces what was typed; a folder gone into is the next query.
Choose ==
    \E next \in Queries \cup {"none"} :
        /\ MenuOpen(cm) /\ cm.results.there /\ next # cm.mention
        /\ cm.results.of = cm.mention \/ "fast keys" \in Races
        /\ Does(Searching([cm EXCEPT !.chosen = [of |-> cm.mention, from |-> cm.results.of], !.mention = next]))

Asked(m, what, to) == [m EXCEPT !.calls = Append(@, [what |-> what, to |-> to])]
PickMode(mode) == ~cm.streaming /\ Does(Asked(cm, "mode", mode))
PickModel(model) ==
    /\ model # cm.shown.model /\ ~cm.switching
    /\ Does([Asked(cm, "model", model) EXCEPT !.previous = cm.shown.model, !.shown.model = model, !.switching = TRUE])
PickLevel(level) == level # cm.shown.level /\ Does(Asked(cm, "level", level))
\* permission.set, session.setModel and model.setEffort.
Set ==
    LET call == Head(cm.calls)
        m == [cm EXCEPT !.calls = Tail(@)] IN
    /\ cm.calls # <<>>
    /\ \/ cm' = [m EXCEPT !.session[call.what] = call.to, !.answers = Append(@, [call |-> call, ok |-> TRUE])]
       \/ cm' = [m EXCEPT !.answers = Append(@, [call |-> call, ok |-> FALSE])]
Done(m, call, ok) ==
    LET free == IF call.what = "model" THEN [m EXCEPT !.switching = FALSE] ELSE m IN
    IF ok THEN [free EXCEPT !.shown[call.what] = call.to]
    ELSE IF call.what = "model" THEN [free EXCEPT !.shown.model = m.previous] ELSE free
SetEnds ==
    /\ cm.answers # <<>>
    /\ cm' = Done([cm EXCEPT !.answers = Tail(@)], Head(cm.answers).call, Head(cm.answers).ok)
SetCut ==
    LET failed == [i \in DOMAIN cm.answers |-> cm.answers[i].call] \o cm.calls IN
    /\ failed # <<>> /\ (cm.answers = <<>> \/ "cut off" \in Races)
    /\ cm' = FoldLeft(LAMBDA m, call : Done(m, call, FALSE), [cm EXCEPT !.calls = <<>>, !.answers = <<>>], failed)
Turn == Does([cm EXCEPT !.streaming = ~@])
DefaultMode ==
    \E mode \in Modes :
        (cm.session.mode # "none" \/ "other mode" \in Races) /\ Does([cm EXCEPT !.default = mode])
ComposerNext ==
    \/ \E query \in Queries \cup {"none"} : Mention(query)
    \/ Dismiss \/ Found \/ Choose
    \/ \E mode \in Modes : PickMode(mode)
    \/ \E model \in {"m1", "m2"} : PickModel(model)
    \/ \E level \in {"off", "high"} : PickLevel(level)
    \/ Set \/ SetEnds \/ SetCut \/ Turn \/ DefaultMode

\* What a mention puts into the text was found for what had been typed.
InsertsWhatWasTyped == cm.chosen.of = cm.chosen.from
\* With no call on its way, the mode, model and level shown are those the session has.
ShowsItsModes ==
    cm.calls = <<>> /\ cm.answers = <<>> =>
        cm.shown = [cm.session EXCEPT !.mode = IF @ = "none" THEN cm.default ELSE @]

-----------------------------------------------------------------------------
(* The question shown                                                      *)
Kinds == {"confirm", "select", "input", "batch"}
Questions == DOMAIN AskTypes
Unanswered == [q \in Questions |-> "none"]
NoBatch == [at |-> 1, answers |-> Unanswered, other |-> FALSE, draft |-> 0, review |-> FALSE]
Question(n, kind, review) ==
    [n |-> n, kind |-> kind, reviewed |-> review, value |-> 0, selected |-> 0, batch |-> NoBatch, given |-> Unanswered]
NoQuestion == Question(0, "none", FALSE)
DialogInit == qd = [shown |-> NoQuestion, asked |-> 0, sent |-> NoQuestion, misplaced |-> FALSE, ops |-> 0]

\* A mistake the runs must catch: the option selected stays.
ShowsOver(kind, review) ==
    /\ qd.asked < 2
    /\ qd' = [qd EXCEPT !.asked = @ + 1, !.shown = [Question(qd.asked + 1, kind, review) EXCEPT
                                                        !.selected = qd.shown.selected]]
\* A question replaces the one shown, and nothing of that one's answer stays.
Shows(kind, review) ==
    /\ qd.asked < 2
    /\ qd' = [qd EXCEPT !.asked = @ + 1, !.shown = Question(qd.asked + 1, kind, review)]
\* A batch is read out of the request whenever it is drawn, and another one begins anew.
Redraw ==
    /\ qd.shown.kind = "batch" /\ (qd.shown.given = Unanswered \/ "drawn again" \in Races)
    /\ qd' = [qd EXCEPT !.shown.batch = NoBatch]
Answer == qd' = [qd EXCEPT !.sent = qd.shown, !.shown = NoQuestion]
Cancel == qd.shown # NoQuestion /\ qd' = [qd EXCEPT !.shown = NoQuestion]
Confirm == qd.shown.kind = "confirm" /\ Answer
\* What is chosen and typed, by the number of the question it is meant for.
SelectOption == qd.shown.kind = "select" /\ qd' = [qd EXCEPT !.shown.selected = qd.shown.n]
TypeValue == qd.shown.kind = "input" /\ qd' = [qd EXCEPT !.shown.value = qd.shown.n]
SubmitOne ==
    \/ qd.shown.kind = "select" /\ qd.shown.selected # 0 /\ Answer
    \/ qd.shown.kind = "input" /\ Answer

InBatch == qd.shown.kind = "batch"
B == qd.shown.batch
At == AskTypes[B.at]
Filled(q, value) ==
    [qd EXCEPT !.shown.batch.answers[q] = value, !.shown.given[q] = value, !.shown.batch.other = FALSE]
PickOption ==
    InBatch /\ ~B.review /\ At \in {"select", "confirm"} /\ qd' = Filled(B.at, "picked")
OpenOther ==
    InBatch /\ ~B.review /\ At = "select" /\ ~B.other /\ qd' = [qd EXCEPT !.shown.batch.other = TRUE]
CloseOther ==
    InBatch /\ ~B.review /\ B.other /\ qd' = [qd EXCEPT !.shown.batch.other = FALSE]
TypeOther ==
    InBatch /\ ~B.review /\ B.other /\ qd' = [qd EXCEPT !.shown.batch.draft = B.at]
CommitOther ==
    /\ InBatch /\ ~B.review /\ B.other /\ B.draft # 0
    /\ qd' = [Filled(B.at, "custom") EXCEPT !.misplaced = @ \/ B.draft # B.at]
TypeAnswer ==
    \E value \in {"typed", "empty"} :
        InBatch /\ ~B.review /\ At = "input" /\ ~B.other /\ qd' = Filled(B.at, value)
Complete == \A q \in Questions : B.answers[q] \notin {"none", "empty"}
\* The tabs and "previous" keep the draft of an answer of one's own; "next" empties it.
GoTo(q) ==
    /\ InBatch /\ (q # B.at \/ B.review) /\ (B.draft = 0 \/ "tab" \in Races)
    /\ qd' = [qd EXCEPT !.shown.batch.at = q, !.shown.batch.review = FALSE, !.shown.batch.other = FALSE]
Previous ==
    /\ InBatch /\ ~B.review /\ B.at > 1 /\ ((B.draft = 0 /\ ~B.other) \/ "tab" \in Races)
    /\ qd' = [qd EXCEPT !.shown.batch.at = @ - 1]
GoNext ==
    /\ InBatch /\ ~B.review /\ B.answers[B.at] \notin {"none", "empty"}
    /\ IF B.at < Len(AskTypes)
       THEN qd' = [qd EXCEPT !.shown.batch.at = @ + 1, !.shown.batch.other = FALSE, !.shown.batch.draft = 0]
       ELSE qd.shown.reviewed /\ qd' = [qd EXCEPT !.shown.batch.review = TRUE]
Review ==
    InBatch /\ qd.shown.reviewed /\ ~B.review /\ Complete /\ qd' = [qd EXCEPT !.shown.batch.review = TRUE]
SubmitBatch ==
    /\ InBatch /\ Complete /\ (B.review \/ (B.at = Len(AskTypes) /\ ~qd.shown.reviewed))
    /\ Answer
DialogNext ==
    \/ \E kind \in Kinds, review \in BOOLEAN : Shows(kind, review)
    \/ Redraw \/ Cancel \/ Confirm \/ SelectOption \/ TypeValue \/ SubmitOne
    \/ PickOption \/ OpenOther \/ CloseOther \/ TypeOther \/ CommitOther \/ TypeAnswer
    \/ \E q \in Questions : GoTo(q)
    \/ Previous \/ GoNext \/ Review \/ SubmitBatch

\* What is sent is what was chosen or typed for the question it answers, all of it.
SentIsMeant ==
    LET s == qd.sent IN
    /\ s.value \in {0, s.n} /\ s.selected \in {0, s.n} /\ (s.kind = "select" => s.selected = s.n)
    /\ s.kind = "batch" => s.batch.answers = s.given /\ \A q \in Questions : s.given[q] \notin {"none", "empty"}
\* What has been answered of a batch stays until it is sent.
AnswersStand == qd.shown.batch.answers = qd.shown.given
\* An answer of one's own is given to the question it was typed for.
OwnAnswersArePlaced == ~qd.misplaced
=============================================================================
