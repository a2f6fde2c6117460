----------------------------- MODULE SessionLog -----------------------------
(***************************************************************************)
(* One session log as its writers grow it: a run appends the user message,  *)
(* replies, the calls it starts and their results in call order; between    *)
(* runs the log is rewound, compacted, relabelled and forked; the host may  *)
(* die at any point and loses what was written since the last flush at      *)
(* most.  Each action is one synchronous block of appends, so the log is    *)
(* seen by readers between two actions only.  The interleaving of several   *)
(* callers around one run is AgentLoop's; the file is SessionStore's.       *)
(***************************************************************************)
EXTENDS SessionDerive

CONSTANTS Settings,  \* types of the events that set something, "model" among them
          MaxLog,    \* bound: events in the log
          MaxCalls   \* bound: tool calls in one reply

ASSUME SettingsAssumption ==
    "model" \in Settings /\ Settings \subseteq {"model", "effort", "title", "archived", "custom"}
ASSUME BoundsAssumption == MaxLog \in Nat \ {0} /\ MaxCalls \in Nat

VARIABLES log,      \* the events, numbered from 1
          phase,    \* of the run: see Phases
          todo      \* calls whose results the run has not appended, in call order

vars == <<log, phase, todo>>

\* A call to the model is due; results are; the next turn is (there were calls);
\* the model would stop; the run is over and not flushed yet; no run.
Phases == {"model", "tools", "continue", "stop", "ending", "idle"}

\* A mistake the runs must catch: numbering goes on from the branch, so a rewound event's number is used again.
NextOnBranch == LastSeq(CurrentBranch(log)) + 1
NextSeq == LastSeq(log) + 1

\* Append one event of each given kind; `of` is the number it is first given.
Write(batch) ==
    /\ Len(log) + Len(batch) <= MaxLog
    /\ log' = log \o [i \in 1..Len(batch) |->
                        Event(batch[i].type, NextSeq + i - 1, [of |-> NextSeq + i - 1] @@ batch[i].data)]

E(type, data) == [type |-> type, data |-> data]
Plain(type)   == E(type, [x \in {} |-> 0])

\* What a reply may hold: nothing, text, or calls (with text or not).
Replies == {r \in [text : BOOLEAN, calls : 0..MaxCalls] : r.calls > 0 => r.text}
Reply(r)        == E("assistant", [text |-> r.text, calls |-> [i \in 1..r.calls |-> i]])
Calls(n)        == [i \in 1..n |-> E("tool-call", [callId |-> i])]
Results(n)      == [i \in 1..n |-> E("tool-result", [callId |-> i])]

-----------------------------------------------------------------------------
\* sessions.create: an empty log, or one that starts with the default model.
Init ==
    /\ \/ log = <<>>
       \/ log = <<Event("model", 1, [of |-> 1])>>
    /\ phase = "idle"
    /\ todo = <<>>

\* AgentLoop.prompt: only with a model.
Prompt ==
    /\ phase = "idle"
    /\ DeriveState(log).model # None
    /\ Write(<<Plain("user")>>)
    /\ phase' = "model"
    /\ UNCHANGED todo

\* A reply that ran to its end: the assistant event and, in the same block, a
\* tool-call event for each call it holds (loop, runTools).
ModelReplies ==
    /\ phase = "model"
    /\ \E r \in Replies :
         /\ Write(<<Reply(r)>> \o Calls(r.calls))
         /\ todo' = [i \in 1..r.calls |-> i]
         /\ phase' = IF r.calls = 0 THEN "stop" ELSE "tools"

\* A reply cut short by an abort: its calls are answered without being run.
ModelAborted ==
    /\ phase = "model"
    /\ \E r \in Replies : Write(<<Reply(r)>> \o Results(r.calls))
    /\ phase' = "ending"
    /\ UNCHANGED todo

\* A reply that ended in an error keeps what was streamed, calls included, and
\* the run stops without answering them.
ModelFailed ==
    /\ phase = "model"
    /\ \E r \in Replies : Write(<<Reply(r)>>)
    /\ phase' = "ending"
    /\ UNCHANGED todo

\* The next result in call order; the tools themselves run in parallel.
ToolReturns ==
    /\ phase = "tools"
    /\ Write(<<E("tool-result", [callId |-> Head(todo)])>>)
    /\ todo' = Tail(todo)
    /\ phase' = IF Tail(todo) = <<>> THEN "continue" ELSE "tools"

\* The next turn: tools ran, or a queued message is delivered.
NextTurn ==
    /\ \/ phase = "continue" /\ UNCHANGED log
       \/ phase \in {"continue", "stop"} /\ Write(<<Plain("user")>>)
    /\ phase' = "model"
    /\ UNCHANGED todo

\* The run stops between two blocks: done, aborted, out of turns, or an
\* exception drive catches.  Calls still running are never answered then.
RunEnds ==
    /\ phase \in Phases \ {"ending", "idle"}
    /\ phase' = "ending"
    /\ todo' = <<>>
    /\ UNCHANGED log

\* drive forgets the run once the log is flushed.
Settle ==
    /\ phase = "ending"
    /\ phase' = "idle"
    /\ UNCHANGED <<log, todo>>

-----------------------------------------------------------------------------
\* session.rename, session.archive, model.set, model.setEffort, a plugin's
\* custom event: at any time, a run or not.
Configure ==
    /\ \E type \in Settings : Write(<<Plain(type)>>)
    /\ UNCHANGED <<phase, todo>>

\* session.rewind to any seq of the session, on the branch or off it.
Rewind ==
    /\ phase = "idle"
    /\ \E toSeq \in 0..LastSeq(log) : Write(<<E("rewind", [toSeq |-> toSeq])>>)
    /\ UNCHANGED <<phase, todo>>

\* summarize: on request the latest turn stays verbatim, in a run (before a
\* model call) it is summarized too.
Compact ==
    /\ phase \in {"idle", "model"}
    /\ DeriveState(log).model # None
    /\ CurrentBranch(log) # <<>>
    /\ Write(<<E("compaction", [throughSeq |-> CompactionPoint(log, phase = "idle")])>>)
    /\ UNCHANGED <<phase, todo>>

\* Stamp the events of a copied log anew, so that equal copies are one state.
Restamp(events) == [i \in 1..Len(events) |-> [events[i] EXCEPT !.data.of = i]]

\* session.fork, then work goes on in the fork; the source stays as it is.
Fork ==
    /\ \E seq \in 0..LastSeq(log) : log' = Restamp(ForkEvents(log, seq))
    /\ phase' = "idle"
    /\ todo' = <<>>

\* session.fork with side: true copies up to the last settled point.
SideFork ==
    /\ log' = Restamp(ForkEvents(log, SettledSeq(log, LastSeq(log))))
    /\ phase' = "idle"
    /\ todo' = <<>>

\* The host or the machine dies in the middle of a block, or loses what was not
\* flushed: the log starts again from a prefix.  (A prefix that a flush protects
\* was reachable by an earlier crash, so nothing is gained by excluding it.)
Crash ==
    /\ \E n \in 0..Len(log) : log' = SubSeq(log, 1, n)
    /\ phase' = "idle"
    /\ todo' = <<>>

Next ==
    \/ Prompt \/ ModelReplies \/ ModelAborted \/ ModelFailed \/ ToolReturns
    \/ NextTurn \/ RunEnds \/ Settle \/ Configure \/ Rewind \/ Compact \/ Fork \/ SideFork \/ Crash

Spec == Init /\ [][Next]_vars

-----------------------------------------------------------------------------
\* Events are numbered from 1 without a gap, a rewind and a compaction point at
\* or before themselves, and a run in "tools" owes results: what a reader of the log and
\* parseLog (which skips any other line) rely on.
TypeOK ==
    /\ Len(log) <= MaxLog
    /\ \A i \in 1..Len(log) :
         /\ log[i].seq = i
         /\ log[i].type = "rewind" => log[i].data.toSeq \in 0..(i - 1)
         /\ log[i].type = "compaction" => log[i].data.throughSeq \in 1..(i - 1)
    /\ phase \in Phases
    /\ (phase = "tools") <=> (todo # <<>>)

Branch == CurrentBranch(log)
OnBranch(seq) == \E i \in 1..Len(Branch) : Branch[i].seq = seq
Prefix(seq) == SubSeq(log, 1, seq)
Messages(events) == DeriveState(events).messages

\* What a provider accepts: every call of an assistant message is answered
\* exactly once, before anything else is said, and nothing answers a call that
\* was not made.
Answered(messages) ==
    \A i \in 1..Len(messages) :
       LET m == messages[i]
           IsResult(j) == messages[j].role \in {"tool-result", "interrupted"}
       IN  /\ m.role = "assistant" =>
                 /\ i + Len(m.calls) <= Len(messages)
                 /\ \A c \in ToSet(m.calls) :
                      \E j \in (i + 1)..(i + Len(m.calls)) : IsResult(j) /\ messages[j].of = c
                 /\ i + Len(m.calls) < Len(messages) => ~IsResult(i + Len(m.calls) + 1)
           /\ m.role \in {"user", "summary"} /\ i < Len(messages) => ~IsResult(i + 1)
           /\ i = 1 => ~IsResult(i)

\* Whatever was interrupted, rewound, compacted or lost, the context derived
\* from the log is one every provider accepts (closeDanglingCalls, and the
\* results deriveState drops because their call is not in the context).
ContextIsValid == Answered(Messages(log))

\* A rewind to an event of the branch brings back the context and the settings
\* as they were when that event was the last one, compactions since undone.
RewindRestores ==
    \A seq \in 1..Len(log) :
       OnBranch(seq) => DeriveState(Append(log, Event("rewind", Len(log) + 1, [of |-> 0, toSeq |-> seq])))
                          = DeriveState(Prefix(seq))

\* A fork starts with the context and the settings its source had at that
\* point, under its own numbering, and its compaction covers the same messages.
ForkKeepsState ==
    \A seq \in 0..Len(log) :
       LET fork   == ForkEvents(log, seq)
           source == DeriveState(SelectSeq(Branch, LAMBDA e : e.seq <= seq))
       IN  /\ Messages(fork) = source.messages
           /\ DeriveState(fork).model = source.model
           /\ DeriveState(fork).title = source.title
           /\ \A i \in 1..Len(fork) : fork[i].seq = i

\* Compacting loses no turn: what is summarized and what stays verbatim make up
\* the whole context (compactions inside the verbatim part give way to it).
\* With keepLatestTurn, the latest user message stays verbatim when it is not the first.
CompactionCoversAll ==
    \A keep \in BOOLEAN :
       LET point == CompactionPoint(log, keep)
           after == Append(log, Event("compaction", Len(log) + 1, [of |-> 0, throughSeq |-> point]))
           whole == SelectSeq(Branch, LAMBDA e : e.type # "compaction" \/ e.seq <= point)
           users == SelectSeq(Branch, LAMBDA e : e.type = "user")
       IN  Branch # <<>> =>
             /\ Messages(Prefix(point)) \o Tail(Messages(after)) = Messages(whole)
             /\ keep /\ Len(users) > 1 => Last(users).data.of \in {m.of : m \in ToSet(Messages(after))}

\* The list entry and the open session agree on what the branch says.
SummaryAgrees ==
    LET state == DeriveState(log) summary == Summarize(log)
    IN  /\ summary.title = state.title
        /\ summary.archived = state.archived
        /\ state.messages # <<>> /\ state.compactedThrough = None /\ summary.firstMessage # None
             => \E i \in 1..Len(state.messages) : state.messages[i].of = summary.firstMessage

\* "Where a side chat of a running session can start without a dangling call"
\* (settledSeq): a side chat forked while tools run starts with no call cut off.
SideForkIsSettled ==
    phase = "tools" =>
      LET side == Messages(ForkEvents(log, SettledSeq(log, LastSeq(log))))
      IN  \A i \in 1..Len(side) : side[i].role # "interrupted"

=============================================================================
