--------------------------- MODULE SessionDerive ---------------------------
(***************************************************************************)
(* The derivation rules of a session log, packages/session/src/derive.ts.  *)
(* A log is a sequence of events numbered from 1.  Everything a model or a  *)
(* client sees (the LLM context, the settings, the list entry, a fork) is a *)
(* function of it; nothing else is stored.                                  *)
(*                                                                          *)
(* Event payloads are abstracted to what the rules tell apart.  `of` stamps *)
(* an event with the number it was first written under, so a message keeps  *)
(* its identity when a fork renumbers it.  `calls` are the ids of the tool  *)
(* calls in a reply, in order; an id may come back in a later reply, as it  *)
(* does when an adapter falls back to numbering the calls of one response   *)
(* (llm-openai-compat).  `text` says whether a reply carries any text.      *)
(***************************************************************************)
EXTENDS Integers, Sequences, SequencesExt

\* What `undefined` reads as: no model, no title, no compaction.
None == 0

Event(type, seq, data) == [type |-> type, seq |-> seq, data |-> data]

\* The seq of the last event, 0 for an empty log (Session.lastSeq).
LastSeq(events) == IF events = <<>> THEN 0 ELSE Last(events).seq

\* A mistake the runs must catch: a rewind also drops the event it goes back to.
CurrentBranchBefore(events) ==
    LET Step(branch, e) ==
          IF e.type = "rewind"
          THEN SelectSeq(branch, LAMBDA kept : kept.seq < e.data.toSeq)
          ELSE Append(branch, e)
    IN  FoldLeft(Step, <<>>, events)

\* One pass over the log: a rewind drops what the branch holds after toSeq.
CurrentBranch(events) ==
    LET Step(branch, e) ==
          IF e.type = "rewind"
          THEN SelectSeq(branch, LAMBDA kept : kept.seq <= e.data.toSeq)
          ELSE Append(branch, e)
    IN  FoldLeft(Step, <<>>, events)

-----------------------------------------------------------------------------
\* Messages as a provider sees them.  A "summary" is the user message that
\* carries a compaction's summary; an "interrupted" result is the error result
\* the derivation makes up for a call nobody answered.
Message(role, of, calls) == [role |-> role, of |-> of, calls |-> calls]

CloseDanglingCalls(acc) ==
    [messages |-> acc.messages \o
        [i \in 1..Len(acc.pending) |-> Message("interrupted", acc.pending[i], <<>>)],
     pending  |-> <<>>]

\* A mistake the runs must catch: a user message leaves open calls open.
AddEventOpen(acc, e) ==
    CASE e.type = "user" -> [acc EXCEPT !.messages = Append(@, Message("user", e.data.of, <<>>))]
      [] e.type = "assistant" /\ (e.data.text \/ e.data.calls # <<>>) ->
           [messages |-> Append(acc.messages, Message("assistant", e.data.of, e.data.calls)),
            pending  |-> e.data.calls]
      [] e.type = "tool-result" /\ Contains(acc.pending, e.data.callId) ->
           [messages |-> Append(acc.messages, Message("tool-result", e.data.callId, <<>>)),
            pending  |-> Remove(acc.pending, e.data.callId)]
      [] OTHER -> acc

\* One event of the uncovered branch, with the calls still waiting for a result.
AddEvent(acc, e) ==
    LET closed == CloseDanglingCalls(acc)
    IN  CASE e.type = "user" ->
               [closed EXCEPT !.messages = Append(@, Message("user", e.data.of, <<>>))]
          [] e.type = "assistant" ->
               IF ~e.data.text /\ e.data.calls = <<>>
               THEN closed
               ELSE [messages |-> Append(closed.messages,
                                         Message("assistant", e.data.of, e.data.calls)),
                     pending  |-> e.data.calls]
          [] e.type = "tool-result" /\ Contains(acc.pending, e.data.callId) ->
               [messages |-> Append(acc.messages, Message("tool-result", e.data.callId, <<>>)),
                pending  |-> Remove(acc.pending, e.data.callId)]
          [] OTHER -> acc

\* The events of a type on a branch, oldest first (customEvents).
OfType(branch, type) == SelectSeq(branch, LAMBDA e : e.type = type)

\* What the latest event of a type says, or None.  A `label` event is of type
\* "title" or "archived" here, after the field it sets; "custom" is one ns.
Setting(branch, type) ==
    LET found == OfType(branch, type) IN IF found = <<>> THEN None ELSE Last(found).data.of

\* deriveState: the context and the settings on the current branch.
DeriveState(events) ==
    LET branch      == CurrentBranch(events)
        compactions == OfType(branch, "compaction")
        summary     == IF compactions = <<>> THEN <<>>
                       ELSE <<Message("summary", Last(compactions).data.of, <<>>)>>
        uncovered   == IF compactions = <<>> THEN branch
                       ELSE SelectSeq(branch,
                                      LAMBDA e : e.seq > Last(compactions).data.throughSeq)
    IN  [messages |-> CloseDanglingCalls(
                        FoldLeft(AddEvent, [messages |-> summary, pending |-> <<>>], uncovered)).messages,
         model    |-> Setting(branch, "model"),
         title    |-> Setting(branch, "title"),
         archived |-> Setting(branch, "archived"),
         compactedThrough |-> LastSeq(compactions)]

\* A mistake the runs must catch: the summary is taken of the whole log, dropped branches included.
SummarizeLog(events) ==
    LET users == OfType(events, "user")
    IN  [title        |-> Setting(events, "title"),
         archived     |-> Setting(events, "archived"),
         firstMessage |-> IF users = <<>> THEN None ELSE Head(users).data.of,
         messageCount |-> Len(users) + Len(OfType(events, "assistant")),
         lastSeq      |-> LastSeq(events)]

\* summarize: the entry of the session list.  Messages are counted over the
\* whole log, rewound ones included.
Summarize(events) ==
    LET branch == CurrentBranch(events)
        users  == OfType(branch, "user")
    IN  [title        |-> Setting(branch, "title"),
         archived     |-> Setting(branch, "archived"),
         firstMessage |-> IF users = <<>> THEN None ELSE Head(users).data.of,
         messageCount |-> Len(OfType(events, "user")) + Len(OfType(events, "assistant")),
         lastSeq      |-> LastSeq(events)]

-----------------------------------------------------------------------------
\* settledSeq: one pass that keeps the ids of the calls still running.
SettledSeq(events, atSeq) ==
    LET Step(acc, e) ==
          LET open == CASE e.type = "tool-call"   -> acc.open \cup {e.data.callId}
                        [] e.type = "tool-result" -> acc.open \ {e.data.callId}
                        [] OTHER                  -> acc.open
          IN  [open |-> open, settled |-> IF open = {} THEN e.seq ELSE acc.settled]
        upTo == SelectSeq(CurrentBranch(events), LAMBDA e : e.seq <= atSeq)
    IN  FoldLeft(Step, [open |-> {}, settled |-> 0], upTo).settled

\* A mistake the runs must catch: a fork keeps the numbers its source's rewinds and compactions point at.
ForkOldPoints(events, atSeq) ==
    LET copied == SelectSeq(CurrentBranch(events), LAMBDA e : e.seq <= atSeq)
    IN  [i \in 1..Len(copied) |-> [copied[i] EXCEPT !.seq = i]]

\* forkEvents: the branch up to atSeq, renumbered; a compaction's throughSeq
\* becomes the number of the last copied event at or before it.
ForkEvents(events, atSeq) ==
    LET copied == SelectSeq(CurrentBranch(events), LAMBDA e : e.seq <= atSeq)
        NewSeqAtOrBefore(seq) == Len(SelectSeq(copied, LAMBDA e : e.seq <= seq))
    IN  [i \in 1..Len(copied) |->
           IF copied[i].type = "compaction"
           THEN [copied[i] EXCEPT !.seq = i, !.data.throughSeq = NewSeqAtOrBefore(@)]
           ELSE [copied[i] EXCEPT !.seq = i]]

\* A mistake the runs must catch: the latest user message is folded into the summary too.
PointAtUser(events, keepLatestTurn) ==
    LET branch   == CurrentBranch(events)
        lastUser == SelectLastInSeq(branch, LAMBDA e : e.type = "user")
    IN  IF keepLatestTurn /\ lastUser > 0 THEN branch[lastUser].seq ELSE LastSeq(branch)

\* compactionPoint: the end of the branch, or the event before the latest user
\* message when an earlier one exists.  None when the branch is empty.
CompactionPoint(events, keepLatestTurn) ==
    LET branch   == CurrentBranch(events)
        users    == {i \in 1..Len(branch) : branch[i].type = "user"}
        lastUser == SelectLastInSeq(branch, LAMBDA e : e.type = "user")
        earlier  == keepLatestTurn /\ \E i \in users : i < lastUser
    IN  IF earlier THEN branch[lastUser - 1].seq ELSE LastSeq(branch)
=============================================================================
