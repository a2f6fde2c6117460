----------------------------- MODULE AgentLoop ------------------------------
(***************************************************************************)
(* The agent loop, packages/agent-loop/src/index.ts, for one session, with  *)
(* the callers that reach the session while it runs (the session.* methods  *)
(* of packages/host/src/sessions-rpc.ts).                                   *)
(*                                                                          *)
(* The host is one JavaScript thread: an action is what runs between two    *)
(* awaits, and any other caller may get in at an await.  `pc` names the     *)
(* await the run is suspended at:                                           *)
(*   "none"        no run                                                   *)
(*   "starting"    agent/before-start listeners                             *)
(*   "compacting"  compactIfLarge's summary call                            *)
(*   "preparing"   agent/turn-start listeners, then systemPrompt.build      *)
(*   "streaming"   the model call                                           *)
(*   "retrying"    the summary call after a context-length error            *)
(*   "tools"       the result of the next call, in call order               *)
(*   "turnEnd"     agent/turn-end listeners                                 *)
(*   "flushing"    session.flush at the end of the run                      *)
(* Deltas are left out, they are never persisted; so are the events that    *)
(* only set something (SessionLog has them).  A session that leaves memory  *)
(* or is deleted under a run is SessionStore's subject.                     *)
(***************************************************************************)
EXTENDS SessionDerive, FiniteSets, TLC

CONSTANTS MaxTurns,  \* AgentLoopConfig.maxTurns
          Usage,     \* what a reply's tokens may be: TRUE is above compactAboveTokens
          MaxCalls,  \* bound: tool calls in one reply
          MaxSent,   \* bound: user messages accepted
          MaxOps,    \* bound: rewinds, compactions asked for, aborts
          MaxRestarts \* bound: times the host dies

ASSUME BoundsAssumption ==
    /\ MaxTurns \in Nat \ {0} /\ Usage \subseteq BOOLEAN /\ FALSE \in Usage
    /\ MaxCalls \in Nat /\ MaxSent \in Nat /\ MaxOps \in Nat /\ MaxRestarts \in Nat

VARIABLES log,        \* session.events
          pc,         \* where the run is suspended
          run,        \* the run's locals: turn, retried, calls, stop; and whether its last
                      \* model call was made with the signal raised already (late)
          todo,       \* the calls whose results are not appended yet, in call order
          finished,   \* the ids of those whose tool has returned
          aborted,    \* run.controller.signal.aborted
          steer,      \* run.steer
          followUp,   \* run.followUp
          summary,    \* the compaction a summary call of the run is for
          requested,  \* the compactions session.compact is waiting for
          sent, ops, restarts  \* messages accepted, other requests made, restarts

vars == <<log, pc, run, todo, finished, aborted, steer, followUp, summary, requested, sent, ops, restarts>>
queues == <<steer, followUp>>

NoRun == [turn |-> 0, retried |-> FALSE, calls |-> FALSE, stop |-> "none", late |-> FALSE]
NoSummary == [throughSeq |-> 0, covers |-> {}]

AwaitPoints == {"none", "starting", "compacting", "preparing", "streaming",
                "retrying", "tools", "turnEnd", "flushing"}
Outcomes == {"none", "done", "aborted", "error", "max-turns"}

Numbered(events, batch) ==
    events \o [i \in 1..Len(batch) |->
                 Event(batch[i].type, LastSeq(events) + i, batch[i].data)]
User(m)           == [type |-> "user", data |-> [of |-> m]]
Users(ms)         == [i \in 1..Len(ms) |-> User(ms[i])]
ToolEvents(type, n) == [i \in 1..n |-> [type |-> type, data |-> [callId |-> i]]]
Assistant(r)      == [type |-> "assistant",
                      data |-> [of |-> LastSeq(log) + 1, text |-> r.text, reason |-> r.reason,
                                calls |-> [i \in 1..r.calls |-> i], large |-> r.large]]
Compaction(c)     == [type |-> "compaction", data |-> [of |-> LastSeq(log) + 1] @@ c]

UserIds(events) == {e.data.of : e \in ToSet(OfType(events, "user"))}

\* summarize up to its await: where the compaction goes and what it is made of.
SummaryOf(events, keepLatestTurn) ==
    LET point == CompactionPoint(events, keepLatestTurn)
    IN  [throughSeq |-> point,
         covers |-> UserIds(CurrentBranch(SelectSeq(events, LAMBDA e : e.seq <= point)))]

HasModel(events) == DeriveState(events).model # None

\* compactIfLarge: the last reply used too many tokens and no compaction of the
\* branch is newer than it.  (Always false when compactAboveTokens is not set.)
NeedsCompaction(events) ==
    LET replies == OfType(events, "assistant")
    IN  /\ replies # <<>>
        /\ Last(replies).data.large
        /\ DeriveState(events).compactedThrough <= Last(replies).seq

-----------------------------------------------------------------------------
\* A mistake the runs must catch: an abort between two turns is seen when the next reply is in.
EnterTurnAnyway(turn) ==
    /\ run' = [run EXCEPT !.turn = turn, !.calls = FALSE]
    /\ pc' = "preparing"
    /\ UNCHANGED summary

\* The top of loop's for: stop, or start turn `turn` with the log as it is now.
\* The rest of the run's locals are the caller's.
EnterTurn(turn) ==
    \/ /\ aborted \/ turn > MaxTurns
       /\ pc' = "flushing"
       /\ run' = [run EXCEPT !.turn = turn, !.calls = FALSE,
                             !.stop = IF aborted THEN "aborted" ELSE "max-turns"]
       /\ UNCHANGED summary
    \/ /\ ~aborted /\ turn <= MaxTurns
       /\ run' = [run EXCEPT !.turn = turn, !.calls = FALSE]
       /\ IF NeedsCompaction(log')
          THEN pc' = "compacting" /\ summary' = SummaryOf(log', FALSE)
          ELSE pc' = "preparing" /\ UNCHANGED summary

\* prompt, and start: the user event, then the run up to its first await.
StartRun ==
    /\ pc = "none"
    /\ sent < MaxSent
    /\ HasModel(log)
    /\ log' = Numbered(log, <<User(sent + 1)>>)
    /\ sent' = sent + 1
    /\ pc' = "starting"
    /\ run' = NoRun
    /\ aborted' = FALSE
    /\ UNCHANGED <<todo, finished, steer, followUp, summary, requested, ops, restarts>>

\* steer and followUp while a run is registered (without one they are StartRun).
Steer ==
    /\ pc # "none" /\ sent < MaxSent
    /\ steer' = Append(steer, sent + 1)
    /\ sent' = sent + 1
    /\ UNCHANGED <<log, pc, run, todo, finished, aborted, followUp, summary, requested, ops, restarts>>

FollowUp ==
    /\ pc # "none" /\ sent < MaxSent
    /\ followUp' = Append(followUp, sent + 1)
    /\ sent' = sent + 1
    /\ UNCHANGED <<log, pc, run, todo, finished, aborted, steer, summary, requested, ops, restarts>>

\* abort: the queues are dropped and the signal is raised; the caller then
\* waits for the run to be over.
Abort ==
    /\ pc # "none" /\ ops < MaxOps
    /\ aborted' = TRUE
    /\ steer' = <<>> /\ followUp' = <<>>
    /\ ops' = ops + 1
    /\ UNCHANGED <<log, pc, run, todo, finished, summary, requested, sent, restarts>>

-----------------------------------------------------------------------------
\* agent/before-start has returned.
BeginLoop ==
    /\ pc = "starting"
    /\ UNCHANGED log
    /\ EnterTurn(1)
    /\ UNCHANGED <<todo, finished, aborted, queues, requested, sent, ops, restarts>>

\* compactIfLarge's summary call has ended, well or not.
Compacted ==
    /\ pc = "compacting"
    /\ \/ log' = Numbered(log, <<Compaction(summary)>>)
       \/ UNCHANGED log
    /\ summary' = NoSummary
    /\ pc' = "preparing"
    /\ UNCHANGED <<run, todo, finished, aborted, queues, requested, sent, ops, restarts>>

\* The turn's listeners have returned and the prompt is built: the context is
\* derived and sent.  The signal is not looked at here but handed to the call.
CallModel ==
    /\ pc = "preparing"
    /\ pc' = "streaming"
    /\ run' = [run EXCEPT !.late = aborted]
    /\ UNCHANGED <<log, todo, finished, aborted, queues, summary, requested, sent, ops, restarts>>

\* What a model call can come back with.  A raised signal need not be what ends
\* it; a context-length error comes before any output.  A call that was handed a
\* raised signal ends before its request is sent (llm.stream, fetch), with nothing.
Responses ==
    {r \in [reason : {"stop", "error", "context-length", "aborted"},
            text : BOOLEAN, calls : 0..MaxCalls, large : Usage] :
       /\ r.calls > 0 => r.text
       /\ r.reason = "context-length" => ~r.text
       /\ r.reason = "aborted" => aborted
       /\ r.large => r.reason = "stop"
       /\ run.late => ~r.text /\ r.reason \in {"error", "aborted"}}

\* A mistake the runs must catch: only the reply's own reason stops the run, not an abort while it came in.
CutByReason(r) == r.reason = "aborted"
\* Whether the run stops before the reply's tools.
IsCut(r) == r.reason = "aborted" \/ aborted

\* The reply is logged, then what it asks for starts: all in one block.
Reply(r) ==
    IF IsCut(r)
    THEN /\ log' = Numbered(log, <<Assistant(r)>> \o ToolEvents("tool-result", r.calls))
         /\ run' = [run EXCEPT !.stop = "aborted"]
         /\ pc' = "turnEnd"
         /\ UNCHANGED todo
    ELSE IF r.reason # "stop"
    THEN /\ log' = Numbered(log, <<Assistant(r)>>)
         /\ run' = [run EXCEPT !.stop = "error"]
         /\ pc' = "turnEnd"
         /\ UNCHANGED todo
    ELSE /\ log' = Numbered(log, <<Assistant(r)>> \o ToolEvents("tool-call", r.calls))
         /\ run' = [run EXCEPT !.calls = r.calls > 0]
         /\ pc' = IF r.calls > 0 THEN "tools" ELSE "turnEnd"
         /\ todo' = [i \in 1..r.calls |-> i]

ModelReplies ==
    /\ pc = "streaming"
    /\ \E r \in Responses :
         \/ /\ r.reason = "context-length" /\ ~run.retried
            /\ run' = [run EXCEPT !.retried = TRUE, !.late = aborted]
            /\ summary' = SummaryOf(log, FALSE)
            /\ pc' = "retrying"
            /\ UNCHANGED <<log, todo>>
         \/ /\ ~(r.reason = "context-length" /\ ~run.retried)
            /\ Reply(r)
            /\ UNCHANGED summary
    /\ UNCHANGED <<finished, aborted, queues, requested, sent, ops, restarts>>

\* The summary call after a context-length error: the turn is tried again with
\* the shorter context, or the error is what the model said.
Retried ==
    /\ pc = "retrying"
    /\ \/ /\ ~run.late
          /\ log' = Numbered(log, <<Compaction(summary)>>)
          /\ \/ aborted /\ pc' = "flushing" /\ run' = [run EXCEPT !.stop = "aborted"]
             \/ ~aborted /\ pc' = "preparing" /\ UNCHANGED run
          /\ UNCHANGED todo
       \/ Reply([reason |-> "error", text |-> FALSE, calls |-> 0, large |-> FALSE])
    /\ summary' = NoSummary
    /\ UNCHANGED <<finished, aborted, queues, requested, sent, ops, restarts>>

\* A tool returns, in any order.
ToolFinishes ==
    /\ \E id \in ToSet(todo) \ finished : finished' = finished \cup {id}
    /\ UNCHANGED <<log, pc, run, todo, aborted, queues, summary, requested, sent, ops, restarts>>

\* A mistake the runs must catch: a result is logged as soon as its tool finishes.
AppendAsFinished ==
    /\ pc = "tools"
    /\ \E id \in finished :
         /\ log' = Numbered(log, <<[type |-> "tool-result", data |-> [callId |-> id]]>>)
         /\ todo' = SelectSeq(todo, LAMBDA c : c # id)
         /\ finished' = finished \ {id}
    /\ pc' = IF todo' = <<>> THEN "turnEnd" ELSE "tools"
    /\ UNCHANGED <<run, aborted, queues, summary, requested, sent, ops, restarts>>

\* A mistake the runs must catch: once aborted, the run never takes what its tools return.
AppendUnlessAborted ==
    /\ pc = "tools" /\ ~aborted
    /\ Head(todo) \in finished
    /\ log' = Numbered(log, <<[type |-> "tool-result", data |-> [callId |-> Head(todo)]]>>)
    /\ todo' = Tail(todo)
    /\ finished' = finished \ {Head(todo)}
    /\ pc' = IF Tail(todo) = <<>> THEN "turnEnd" ELSE "tools"
    /\ UNCHANGED <<run, aborted, queues, summary, requested, sent, ops, restarts>>

\* runTools' second loop: the next result in call order.
AppendResult ==
    /\ pc = "tools"
    /\ Head(todo) \in finished
    /\ log' = Numbered(log, <<[type |-> "tool-result", data |-> [callId |-> Head(todo)]]>>)
    /\ todo' = Tail(todo)
    /\ finished' = finished \ {Head(todo)}
    /\ pc' = IF Tail(todo) = <<>> THEN "turnEnd" ELSE "tools"
    /\ UNCHANGED <<run, aborted, queues, summary, requested, sent, ops, restarts>>

\* A mistake the runs must catch: a delivered message stays in its queue.
CopySteer ==
    /\ log' = Numbered(log, Users(steer))
    /\ UNCHANGED queues

\* deliver: every message of a queue becomes a user event, and the queue empty.
DeliverSteer ==
    /\ log' = Numbered(log, Users(steer))
    /\ steer' = <<>>
    /\ UNCHANGED followUp

DeliverFollowUp ==
    /\ log' = Numbered(log, Users(followUp))
    /\ followUp' = <<>>
    /\ UNCHANGED steer

\* agent/turn-end has returned: stop, deliver what is queued, or go on.
StopsWith(outcome) ==
    /\ run' = [run EXCEPT !.stop = outcome]
    /\ pc' = "flushing"
    /\ UNCHANGED <<log, queues, summary>>

EndTurn ==
    /\ pc = "turnEnd"
    /\ \/ run.stop # "none" /\ StopsWith(run.stop)
       \/ run.stop = "none" /\ aborted /\ StopsWith("aborted")
       \/ /\ run.stop = "none" /\ ~aborted
          /\ \/ steer # <<>> /\ DeliverSteer /\ EnterTurn(run.turn + 1)
             \/ steer = <<>> /\ run.calls /\ UNCHANGED <<log, queues>> /\ EnterTurn(run.turn + 1)
             \/ steer = <<>> /\ ~run.calls /\ followUp # <<>> /\ DeliverFollowUp /\ EnterTurn(run.turn + 1)
             \/ steer = <<>> /\ ~run.calls /\ followUp = <<>> /\ StopsWith("done")
    /\ UNCHANGED <<todo, finished, aborted, requested, sent, ops, restarts>>

\* A listener or systemPrompt.build throws: drive catches it.
RunThrows ==
    /\ pc \in {"starting", "preparing", "turnEnd"}
    /\ pc' = "flushing"
    /\ run' = [run EXCEPT !.stop = "error"]
    /\ UNCHANGED <<log, todo, finished, aborted, queues, summary, requested, sent, ops, restarts>>

\* A mistake the runs must catch: a run that threw is never settled.
SettleUnlessFailed ==
    /\ pc = "flushing" /\ run.stop # "error"
    /\ pc' = "none"
    /\ run' = NoRun
    /\ aborted' = FALSE
    /\ steer' = <<>> /\ followUp' = <<>>
    /\ UNCHANGED <<log, todo, finished, summary, requested, sent, ops, restarts>>

\* A mistake the runs must catch: the next run finds the messages the last one did not deliver.
SettleKeepsQueues ==
    /\ pc = "flushing"
    /\ pc' = "none"
    /\ run' = NoRun
    /\ aborted' = FALSE
    /\ UNCHANGED <<log, todo, finished, queues, summary, requested, sent, ops, restarts>>

\* drive: the log is flushed and the run forgotten, with whatever it has queued.
Settle ==
    /\ pc = "flushing"
    /\ pc' = "none"
    /\ run' = NoRun
    /\ aborted' = FALSE
    /\ steer' = <<>> /\ followUp' = <<>>
    /\ UNCHANGED <<log, todo, finished, summary, requested, sent, ops, restarts>>

-----------------------------------------------------------------------------
\* session.compact: refused while a run is registered, and not registered itself.
RequestCompaction ==
    /\ pc = "none" /\ ops < MaxOps
    /\ HasModel(log) /\ CurrentBranch(log) # <<>>
    /\ requested' = requested \cup {SummaryOf(log, TRUE)}
    /\ ops' = ops + 1
    /\ UNCHANGED <<log, pc, run, todo, finished, aborted, queues, summary, sent, restarts>>

\* A mistake the runs must catch: the summary covers all that was logged while it was made.
FinishAtTheEnd ==
    /\ \E c \in requested :
         /\ requested' = requested \ {c}
         /\ \/ log' = Numbered(log, <<Compaction([c EXCEPT !.throughSeq = LastSeq(log)])>>)
            \/ UNCHANGED log
    /\ UNCHANGED <<pc, run, todo, finished, aborted, queues, summary, sent, ops, restarts>>

\* Its summary call ends.
FinishCompaction ==
    /\ \E c \in requested :
         /\ requested' = requested \ {c}
         /\ \/ log' = Numbered(log, <<Compaction(c)>>)
            \/ UNCHANGED log
    /\ UNCHANGED <<pc, run, todo, finished, aborted, queues, summary, sent, ops, restarts>>

\* session.rewind: refused while a run is registered.
Rewind ==
    /\ pc = "none" /\ ops < MaxOps
    /\ \E toSeq \in 0..LastSeq(log) :
         log' = Numbered(log, <<[type |-> "rewind", data |-> [toSeq |-> toSeq]]>>)
    /\ ops' = ops + 1
    /\ UNCHANGED <<pc, run, todo, finished, aborted, queues, summary, requested, sent, restarts>>

\* The host dies and starts again: the log is all that is left.
Restart ==
    /\ restarts < MaxRestarts
    /\ pc' = "none" /\ run' = NoRun /\ aborted' = FALSE
    /\ todo' = <<>> /\ finished' = {}
    /\ steer' = <<>> /\ followUp' = <<>>
    /\ summary' = NoSummary /\ requested' = {}
    /\ restarts' = restarts + 1
    /\ UNCHANGED <<log, sent, ops>>

-----------------------------------------------------------------------------
\* A session with a model, as session.create leaves it.
Init ==
    /\ log = <<Event("model", 1, [of |-> 1])>>
    /\ pc = "none" /\ run = NoRun /\ aborted = FALSE
    /\ todo = <<>> /\ finished = {}
    /\ steer = <<>> /\ followUp = <<>>
    /\ summary = NoSummary /\ requested = {}
    /\ sent = 0 /\ ops = 0 /\ restarts = 0

\* The run's own steps; a tool's return is not one of them.
RunStep ==
    \/ BeginLoop \/ Compacted \/ CallModel \/ ModelReplies \/ Retried
    \/ AppendResult \/ EndTurn \/ RunThrows \/ Settle

Next ==
    \/ RunStep \/ ToolFinishes
    \/ StartRun \/ Steer \/ FollowUp \/ Abort
    \/ RequestCompaction \/ FinishCompaction \/ Rewind \/ Restart

Spec == Init /\ [][Next]_vars

\* Listeners return and model calls end (llm.stream always finishes); a tool may
\* wait for its user as long as it likes, and returns once the signal is raised.
FairSpec == Spec /\ WF_vars(RunStep) /\ WF_vars(aborted /\ ToolFinishes)

-----------------------------------------------------------------------------
\* What is suspended where: a summary is under way exactly at its two awaits,
\* calls are owed exactly at "tools", queues and the signal belong to a run.
TypeOK ==
    /\ \A i \in 1..Len(log) : log[i].seq = i
    /\ pc \in AwaitPoints
    /\ run \in [turn : 0..(MaxTurns + 1), retried : BOOLEAN, calls : BOOLEAN, stop : Outcomes, late : BOOLEAN]
    /\ (pc = "tools") <=> (todo # <<>>)
    /\ finished \subseteq ToSet(todo)
    /\ (summary # NoSummary) <=> (pc \in {"compacting", "retrying"})
    /\ pc = "none" => run = NoRun /\ ~aborted /\ steer = <<>> /\ followUp = <<>>
    /\ sent \in 0..MaxSent /\ ops \in 0..MaxOps /\ restarts \in 0..MaxRestarts

\* The context of every model call is one a provider accepts: it ends with
\* something to reply to, and every call in it is answered exactly once before
\* anything else is said.  Rewinds, compactions asked for before the run and
\* finishing in it, crashes and failed replies included.
RequestIsValid ==
    pc = "preparing" =>
      LET messages == DeriveState(log).messages
          IsResult(m) == m.role \in {"tool-result", "interrupted"}
      IN  /\ messages # <<>>
          /\ Last(messages).role # "assistant"
          /\ \A i \in 1..Len(messages) :
               LET n == Len(messages[i].calls)
               IN  /\ i + n <= Len(messages)
                   /\ ToSet(messages[i].calls) =
                        {messages[j].of : j \in {j \in (i + 1)..(i + n) : IsResult(messages[j])}}
                   /\ i + n < Len(messages) /\ ~IsResult(messages[i]) => ~IsResult(messages[i + n + 1])

\* A compaction hides nothing it has not summarized: every user message of the
\* branch is in the context of the next model call, or was there when the
\* summary that stands for it was made, whatever came in while it was.
ContextKeepsUsers ==
    pc = "preparing" =>
      LET branch      == CurrentBranch(log)
          compactions == OfType(branch, "compaction")
          messages    == ToSet(DeriveState(log).messages)
      IN  UserIds(branch) \subseteq
            {m.of : m \in {m \in messages : m.role = "user"}} \cup
            (IF compactions = <<>> THEN {} ELSE Last(compactions).data.covers)

\* The results that answer the reply at i: those before the next reply.
ResultsOf(i) ==
    {j \in (i + 1)..Len(log) :
       log[j].type = "tool-result" /\ \A k \in (i + 1)..j : log[k].type # "assistant"}

\* The reply at i has a result for the first n of its calls and for no other.
Answers(i, n) == {log[j].data.callId : j \in ResultsOf(i)} = ToSet(SubSeq(log[i].data.calls, 1, n))

\* Tools run in parallel and return in any order, but the log holds one result for
\* each call, in call order, and a run logs every one of them before it calls the
\* model again or ends (runTools: "a deterministic log").  The host may die among them,
\* and a reply that ended in an error has its calls unanswered.
ResultsInCallOrder ==
    \A i \in 1..Len(log) : log[i].type = "assistant" =>
       LET calls == log[i].data.calls
       IN  /\ \A j, k \in ResultsOf(i) : j < k => log[j].data.callId < log[k].data.callId
           /\ \/ Answers(i, Len(calls))
              \/ log[i].data.reason \notin {"stop", "aborted"} /\ Answers(i, 0)
              \/ \E n \in 0..Len(calls) :
                   Answers(i, n) /\ (todo = SubSeq(calls, n + 1, Len(calls)) \/ restarts > 0)

\* The numbers of the messages that were logged.
Delivered == {log[i].data.of : i \in {i \in 1..Len(log) : log[i].type = "user"}}

\* A message a caller sent is queued in one place and logged at most once: what
\* deliver takes from a queue it takes out of it.
DeliveredOnce ==
    /\ \A i, j \in 1..Len(log) :
         log[i].type = "user" /\ log[j].type = "user" /\ i # j => log[i].data.of # log[j].data.of
    /\ ToSet(steer) \cap ToSet(followUp) = {}
    /\ Delivered \cap (ToSet(steer) \cup ToSet(followUp)) = {}

\* Once the signal is raised the run logs no further user message, starts no tool and begins
\* no turn.  The turn it is in may be past its check of the signal: then it makes one call to
\* the model more, at most, and one that is handed the raised signal, so that the provider is
\* asked nothing and the reply is empty.
StartsNoTool == \A i \in (Len(log) + 1)..Len(log') : log'[i].type \notin {"user", "tool-call"}
BeginsNoTurn == pc' \in {"compacting", "preparing"} => pc \in {"compacting", pc'}
AsksNothing  == pc' \in {"streaming", "retrying"} => pc' = pc \/ (~run.late /\ run'.late)
ReplyIsEmpty ==
    run.late => \A i \in (Len(log) + 1)..Len(log') : log'[i].type = "assistant" => ~log'[i].data.text
AbortStartsNothing ==
    [][aborted => StartsNoTool /\ BeginsNoTurn /\ AsksNothing /\ ReplyIsEmpty]_vars

\* An abort is answered: the run settles, however long its tools would take
\* (Agents.abort resolves once it has settled).
AbortSettles == aborted ~> pc = "none"

\* Left to itself a run settles or waits for a tool, within maxTurns, even when
\* messages keep coming and the model keeps asking for tools.
RunSettles == (pc # "none") ~> (pc \in {"none", "tools"})

\* "The run ended and its queues are empty" (agent/settled), for a run that
\* ended because there was nothing left to do.
SettledQueuesEmpty ==
    [][Settle /\ run.stop = "done" => steer = <<>> /\ followUp = <<>>]_vars

\* A rewind drops the branch's events after its toSeq (currentBranch): the
\* summary the context starts with tells of no message that was rewound.
RewoundStaysOut ==
    LET branch == CurrentBranch(log)
        compactions == OfType(branch, "compaction")
    IN  compactions # <<>> => Last(compactions).data.covers \subseteq UserIds(branch)

=============================================================================
