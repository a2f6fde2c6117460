----------------------------- MODULE Transcript -----------------------------
(***************************************************************************)
(* The conversation on the page: src/lib/transcript.ts as operators, and   *)
(* the page that applies them to what one session's run logs and streams   *)
(* (store/transcript.ts, store/context.ts), shows a prompt before the Host *)
(* has it, batches what is streamed, opens the task anew while it runs,    *)
(* and comes back after the Host has died.                                 *)
(*                                                                         *)
(* Of a message the model keeps its role, the event it shows, its calls    *)
(* and whether it is streaming or failed; text, images, usage and times    *)
(* are left out.  Events carry their seq, calls a number.                  *)
(***************************************************************************)
EXTENDS Naturals, Sequences, SequencesExt, FiniteSets, FiniteSetsExt

CONSTANTS MaxEvents,   \* bound on the session's log
          MaxCalls,    \* tool calls of one reply
          MaxPrompts, MaxOpens,
          MaxLosses,   \* lost connections, with or without the Host
          Races        \* what this instance admits of "steer", "abort", "lost" and "sync"

VARIABLES log,       \* the session's events
          run,       \* where the run is: idle, started, calling, tools or ended
          cut,       \* the run has been aborted
          todo,      \* calls of the last reply without a result
          wire,      \* what the Host has sent and the page has not read
          online,    \* the connection is up
          lastSeq,   \* of the runtime: the last event it has delivered
          rtStreams, \* of the runtime: it believes a run goes on
          messages,  \* the messages on screen
          streaming, \* the store's isStreaming
          pending,   \* the number of the prompt shown before the Host recorded it, or 0
          buffer,    \* streamed pieces not drawn yet: <<the calls they announce>>, or <<>>
          prompt,    \* the prompt's request: none, sent, or accepted and not answered
          sync,      \* the task is being opened: none, attach, asked or failed
          prompts, opens, losses

vars == <<log, run, cut, todo, wire, online, lastSeq, rtStreams, messages, streaming, pending,
          buffer, prompt, sync, prompts, opens, losses>>
host == <<log, run, cut, todo>>
screen == <<messages, streaming, pending, buffer>>
runtime == <<lastSeq, rtStreams>>
counters == <<prompts, opens, losses>>

Event(type, calls, call) == [type |-> type, seq |-> Len(log) + 1, calls |-> calls, call |-> call]
CallsOf(reply) == [i \in DOMAIN reply |-> [id |-> reply[i], state |-> "asked"]]

-----------------------------------------------------------------------------
(* transcript.ts                                                           *)

Message(role, seq) ==
    [role |-> role, seq |-> seq, prompt |-> 0, streams |-> FALSE, failed |-> FALSE, calls |-> <<>>]
UserMessageOf(e) == Message("user", e.seq)
AssistantMessageOf(e) ==
    [Message("assistant", e.seq) EXCEPT !.calls = CallsOf(e.calls), !.failed = e.type = "error"]

HasCall(message, id) == \E i \in DOMAIN message.calls : message.calls[i].id = id
WithCall(message, id, state) ==
    [message EXCEPT !.calls = [i \in DOMAIN @ |->
        IF @[i].id = id THEN [@[i] EXCEPT !.state = state] ELSE @[i]]]

\* The position of the last message with a role; 0 if there is none.
LastOf(shown, role) == Max({0} \cup {i \in DOMAIN shown : shown[i].role = role})

\* The position of the reply being streamed, if the last reply is one.
Streamed(shown) ==
    LET last == LastOf(shown, "assistant") IN
    IF last # 0 /\ shown[last].streams THEN last ELSE 0

UpdateCall(shown, id, state) ==
    LET last == LastOf(shown, "assistant") IN
    IF \E i \in DOMAIN shown : HasCall(shown[i], id)
    THEN [i \in DOMAIN shown |-> WithCall(shown[i], id, state)]
    ELSE IF last = 0 THEN shown
    ELSE [shown EXCEPT ![last].calls = Append(@, [id |-> id, state |-> state])]

HistoryStep(shown, e) ==
    CASE e.type = "user" -> Append(shown, UserMessageOf(e))
      [] e.type \in {"assistant", "error"} -> Append(shown, AssistantMessageOf(e))
      [] e.type \in {"ok", "failed"} -> [i \in DOMAIN shown |-> WithCall(shown[i], e.call, e.type)]
      [] OTHER -> shown
HistoryToUi(events) == FoldLeft(HistoryStep, <<>>, events)

\* A mistake the runs must catch: a recorded message is always added.
AppendAlways(shown, of, incoming) == Append(shown, incoming)

\* The message shown first for prompt `of` becomes the recorded one, and keeps its identity.
ReplaceOrAppend(shown, of, incoming) ==
    LET at == {i \in DOMAIN shown : of # 0 /\ shown[i].role = "user" /\ shown[i].prompt = of} IN
    IF at = {} THEN Append(shown, incoming)
    ELSE [shown EXCEPT ![Min(at)] = [incoming EXCEPT !.prompt = of]]

StartAssistant(shown) ==
    IF Streamed(shown) # 0 THEN shown
    ELSE Append(shown, [Message("assistant", 0) EXCEPT !.streams = TRUE])

StreamAssistant(shown, calls) ==
    LET started == StartAssistant(shown)
        known == started[Streamed(started)].calls
        new == SelectSeq(calls, LAMBDA id : ~HasCall(started[Streamed(started)], id)) IN
    [started EXCEPT ![Streamed(started)].calls =
        [i \in DOMAIN known |-> IF known[i].id \in ToSet(calls)
                                THEN [known[i] EXCEPT !.state = "running"] ELSE known[i]]
        \o [i \in DOMAIN new |-> [id |-> new[i], state |-> "running"]]]

\* A mistake the runs must catch: the finished reply is added below the one being streamed.
CompleteBelow(shown, reply) == Append(shown, reply)

\* The finished reply takes the place of the streamed one; its calls keep what they have done.
CompleteAssistant(shown, reply) ==
    LET at == Streamed(shown)
        StateOf(call) == LET old == SelectSeq(shown[at].calls, LAMBDA c : c.id = call.id) IN
                         IF old = <<>> THEN call.state ELSE old[1].state IN
    IF at = 0 THEN Append(shown, reply)
    ELSE [shown EXCEPT ![at] = [reply EXCEPT !.prompt = shown[at].prompt, !.calls =
             IF reply.calls = <<>> THEN shown[at].calls
             ELSE [i \in DOMAIN @ |-> [id |-> @[i].id, state |-> StateOf(@[i])]]]]

\* A turn that stopped without finishing: its calls fail, and a failed reply says so.
InterruptTurn(shown) ==
    LET last == Len(shown)
        turn == LastOf(shown, "user")
        End(calls) == [j \in DOMAIN calls |-> IF calls[j].state \in {"asked", "running"}
                                              THEN [calls[j] EXCEPT !.state = "failed"] ELSE calls[j]]
        ended == [i \in DOMAIN shown |->
                     IF i < turn THEN shown[i] ELSE [shown[i] EXCEPT !.calls = End(@)]] IN
    CASE last = 0 -> shown
      [] last # 0 /\ shown[last].role = "assistant" /\ shown[last].streams ->
            [ended EXCEPT ![last].streams = FALSE, ![last].failed = TRUE]
      [] last # 0 /\ shown[last].role = "assistant" /\ ~shown[last].streams
                  /\ shown[last].calls = <<>> -> shown
      [] OTHER -> Append(ended, [Message("assistant", 0) EXCEPT !.failed = TRUE])

-----------------------------------------------------------------------------
Init ==
    /\ log = <<>> /\ run = "idle" /\ cut = FALSE /\ todo = <<>> /\ wire = <<>> /\ online = TRUE
    /\ lastSeq = 0 /\ rtStreams = FALSE
    /\ messages = <<>> /\ streaming = FALSE /\ pending = 0 /\ buffer = <<>>
    /\ prompt = "none" /\ sync = "none" /\ prompts = 0 /\ opens = 0 /\ losses = 0

(* What the Host sends: events as they are logged, deltas and answers.     *)
Item(type) == [type |-> type, event |-> 0, calls |-> <<>>, log |-> <<>>, runs |-> FALSE]
Logged(event) == [Item("event") EXCEPT !.event = event]
Finish(calls) == [Item("finish") EXCEPT !.calls = calls]
Answer(type) == [Item(type) EXCEPT !.log = log, !.runs = run # "idle"]
Send(items) == wire' = IF online THEN wire \o items ELSE wire
Tell(events, deltas) ==
    /\ Len(log) + Len(events) =< MaxEvents
    /\ log' = log \o events
    /\ Send([i \in DOMAIN events |-> Logged(events[i])] \o deltas)
HostOnly == UNCHANGED <<online, runtime, screen, sync, counters>>

\* session.prompt: the message is logged, the run starts, the request is answered.
HostAccepts ==
    /\ prompt = "sent" /\ online /\ run = "idle" /\ run' = "started"
    /\ Tell(<<Event("user", <<>>, 0)>>, <<Item("agent-start"), Item("prompted")>>)
    /\ prompt' = "accepted" /\ cut' = FALSE
    /\ UNCHANGED todo /\ HostOnly

HostCalls ==
    /\ run = "started" /\ ~cut /\ run' = "calling"
    /\ Tell(<<>>, <<Item("llm-start"), Item("text")>>)
    /\ UNCHANGED <<cut, todo, prompt>> /\ HostOnly

\* The stream's finish, which names the calls, then the logged reply.  Without calls the run ends.
NewCalls(k) == [i \in 1..k |-> Len(log) * MaxCalls + i]
HostReplies ==
    /\ run = "calling" /\ Len(log) < MaxEvents
    /\ \E k \in 0..MaxCalls, type \in {"assistant", "error"} :
        LET reply == Event(type, NewCalls(k), 0) IN
        /\ type = "error" => k = 0
        /\ log' = Append(log, reply)
        /\ Send((IF k = 0 THEN <<>> ELSE <<Finish(NewCalls(k))>>) \o <<Logged(reply)>>)
        /\ todo' = NewCalls(k)
        /\ run' = IF k = 0 THEN "ended" ELSE "tools"
    /\ UNCHANGED <<cut, prompt>> /\ HostOnly

HostStartsTools ==
    /\ run = "tools" /\ ~cut /\ log[Len(log)].type = "assistant"
    /\ Tell([i \in DOMAIN todo |-> [Event("tool-call", <<>>, todo[i]) EXCEPT !.seq = @ + i - 1]], <<>>)
    /\ UNCHANGED <<run, cut, todo, prompt>> /\ HostOnly

\* Results come in the order of the calls.  An aborted run answers calls it never started.
HostResult ==
    /\ run = "tools"
    /\ \E result \in {"ok", "failed"} :
        /\ result = "ok" => log[Len(log)].type # "assistant"
        /\ Tell(<<Event(result, <<>>, Head(todo))>>, <<>>)
    /\ todo' = Tail(todo)
    /\ run' = IF Len(todo) = 1 THEN "started" ELSE run
    /\ UNCHANGED <<cut, prompt>> /\ HostOnly

\* A steering message joins the log at a turn's start; before the first call of the model only
\* where "steer" is admitted.
HostDelivers ==
    /\ run \in {"started", "ended"} /\ ~cut
    /\ log[Len(log)].type # "user" \/ "steer" \in Races
    /\ Tell(<<Event("user", <<>>, 0)>>, <<>>)
    /\ run' = "started"
    /\ UNCHANGED <<cut, todo, prompt>> /\ HostOnly

HostEnds ==
    /\ run \in {"started", "ended"} /\ run' = "idle"
    /\ Tell(<<>>, <<Item("agent-end")>>)
    /\ UNCHANGED <<cut, todo, prompt>> /\ HostOnly

\* session.abort is answered behind the prompt it aborts; where "abort" is admitted the session
\* does not exist yet, and nothing waits for the prompt.
HostAborts ==
    /\ online /\ streaming /\ (prompt # "sent" \/ "abort" \in Races)
    /\ \A i \in DOMAIN wire : wire[i].type # "aborted"
    /\ Tell(<<>>, <<Item("aborted")>>) /\ cut' = (run # "idle")
    /\ UNCHANGED <<run, todo, prompt>> /\ HostOnly

\* The connection is lost with what was on its way.  If the Host has died, so has its run; the
\* log stays.  Between a prompt's message and the start of its run and reply, as the page has seen
\* them, only where "lost" is admitted.
ConnectionLost ==
    /\ online /\ losses < MaxLosses /\ losses' = losses + 1
    /\ \/ "lost" \in Races
       \/ (pending = 0 \/ prompt = "sent") /\ (run = "idle" \/ rtStreams)
    /\ online' = FALSE /\ wire' = <<>>
    /\ \/ run' = "idle" /\ todo' = <<>>
       \/ run # "idle" /\ UNCHANGED <<run, todo>>
    /\ sync' = IF sync = "none" THEN "none" ELSE "failed"
    /\ UNCHANGED <<log, cut, runtime, screen, prompt, prompts, opens>>

-----------------------------------------------------------------------------
(* The page                                                                *)

\* sendMessage: the message and an empty reply are on screen before the Host has the prompt.
\* Between an abort and the end of the turn it cuts only where "abort" is admitted.
PagePrompts ==
    /\ ~streaming /\ prompt = "none" /\ online /\ sync = "none"
    /\ "abort" \in Races \/ (~rtStreams /\ \A i \in DOMAIN wire : wire[i].type # "aborted")
    /\ prompts < MaxPrompts /\ prompts' = prompts + 1
    /\ messages' = messages \o <<[Message("user", 0) EXCEPT !.prompt = prompts'],
                                 [Message("assistant", 0) EXCEPT !.prompt = prompts', !.streams = TRUE]>>
    /\ streaming' = TRUE /\ pending' = prompts' /\ prompt' = "sent"
    /\ UNCHANGED <<host, wire, online, runtime, buffer, sync, opens, losses>>

\* A mistake the runs must catch: only the empty reply is taken back.
RollbackReply(shown) == SelectSeq(shown, LAMBDA m : m.prompt # pending \/ m.role = "user")

RollbackOptimisticPrompt(shown) == SelectSeq(shown, LAMBDA m : m.prompt # pending)
SettleOptimisticPrompt(shown) ==
    SelectSeq(shown, LAMBDA m : pending = 0 \/ m.prompt # pending \/ m.role = "user")

\* The Host is running already, or is gone before it answered: what was shown first is taken back.
PromptFails ==
    /\ \/ prompt = "sent" /\ online /\ run # "idle"
       \/ prompt # "none" /\ ~online
    /\ prompt' = "none" /\ pending' = 0
    /\ streaming' = (streaming /\ pending = 0)
    /\ messages' = IF pending = 0 THEN messages ELSE RollbackOptimisticPrompt(messages)
    /\ UNCHANGED <<host, wire, online, runtime, buffer, sync, counters>>

\* What an event makes of the screen: handleEvent.
Show(shown, e) ==
    CASE e.type = "user" -> ReplaceOrAppend(shown, pending, UserMessageOf(e))
      [] e.type \in {"assistant", "error"} -> CompleteAssistant(shown, AssistantMessageOf(e))
      [] e.type = "tool-call" -> UpdateCall(shown, e.call, "running")
      [] OTHER -> UpdateCall(shown, e.call, e.type)
BufferAfter(events) ==
    IF \E i \in DOMAIN events : events[i].type \in {"assistant", "error"} THEN <<>> ELSE buffer

\* The page reads in order; but the log it asked for waits for the models to be listed, and where
\* "sync" is admitted it is not used before what came after it.
Late == IF "sync" \in Races THEN {"history"} ELSE {}
Readable == {i \in DOMAIN wire : \A j \in 1..(i - 1) : wire[j].type \in Late}

\* deliver: an event the runtime has delivered before changes nothing.
ReadEvent ==
    /\ \E i \in Readable :
        /\ wire[i].type = "event" /\ wire' = RemoveAt(wire, i)
        /\ LET e == wire[i].event IN
            IF e.seq =< lastSeq THEN UNCHANGED <<messages, buffer, lastSeq>>
            ELSE /\ lastSeq' = e.seq
                 /\ messages' = Show(messages, e) /\ buffer' = BufferAfter(<<e>>)
    /\ UNCHANGED <<host, online, rtStreams, streaming, pending, prompt, sync, counters>>

\* What is queued after a delta: a model call starts with nothing queued.
Queued(item) ==
    CASE item.type = "llm-start" -> <<>>
      [] item.type \in {"text", "finish"} -> IF buffer = <<>> THEN <<item.calls>>
                                             ELSE <<buffer[1] \o item.calls>>
      [] OTHER -> buffer

Deltas == {"agent-start", "agent-end", "llm-start", "text", "finish", "prompted", "aborted"}
ReadDelta ==
    \E i \in Readable :
        /\ wire[i].type \in Deltas /\ wire' = RemoveAt(wire, i)
        /\ LET type == wire[i].type IN
            /\ rtStreams' = IF type = "agent-start" THEN TRUE ELSE rtStreams /\ type # "agent-end"
            /\ streaming' = IF type = "agent-start" THEN TRUE
                            ELSE streaming /\ type \notin {"agent-end", "aborted"}
            /\ pending' = IF type \in {"agent-end", "aborted", "llm-start"} THEN 0 ELSE pending
            /\ messages' = CASE type \in {"agent-end", "aborted"} -> SettleOptimisticPrompt(messages)
                             [] type = "llm-start" -> StartAssistant(messages)
                             [] OTHER -> messages
            /\ prompt' = IF type = "prompted" THEN "none" ELSE prompt
        /\ buffer' = Queued(wire[i])
        /\ UNCHANGED <<host, online, lastSeq, sync, counters>>

\* flushAssistantDelta, 32 ms after the first piece was queued.
Flush ==
    /\ buffer # <<>> /\ buffer' = <<>>
    /\ messages' = StreamAssistant(messages, buffer[1])
    /\ streaming' = TRUE
    /\ UNCHANGED <<host, wire, online, runtime, pending, prompt, sync, counters>>

\* connect to the session: the screen is cleared, and a new runtime subscribes.
PageOpens ==
    /\ online /\ sync \in {"none", "failed"} /\ log # <<>>
    /\ opens < MaxOpens /\ opens' = opens + 1
    /\ messages' = <<>> /\ streaming' = FALSE /\ pending' = 0 /\ buffer' = <<>>
    /\ sync' = "attach" /\ wire' = Append(wire, Answer("attached"))
    /\ UNCHANGED <<host, online, runtime, prompt, prompts, losses>>

\* attach: the runtime is live from the answer on, and syncSession asks for the whole log.
ReadAttached ==
    /\ wire # <<>> /\ Head(wire).type = "attached"
    /\ lastSeq' = Len(Head(wire).log) /\ rtStreams' = Head(wire).runs /\ streaming' = FALSE
    /\ wire' = Append(Tail(wire), Answer("history")) /\ sync' = "asked"
    /\ UNCHANGED <<host, online, messages, pending, buffer, prompt, counters>>

Restored(answer) ==
    IF answer.runs THEN HistoryToUi(answer.log) ELSE InterruptTurn(HistoryToUi(answer.log))

\* The log is on screen.
ReadHistory ==
    \E i \in Readable :
        /\ wire[i].type = "history" /\ wire' = RemoveAt(wire, i)
        /\ messages' = Restored(wire[i]) /\ streaming' = wire[i].runs /\ sync' = "none"
        /\ UNCHANGED <<host, online, runtime, pending, buffer, prompt, counters>>

\* resume: what was logged since the last event, then the end of a turn the Host does not run.
Resume ==
    /\ ~online /\ prompt = "none" /\ online' = TRUE
    /\ LET missed == SubSeq(log, lastSeq + 1, Len(log))
           shown == FoldLeft(Show, messages, missed)
           left == BufferAfter(missed)
           drawn == IF left = <<>> THEN shown ELSE StreamAssistant(shown, left[1])
           ended == rtStreams /\ run = "idle" IN
       /\ messages' = IF ended THEN SettleOptimisticPrompt(InterruptTurn(drawn)) ELSE shown
       /\ buffer' = IF ended THEN <<>> ELSE left
       /\ streaming' = (streaming /\ ~ended) /\ pending' = IF ended THEN 0 ELSE pending
    /\ lastSeq' = Len(log) /\ rtStreams' = (run # "idle")
    /\ UNCHANGED <<host, wire, prompt, sync, counters>>

Next ==
    \/ HostAccepts \/ HostCalls \/ HostReplies \/ HostStartsTools \/ HostResult \/ HostDelivers
    \/ HostEnds \/ HostAborts \/ ConnectionLost
    \/ PagePrompts \/ PromptFails \/ ReadEvent \/ ReadDelta \/ Flush
    \/ PageOpens \/ ReadAttached \/ ReadHistory \/ Resume

Spec == Init /\ [][Next]_vars
-----------------------------------------------------------------------------
Calls == UNION {ToSet(NewCalls(k)) : k \in 0..MaxCalls}
TypeOK ==
    /\ run \in {"idle", "started", "calling", "tools", "ended"} /\ online \in BOOLEAN
    /\ (run = "tools") = (todo # <<>>)
    /\ \A i \in DOMAIN log : log[i].seq = i
    /\ lastSeq \in 0..Len(log) /\ rtStreams \in BOOLEAN /\ streaming \in BOOLEAN
    /\ pending \in 0..prompts /\ prompt \in {"none", "sent", "accepted"}
    /\ Len(buffer) =< 1

AtRest == /\ run = "idle" /\ wire = <<>> /\ online /\ prompt = "none" /\ sync = "none" /\ buffer = <<>>

\* What a reader sees of the log: its messages, and the state of their calls; a call without a
\* result counts as failed.
Visible(shown) ==
    LET kept == SelectSeq(shown, LAMBDA m : m.seq # 0 \/ m.role = "user")
        State(s) == IF s = "asked" THEN "failed" ELSE s IN
    [i \in DOMAIN kept |-> [seq |-> kept[i].seq, role |-> kept[i].role, failed |-> kept[i].failed,
        calls |-> [j \in DOMAIN kept[i].calls |-> <<kept[i].calls[j].id, State(kept[i].calls[j].state)>>]]]

\* Whatever was streamed, aborted, opened in between or lost with the Host: once nothing is under
\* way the conversation on screen is the one the session's log shows, no message twice or missing,
\* and nothing on it still runs (store/transcript.ts handleEvent, harnessRuntime.ts resume).
LiveIsHistory ==
    AtRest => /\ Visible(messages) = Visible(HistoryToUi(log))
              /\ \A i \in DOMAIN messages : ~messages[i].streams
              /\ ~streaming /\ pending = 0
=============================================================================
