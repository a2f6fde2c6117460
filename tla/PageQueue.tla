------------------------------ MODULE PageQueue ------------------------------
(***************************************************************************)
(* The messages a user queues behind a run (managedFollowUpQueue), and who *)
(* sends them: the end of a turn (drainManagedFollowUp), the user who      *)
(* steers with one of them, and the sending that fails and puts it back.   *)
(* store/context.ts, store/transcript.ts, lib/managedQueue.ts; one runtime *)
(* and the run it watches.                                                 *)
(***************************************************************************)
EXTENDS Naturals, Sequences, SequencesExt, FiniteSets

CONSTANTS Items,    \* messages the user may queue
          MaxPrompts, MaxAborts, MaxFailures,
          Races     \* what this instance admits of "lost answer"

VARIABLES runs,      \* the Host runs the session
          ends,      \* turn ends the page has not read
          streaming, \* the page's isStreaming
          queue,     \* managedFollowUpsByRuntime of the runtime
          drain,     \* what is being drained: <<item>> or <<>>; managedDrainInFlight
          steer,     \* the steering call under way: <<item, index>> or <<>>
          suppress,  \* suppressManagedDrainFor has the runtime
          abort,     \* an abort on its way
          accepted,  \* how often the Host took each item
          removed,   \* items the user took back
          halted,    \* the user stopped the run, or a sending failed, since the last run started
          prompts, aborts, failures

vars == <<runs, ends, streaming, queue, drain, steer, suppress, abort, accepted, removed,
          halted, prompts, aborts, failures>>
counters == <<prompts, aborts, failures>>

Init ==
    /\ runs = FALSE /\ ends = 0 /\ streaming = FALSE /\ queue = <<>> /\ drain = <<>> /\ steer = <<>>
    /\ suppress = FALSE /\ abort = FALSE /\ accepted = [i \in Items |-> 0] /\ removed = {}
    /\ halted = FALSE /\ prompts = 0 /\ aborts = 0 /\ failures = 0

-----------------------------------------------------------------------------
(* managedQueue.ts                                                         *)
IndexIn(item) == CHOOSE i \in DOMAIN queue : queue[i] = item
RemoveItem(item) == RemoveAt(queue, IndexIn(item))
InsertItem(items, item, index) ==
    LET target == IF index > Len(items) + 1 THEN Len(items) + 1 ELSE index IN
    SubSeq(items, 1, target - 1) \o <<item>> \o SubSeq(items, target, Len(items))
MoveItem(index, target) == [queue EXCEPT ![index] = queue[target], ![target] = queue[index]]

Known(item) == \/ item \in ToSet(queue) \/ item \in removed \/ accepted[item] > 0
               \/ item \in ToSet(drain) \/ (steer # <<>> /\ steer[1] = item)

\* sendMessage while a run streams: the message is kept on the page.
QueueMessage ==
    /\ streaming
    /\ \E item \in Items :
        /\ ~Known(item) /\ queue' = Append(queue, item)
    /\ UNCHANGED <<runs, ends, streaming, drain, steer, suppress, abort, accepted, removed, halted, counters>>

RemoveQueued ==
    /\ \E item \in ToSet(queue) : queue' = RemoveItem(item) /\ removed' = removed \cup {item}
    /\ UNCHANGED <<runs, ends, streaming, drain, steer, suppress, abort, accepted, halted, counters>>

MoveQueued ==
    /\ \E i \in DOMAIN queue, j \in DOMAIN queue : j \in {i - 1, i + 1} /\ queue' = MoveItem(i, j)
    /\ UNCHANGED <<runs, ends, streaming, drain, steer, suppress, abort, accepted, removed, halted, counters>>

-----------------------------------------------------------------------------
(* The run                                                                 *)
Starts == runs' = TRUE /\ streaming' = TRUE /\ halted' = FALSE

\* The user's own prompt, when nothing streams; the Host refuses a second run.
UserPrompts ==
    /\ ~streaming /\ ~runs /\ prompts < MaxPrompts /\ prompts' = prompts + 1
    /\ Starts
    /\ UNCHANGED <<ends, queue, drain, steer, suppress, abort, accepted, removed, aborts, failures>>

RunEnds ==
    /\ runs /\ runs' = FALSE /\ ends' = ends + 1
    /\ UNCHANGED <<streaming, queue, drain, steer, suppress, abort, accepted, removed, halted, counters>>

\* A mistake the runs must catch: the message leaves the queue only once the Host has it.
DrainCopies ==
    IF suppress \/ drain # <<>> \/ queue = <<>> THEN UNCHANGED <<queue, drain>>
    ELSE drain' = <<Head(queue)>> /\ UNCHANGED queue

\* A mistake the runs must catch: the mark of an aborted turn stays.
StillMarked == suppress
\* The mark is for one turn's end only.
Unmarked == FALSE
\* drainManagedFollowUp: the first message goes, unless the turn was aborted or one is on its way.
Drain ==
    IF suppress \/ drain # <<>> \/ queue = <<>> THEN UNCHANGED <<queue, drain>>
    ELSE drain' = <<Head(queue)>> /\ queue' = Tail(queue)
TurnEnds ==
    /\ ends > 0 /\ ends' = ends - 1 /\ streaming' = FALSE
    /\ Drain /\ suppress' = Unmarked
    /\ UNCHANGED <<runs, steer, abort, accepted, removed, halted, counters>>

DrainAccepted ==
    /\ drain # <<>> /\ ~runs /\ drain' = <<>>
    /\ accepted' = [accepted EXCEPT ![drain[1]] = @ + 1] /\ Starts
    /\ UNCHANGED <<ends, queue, steer, suppress, abort, removed, counters>>

\* A mistake the runs must catch: a message that could not be sent is gone.
PutBackNot(item, index) == queue
PutBack(item, index) == InsertItem(queue, item, index)

\* A sending fails: it is refused, or the Host cannot be reached; where "lost answer" is admitted
\* it may have the message nevertheless.
Fails(item, refused) ==
    /\ refused \/ failures < MaxFailures
    /\ failures' = IF refused THEN failures ELSE failures + 1
    /\ halted' = (halted \/ ~refused)
    /\ \E took \in BOOLEAN :
        /\ took => "lost answer" \in Races
        /\ accepted' = IF took THEN [accepted EXCEPT ![item] = @ + 1] ELSE accepted
DrainFails ==
    /\ drain # <<>> /\ drain' = <<>> /\ queue' = PutBack(drain[1], 1) /\ Fails(drain[1], runs)
    /\ UNCHANGED <<runs, ends, streaming, steer, suppress, abort, removed, prompts, aborts>>

\* steerManagedFollowUp: the message leaves the queue while it is sent.
SteerWith ==
    /\ steer = <<>>
    /\ \E item \in ToSet(queue) : steer' = <<item, IndexIn(item)>> /\ queue' = RemoveItem(item)
    /\ UNCHANGED <<runs, ends, streaming, drain, suppress, abort, accepted, removed, halted, counters>>
SteerAccepted ==
    /\ steer # <<>> /\ steer' = <<>>
    /\ accepted' = [accepted EXCEPT ![steer[1]] = @ + 1]
    /\ \/ runs /\ UNCHANGED <<runs, streaming, halted>>
       \/ ~runs /\ Starts
    /\ UNCHANGED <<ends, queue, drain, suppress, abort, removed, counters>>
SteerFails ==
    /\ steer # <<>> /\ steer' = <<>> /\ queue' = PutBack(steer[1], steer[2]) /\ Fails(steer[1], FALSE)
    /\ UNCHANGED <<runs, ends, streaming, drain, suppress, abort, removed, prompts, aborts>>

\* abort: the end of the turn it cuts must not drain.
AbortRun ==
    /\ streaming /\ ~abort /\ aborts < MaxAborts /\ aborts' = aborts + 1
    /\ abort' = TRUE /\ suppress' = TRUE /\ halted' = TRUE
    /\ UNCHANGED <<runs, ends, streaming, queue, drain, steer, accepted, removed, prompts, failures>>
AbortReaches ==
    /\ abort /\ abort' = FALSE
    /\ \/ runs /\ runs' = FALSE /\ ends' = ends + 1
       \/ ~runs /\ UNCHANGED <<runs, ends>>
    /\ streaming' = FALSE
    /\ UNCHANGED <<queue, drain, steer, suppress, accepted, removed, halted, counters>>
AbortFails ==
    /\ abort /\ abort' = FALSE /\ failures < MaxFailures /\ failures' = failures + 1
    /\ suppress' = FALSE /\ streaming' = FALSE
    /\ UNCHANGED <<runs, ends, queue, drain, steer, accepted, removed, halted, prompts, aborts>>

Next ==
    \/ QueueMessage \/ RemoveQueued \/ MoveQueued \/ UserPrompts \/ RunEnds \/ TurnEnds
    \/ DrainAccepted \/ DrainFails \/ SteerWith \/ SteerAccepted \/ SteerFails
    \/ AbortRun \/ AbortReaches \/ AbortFails

Spec == Init /\ [][Next]_vars
-----------------------------------------------------------------------------
Copies(item) ==
    Cardinality({i \in DOMAIN queue : queue[i] = item}) + Cardinality({i \in DOMAIN drain : drain[i] = item})
    + (IF steer # <<>> /\ steer[1] = item THEN 1 ELSE 0)
    + (IF item \in removed THEN 1 ELSE 0) + accepted[item]

\* A queued message is in one place: waiting, on its way, taken back or taken by the Host, once;
\* no order of turn ends, steering, failures and aborts loses or doubles one.
InOnePlace == \A item \in Items : Copies(item) =< 1

\* Messages are not left waiting: when nothing goes on, the user has stopped the run or a sending
\* has failed since it started.
NothingWaits ==
    ~runs /\ ends = 0 /\ drain = <<>> /\ steer = <<>> /\ ~abort /\ queue # <<>> => halted

\* A queued message is sent once, and is not left waiting without a reason (drainManagedFollowUp).
QueueIsServed == InOnePlace /\ NothingWaits

\* A message, once queued, is always somewhere.
StaysSomewhere == \A item \in Items : Copies(item) > 0 => Copies(item)' > 0
NothingLost == [][StaysSomewhere]_vars
=============================================================================
