---------------------------- MODULE SessionStore ----------------------------
(***************************************************************************)
(* One session between memory and its file: the Sessions service            *)
(* (packages/session/src/service.ts), the JSONL storage it writes to        *)
(* (packages/session-jsonl/src/index.ts), and the session.* methods that    *)
(* reach it (packages/host/src/sessions-rpc.ts) with one client that        *)
(* subscribes, loses its connection and resumes.                            *)
(*                                                                          *)
(* An event is an id, its seq is its place.  The file is kept as parseLog   *)
(* reads it: the events it accepts, and whether the text ends inside a      *)
(* line.  parseLog is one pass over the lines, so a line changes that       *)
(* reading by what WriteLine says.                                          *)
(*                                                                          *)
(* The host is single-threaded.  The requests of one read from the socket   *)
(* start in one go; what their awaits leave to do runs in their order       *)
(* before anything else does.  A model call of a run or of a compaction     *)
(* takes any time, and so does nothing at all: a session nobody holds may   *)
(* have been idle for idleMs at any moment (but a compaction's get was its  *)
(* last use, so that takes a call longer than idleMs: SlowSummaries).       *)
(***************************************************************************)
EXTENDS Integers, Sequences, FiniteSets, TLC

CONSTANTS MaxChunk,    \* requests that can arrive in one read
          DeletesRace, \* whether a session.delete can come with other requests, or under a compaction
          TornWrites,  \* whether a host can die in the middle of a line
          SlowSummaries, \* whether a compaction's model call can outlast idleMs
          MaxEvents,   \* bound: events written
          MaxObjects   \* bound: Session objects made

ASSUME BoundsAssumption ==
    /\ MaxChunk \in Nat \ {0}
    /\ DeletesRace \in BOOLEAN /\ TornWrites \in BOOLEAN /\ SlowSummaries \in BOOLEAN
    /\ MaxEvents \in Nat /\ MaxObjects \in Nat \ {0}

VARIABLES file,        \* the log on disk, as parseLog reads it
          objects,     \* the events of each Session object ever made
          open,        \* the object in Sessions.open, 0 if none
          loading,     \* whether a storage.load is under way, and what it read
          holds,       \* Sessions.holds
          run,         \* the object the agent's run writes to, 0 if no run
          compacting,  \* the objects a session.compact will write to
          chunk,       \* requests past their get, in order: what to do with which object
          subscribed,  \* whether the client is in `subscribers`
          seen,        \* the events the client has, in order
          written      \* events written so far

vars == <<file, objects, open, loading, holds, run, compacting, chunk, subscribed, seen, written>>
memory == <<objects, open, loading, holds>>

Kinds == {"subscribe", "append", "prompt", "compact", "delete"}

NoFile == [exists |-> FALSE, events |-> <<>>, torn |-> FALSE]
NotLoading == [active |-> FALSE, events |-> <<>>]
Made == Len(objects)

\* A mistake the runs must catch: the client is told before the line is written.
WriteLater(f, id, seq) == f
\* A mistake the runs must catch: the file is opened for writing and not for appending.
WriteOver(f, id, seq) == [f EXCEPT !.exists = TRUE, !.events = <<id>>]

\* What appending the line of event `id` with number `seq` makes of a file:
\* a new file when there is none (JsonlStorage.append), one unreadable line
\* after a torn one, and otherwise an event parseLog takes if it is the next.
WriteLine(f, id, seq) ==
    IF ~f.exists
    THEN [exists |-> TRUE, events |-> IF seq = 1 THEN <<id>> ELSE <<>>, torn |-> FALSE]
    ELSE IF f.torn \/ seq # Len(f.events) + 1
    THEN [f EXCEPT !.torn = FALSE]
    ELSE [f EXCEPT !.events = Append(@, id)]

\* A mistake the runs must catch: the client drops the next event and takes the one after it.
ReceiveNext(id, seq) == IF seq <= Len(seen) + 1 THEN seen ELSE Append(seen, id)

\* The client's side of a session/event: it has the event already, or adds it.
Receive(id, seq) == IF seq <= Len(seen) THEN seen ELSE Append(seen, id)

\* Session.append through object o: the storage first, then the object's log,
\* then whoever is subscribed to the session, whichever object wrote.
AppendTo(o) ==
    LET id  == written + 1
        seq == Len(objects[o]) + 1
    IN  /\ written < MaxEvents
        /\ file' = WriteLine(file, id, seq)
        /\ objects' = [objects EXCEPT ![o] = Append(@, id)]
        /\ written' = id
        /\ seen' = IF subscribed THEN Receive(id, seq) ELSE seen

Unhold(n) == IF n > 0 THEN n - 1 ELSE 0

\* Nothing is left to do of the last read from the socket.
Quiet == chunk = <<>> /\ ~loading.active

-----------------------------------------------------------------------------
\* The session as Sessions.create leaves it.
Init ==
    /\ file = [NoFile EXCEPT !.exists = TRUE]
    /\ objects = << <<>> >> /\ open = 1 /\ loading = NotLoading /\ holds = 0
    /\ run = 0 /\ compacting = {} /\ chunk = <<>>
    /\ subscribed = FALSE /\ seen = <<>> /\ written = 0

\* Requests arrive.  Each starts with sessions.get: the open object, or one
\* load that they share; a session without a file is not found.
Arrive ==
    /\ Quiet
    /\ \E n \in 1..MaxChunk : \E kinds \in [1..n -> Kinds] :
         /\ open # 0 \/ file.exists
         /\ (\E i \in 1..n : kinds[i] = "delete") => DeletesRace \/ (n = 1 /\ compacting = {})
         /\ chunk' = [i \in 1..n |-> [kind |-> kinds[i], object |-> open]]
    /\ loading' = IF open # 0 THEN NotLoading ELSE [active |-> TRUE, events |-> file.events]
    /\ UNCHANGED <<file, objects, open, holds, run, compacting, subscribed, seen, written>>

\* A mistake the runs must catch: each request that waits for a load makes a Session of its own.
LoadedEach ==
    /\ loading.active
    /\ Made + Len(chunk) <= MaxObjects
    /\ objects' = objects \o [i \in 1..Len(chunk) |-> loading.events]
    /\ open' = Made + Len(chunk)
    /\ chunk' = [i \in 1..Len(chunk) |-> [chunk[i] EXCEPT !.object = Made + i]]
    /\ loading' = NotLoading
    /\ UNCHANGED <<file, holds, run, compacting, subscribed, seen, written>>

\* A mistake the runs must catch: the load is not forgotten when it is done.
LoadedForEver ==
    /\ loading.active
    /\ Made < MaxObjects
    /\ objects' = Append(objects, loading.events)
    /\ open' = Made + 1
    /\ chunk' = [i \in 1..Len(chunk) |-> [chunk[i] EXCEPT !.object = Made + 1]]
    /\ UNCHANGED <<file, holds, loading, run, compacting, subscribed, seen, written>>

\* The load is done: its Session object is the open one from here on.
Loaded ==
    /\ loading.active
    /\ Made < MaxObjects
    /\ objects' = Append(objects, loading.events)
    /\ open' = Made + 1
    /\ chunk' = [i \in 1..Len(chunk) |-> [chunk[i] EXCEPT !.object = Made + 1]]
    /\ loading' = NotLoading
    /\ UNCHANGED <<file, holds, run, compacting, subscribed, seen, written>>

\* The next request goes on with its object.
Resumed(kind) ==
    /\ chunk # <<>> /\ ~loading.active
    /\ Head(chunk).kind = kind
    /\ chunk' = Tail(chunk)

\* session.subscribe: the events after the last one the client has.
Subscribe ==
    /\ Resumed("subscribe")
    /\ seen' = seen \o SubSeq(objects[Head(chunk).object], Len(seen) + 1, Len(objects[Head(chunk).object]))
    /\ holds' = IF subscribed THEN holds ELSE holds + 1
    /\ subscribed' = TRUE
    /\ UNCHANGED <<file, objects, open, loading, run, compacting, written>>

\* A request that appends one event: rename, rewind, model.set.
AppendOne ==
    /\ Resumed("append")
    /\ AppendTo(Head(chunk).object)
    /\ UNCHANGED <<open, loading, holds, run, compacting, subscribed>>

\* session.prompt: busy, or the user event and a run that holds the session.
Prompt ==
    /\ Resumed("prompt")
    /\ \/ /\ run # 0
          /\ UNCHANGED <<file, objects, holds, run, seen, written>>
       \/ /\ run = 0
          /\ AppendTo(Head(chunk).object)
          /\ run' = Head(chunk).object
          /\ holds' = holds + 1
    /\ UNCHANGED <<open, loading, compacting, subscribed>>

\* session.compact: busy, or a summary call that holds nothing.
Compact ==
    /\ Resumed("compact")
    /\ compacting' = IF run # 0 THEN compacting ELSE compacting \cup {Head(chunk).object}
    /\ UNCHANGED <<file, memory, run, subscribed, seen, written>>

\* A mistake the runs must catch: the deleted session's object stays open.
DeleteKeepsOpen ==
    /\ Resumed("delete")
    /\ \/ run # 0 /\ UNCHANGED <<file, open, holds, subscribed, seen>>
       \/ /\ run = 0
          /\ file' = NoFile
          /\ holds' = 0
          /\ subscribed' = FALSE /\ seen' = <<>>
          /\ UNCHANGED open
    /\ UNCHANGED <<objects, loading, run, compacting, written>>

\* A mistake the runs must catch: a session is deleted under its run.
DeleteRunning ==
    /\ Resumed("delete")
    /\ file' = NoFile
    /\ open' = 0 /\ holds' = 0
    /\ subscribed' = FALSE /\ seen' = <<>>
    /\ UNCHANGED <<objects, loading, run, compacting, written>>

\* session.delete: busy, or the subscribers are let go, the session leaves
\* memory with every hold on it, and the file is removed.
Delete ==
    /\ Resumed("delete")
    /\ \/ run # 0 /\ UNCHANGED <<file, open, holds, subscribed, seen>>
       \/ /\ run = 0
          /\ file' = NoFile
          /\ open' = 0 /\ holds' = 0
          /\ subscribed' = FALSE /\ seen' = <<>>
    /\ UNCHANGED <<objects, loading, run, compacting, written>>

-----------------------------------------------------------------------------
\* The run appends what comes next, whatever it is.
RunAppends ==
    /\ Quiet /\ run # 0
    /\ AppendTo(run)
    /\ UNCHANGED <<open, loading, holds, run, compacting, chunk, subscribed>>

\* The run settles and releases its hold.
RunSettles ==
    /\ Quiet /\ run # 0
    /\ run' = 0
    /\ holds' = Unhold(holds)
    /\ UNCHANGED <<file, objects, open, loading, compacting, chunk, subscribed, seen, written>>

\* A summary call ends, and its compaction is appended if it went well.
Compacted ==
    /\ Quiet
    /\ \E o \in compacting :
         /\ compacting' = compacting \ {o}
         /\ \/ AppendTo(o)
            \/ UNCHANGED <<file, objects, seen, written>>
    /\ UNCHANGED <<open, loading, holds, run, chunk, subscribed>>

\* A mistake the runs must catch: the subscription's hold is not released.
UnsubscribeLeaks ==
    /\ Quiet /\ subscribed
    /\ subscribed' = FALSE
    /\ UNCHANGED <<file, memory, run, compacting, chunk, seen, written>>

\* session.unsubscribe, or the connection closes.
Unsubscribe ==
    /\ Quiet /\ subscribed
    /\ subscribed' = FALSE
    /\ holds' = Unhold(holds)
    /\ UNCHANGED <<file, objects, open, loading, run, compacting, chunk, seen, written>>

\* sweep: a session nobody holds has been idle long enough.
Sweep ==
    /\ Quiet /\ open # 0 /\ holds = 0
    /\ open \in compacting => SlowSummaries
    /\ open' = 0
    /\ UNCHANGED <<file, objects, loading, holds, run, compacting, chunk, subscribed, seen, written>>

\* What may be inside Session.append right now.
Appending ==
    IF loading.active THEN {}
    ELSE IF chunk = <<>> THEN {run} \ {0}
    ELSE IF Head(chunk).kind = "append" THEN {Head(chunk).object}
    ELSE {}

\* The host dies, maybe inside an append (with the line written and nobody told,
\* or in the middle of the line), and starts again: what is left is the file,
\* and the client with what it has seen.
Restart ==
    /\ \/ UNCHANGED <<file, written>>
       \/ /\ written < MaxEvents
          /\ \E o \in Appending : file' = WriteLine(file, written + 1, Len(objects[o]) + 1)
          /\ written' = written + 1
       \/ /\ TornWrites /\ Appending # {} /\ file.exists
          /\ file' = [file EXCEPT !.torn = TRUE]
          /\ UNCHANGED written
    /\ open' = 0 /\ loading' = NotLoading /\ holds' = 0
    /\ run' = 0 /\ compacting' = {} /\ chunk' = <<>> /\ subscribed' = FALSE
    /\ UNCHANGED <<objects, seen>>

Next ==
    \/ Arrive \/ Loaded
    \/ Subscribe \/ AppendOne \/ Prompt \/ Compact \/ Delete
    \/ RunAppends \/ RunSettles \/ Compacted \/ Unsubscribe \/ Sweep \/ Restart

Spec == Init /\ [][Next]_vars

-----------------------------------------------------------------------------
\* Where the store keeps its promise.  Each conjunct is one of its assumptions:
\* no half-written line, no summary call longer than idleMs, and no session is
\* deleted under a compaction or by a request that came with others.
Calm == ~TornWrites /\ ~SlowSummaries /\ ~DeletesRace

Ids         == 1..MaxEvents
Files       == [exists : BOOLEAN, events : Seq(Ids), torn : BOOLEAN]
Loads       == [active : BOOLEAN, events : Seq(Ids)]
Requests(n) == [kind : Kinds, object : 0..n]

\* One load at most serves the requests of a read, and nothing is open meanwhile.
TypeOK ==
    /\ file \in Files
    /\ objects \in Seq(Seq(Ids)) /\ Made \in 1..MaxObjects
    /\ open \in 0..Made
    /\ loading \in Loads
    /\ holds \in Nat
    /\ run \in 0..Made
    /\ compacting \subseteq 1..Made
    /\ chunk \in Seq(Requests(Made)) /\ Len(chunk) <= MaxChunk
    /\ subscribed \in BOOLEAN
    /\ seen \in Seq(Ids)
    /\ written \in 0..MaxEvents
    /\ loading.active => open = 0 /\ chunk # <<>>

\* The objects something will still write through.
Writers ==
    ({run} \cup compacting \cup {chunk[i].object : i \in 1..Len(chunk)}) \ {0}

\* "No second object for the same log appears beside it" (Sessions): whatever
\* still writes to the session does so through the object that is open.
OneObject == Writers \subseteq {open}

\* The session that is open is the one on disk: a reader of the file gets every
\* event of it, and nothing else.
FileIsLog == open # 0 => file.exists /\ file.events = objects[open]

\* A client that is subscribed has every event of the open session, however
\* often it lost its connection, the session was unloaded or the host died.
ClientInSync == subscribed => open # 0 /\ seen = objects[open]

\* "No event that the client has seen and the disk has not" (ADR 0008, of a
\* host that crashes).
ToldIsStored ==
    /\ Len(seen) <= Len(file.events)
    /\ \A i \in 1..Len(seen) : seen[i] = file.events[i]

\* A hold for each run and each subscription, and nothing sweeps what is held.
HoldsCount ==
    /\ holds = (IF run # 0 THEN 1 ELSE 0) + (IF subscribed THEN 1 ELSE 0)
    /\ holds > 0 => open # 0

\* A session is not deleted under its run, and from then on nobody new gets hold of it: only what
\* had its object already, a compaction under way or a request of the same read, can write the log
\* again.  (It can: a log removed "for good" by SessionStorage.delete may come back.)
LeavesDeleted ==
    /\ file.exists /\ ~file'.exists => run = 0
    /\ ~file.exists => Writers' \subseteq Writers /\ (file'.exists => Writers # {})

\* The same of a whole behaviour.
DeletedIsLeft == [][LeavesDeleted]_vars

History == INSTANCE SessionHistory
    WITH Events <- Ids, history <- file.events, told <- seen

\* The store keeps SessionHistory's promise.
KeepsHistory == History!Spec

=============================================================================
