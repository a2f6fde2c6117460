--------------------------- MODULE ClientRuntimes ---------------------------
(***************************************************************************)
(* The desktop page's adapter to the Harness Host                          *)
(* (src/src/lib/harnessRuntime.ts over src/src/lib/harnessClient.ts).      *)
(* Runtimes follow sessions over one WebSocket.  When it closes, a loop    *)
(* reconnects, and every runtime subscribes again from its last event.     *)
(*                                                                         *)
(* JavaScript runs to completion between two awaits: an action is such a   *)
(* stretch.  The Host is reduced to what the page can tell: how long each  *)
(* log is, whether the session runs, what the connection watches.  The     *)
(* content of events, and every call that is not start, stop or a          *)
(* subscription, are left out; UserCalls stands for those calls' part in   *)
(* opening the connection.                                                 *)
(***************************************************************************)
EXTENDS Naturals, FiniteSets, Sequences, SequencesExt

CONSTANTS Runtimes, Sessions,
          None,            \* no runtime, no session
          MaxSeq,          \* events a log may reach
          MaxCrashes,      \* how often the Host dies
          MaxLag,          \* messages under way to the page
          SharedSession,   \* may two runtimes follow one session?
          StartsOffline,   \* may a runtime start while the page reconnects?
          DiesInResume,    \* may the Host die while the page resumes?
          RetriesOnline    \* may reconnectNow come after another call connected?

ASSUME ConstantsAssumption ==
  /\ MaxSeq \in Nat /\ MaxCrashes \in Nat
  /\ None \notin Runtimes /\ None \notin Sessions

VARIABLES
  log, running,        \* the Host's sessions: events logged, a run going on
  watched,             \* the sessions this connection is subscribed to
  crashes,
  toHost, toPage,      \* the two directions of the socket
  socket,              \* "none", "live", or "dead": closed, the page not told yet
  conn,                \* this.connection: "none", "connecting", "resuming", "open"
  loop,                \* reconnect: "off", "delay" or "waiting" for rpc()
  hostStatus,
  restarting,          \* the user had the Host restarted, reconnectNow is still to come
  before,              \* connectedBefore
  map,                 \* this.runtimes, in insertion order
  rt,                  \* each runtime: session, lastSeq, streaming, stage
  asking, resumed,     \* resume: the runtime whose answer is awaited, those done
  queue,               \* calls that wait for rpc()'s promise, in order
  shown, opened, base  \* history: events emitted, those past at the start, the last one skipped by attach

host == <<log, running, watched, crashes>>
link == <<toHost, toPage, socket>>
page == <<conn, loop, hostStatus, restarting, before, map, rt, asking, resumed, queue>>
seen == <<shown, opened, base>>
vars == <<host, link, page, seen>>

Stages == {"new", "attaching", "live", "failed", "stopped"}

Request == [op: {"attach", "resume", "unsubscribe"}, of: Runtimes, session: Sessions, after: 0..MaxSeq]
Message == [op: {"event"}, session: Sessions, seq: 1..MaxSeq]
             \cup [op: {"delta"}, session: Sessions, running: BOOLEAN]
             \cup [op: {"attach", "resume"}, of: Runtimes, after: 0..MaxSeq, last: 0..MaxSeq, running: BOOLEAN]

TypeOK ==
  /\ log \in [Sessions -> 0..MaxSeq] /\ running \in [Sessions -> BOOLEAN]
  /\ watched \subseteq Sessions /\ crashes \in 0..MaxCrashes
  /\ toHost \in Seq(Request) /\ toPage \in Seq(Message)
  /\ socket \in {"none", "live", "dead"}
  /\ conn \in {"none", "connecting", "resuming", "open"}
  /\ loop \in {"off", "delay", "waiting"}
  /\ hostStatus \in {"connected", "reconnecting", "failed"}
  /\ restarting \in BOOLEAN /\ before \in BOOLEAN
  /\ map \in Seq(Runtimes)
  /\ rt \in [Runtimes -> [session: Sessions \cup {None}, lastSeq: 0..MaxSeq, streaming: BOOLEAN, stage: Stages]]
  /\ asking \in Runtimes \cup {None} /\ resumed \subseteq Runtimes
  /\ queue \in Seq([op: {"attach", "unsubscribe"}, of: Runtimes])
  /\ shown \in [Runtimes -> SUBSET (1..MaxSeq)]
  /\ opened \in [Runtimes -> SUBSET (1..MaxSeq)] /\ base \in [Runtimes -> 0..MaxSeq]

Bigger(a, b) == IF a > b THEN a ELSE b

-----------------------------------------------------------------------------
(* The Host *)

\* Notifications go to a connection that is subscribed.
Notify(s, message) ==
  toPage' = IF s \in watched THEN Append(toPage, message) ELSE toPage

HostUp == socket # "dead"

Logs(s) ==
  /\ HostUp /\ log[s] < MaxSeq /\ Len(toPage) < MaxLag
  /\ log' = [log EXCEPT ![s] = @ + 1]
  /\ Notify(s, [op |-> "event", session |-> s, seq |-> log[s] + 1])
  /\ UNCHANGED <<running, watched, crashes, toHost, socket, page, seen>>

RunStartsOrEnds(s) ==
  /\ HostUp /\ Len(toPage) < MaxLag
  /\ running' = [running EXCEPT ![s] = ~@]
  /\ Notify(s, [op |-> "delta", session |-> s, running |-> ~running[s]])
  /\ UNCHANGED <<log, watched, crashes, toHost, socket, page, seen>>

\* session.subscribe adds the subscription and reads the backlog in one step.
Serve ==
  /\ socket = "live" /\ toHost # <<>>
  /\ LET request == Head(toHost)
         s == request.session IN
       IF request.op = "unsubscribe"
       THEN watched' = watched \ {s} /\ UNCHANGED toPage
       ELSE /\ watched' = watched \cup {s}
            /\ toPage' = Append(toPage, [op |-> request.op, of |-> request.of, after |-> request.after,
                                         last |-> log[s], running |-> running[s]])
  /\ toHost' = Tail(toHost)
  /\ UNCHANGED <<log, running, crashes, socket, page, seen>>

Dies ==
  /\ crashes < MaxCrashes /\ HostUp
  /\ conn = "resuming" => DiesInResume
  /\ crashes' = crashes + 1
  /\ running' = [s \in Sessions |-> FALSE]
  /\ watched' = {} /\ toHost' = <<>>
  /\ socket' = IF socket = "live" THEN "dead" ELSE socket
  /\ UNCHANGED <<log, toPage, page, seen>>

-----------------------------------------------------------------------------
(* The page: delivering what the Host sends *)

InMap(r) == \E i \in 1..Len(map) : map[i] = r
Following(s) == {r \in Runtimes : InMap(r) /\ rt[r].session = s}

\* A mistake the runs must catch: the next event is taken for one already seen.
TakenLate(r, seqs) == {n \in seqs : n > rt[r].lastSeq + 1}

\* A runtime that takes the logged events of `seqs` it has not seen yet.
Taken(r, seqs) == {n \in seqs : n > rt[r].lastSeq}
Deliver(receivers, n) ==
  /\ rt' = [r \in Runtimes |->
       IF r \in receivers /\ Taken(r, {n}) # {} THEN [rt[r] EXCEPT !.lastSeq = n] ELSE rt[r]]
  /\ shown' = [r \in Runtimes |-> IF r \in receivers THEN shown[r] \cup Taken(r, {n}) ELSE shown[r]]

FirstMessage(op) == toPage # <<>> /\ Head(toPage).op = op

EventArrives ==
  /\ FirstMessage("event")
  /\ LET m == Head(toPage) IN Deliver(Following(m.session), m.seq)
  /\ toPage' = Tail(toPage)
  /\ UNCHANGED <<host, toHost, socket, conn, loop, hostStatus, restarting, before, map, asking, resumed, queue, opened, base>>

\* agent-start and agent-end.
DeltaArrives ==
  /\ FirstMessage("delta")
  /\ LET m == Head(toPage) IN
       rt' = [r \in Runtimes |-> IF r \in Following(m.session) THEN [rt[r] EXCEPT !.streaming = m.running] ELSE rt[r]]
  /\ toPage' = Tail(toPage)
  /\ UNCHANGED <<host, toHost, socket, conn, loop, hostStatus, restarting, before, map, asking, resumed, queue, seen>>

-----------------------------------------------------------------------------
(* The page: opening the connection *)

\* rpc(): the promise there is, or a new one.
Connecting == IF conn = "none" THEN "connecting" ELSE conn

\* The runtimes whose start waits for rpc() or for its subscription get an error, and stay in the map.
StartsFail ==
  /\ rt' = [r \in Runtimes |-> IF rt[r].stage = "attaching" THEN [rt[r] EXCEPT !.stage = "failed"] ELSE rt[r]]
  /\ queue' = <<>>

\* A mistake the runs must catch: the subscription asks for what comes after the next event.
RequestNext(call, runtimes) ==
  [op |-> call.op, of |-> call.of, session |-> runtimes[call.of].session, after |-> runtimes[call.of].lastSeq + 1]

\* A call as it goes out; attach reads the last event when it is sent.
RequestOf(call, runtimes) ==
  [op |-> call.op, of |-> call.of, session |-> runtimes[call.of].session, after |-> runtimes[call.of].lastSeq]

\* A mistake the runs must catch: the banner is not told that the connection is back.
OpensSilently(requests) ==
  /\ conn' = "open" /\ before' = TRUE /\ UNCHANGED hostStatus
  /\ loop' = IF loop = "waiting" THEN "off" ELSE loop
  /\ toHost' = requests \o [i \in 1..Len(queue) |-> RequestOf(queue[i], rt')]
  /\ queue' = <<>>

\* The promise of rpc() resolves: the calls that wait for it go out, and the loop that does returns.
Opens(requests) ==
  /\ conn' = "open" /\ before' = TRUE /\ hostStatus' = "connected"
  /\ loop' = IF loop = "waiting" THEN "off" ELSE loop
  /\ toHost' = requests \o [i \in 1..Len(queue) |-> RequestOf(queue[i], rt')]
  /\ queue' = <<>>

\* A call of the page: at once on an open connection, or once rpc()'s promise resolves.
Calls(call, runtimes) ==
  IF conn = "open"
  THEN toHost' = Append(toHost, RequestOf(call, runtimes)) /\ UNCHANGED queue
  ELSE queue' = Append(queue, call) /\ UNCHANGED toHost

\* The next runtime of the map that resume has not asked for yet, or None.
NextToResume(done) ==
  LET left == {i \in 1..Len(map) : map[i] \notin done} IN
  IF left = {} THEN None ELSE map[CHOOSE i \in left : \A j \in left : i <= j]

\* Ask for `r`'s backlog from its last event, or finish when there is no runtime left.
ResumeWith(r, requests) ==
  /\ asking' = r
  /\ IF r = None
     THEN Opens(requests)
     ELSE /\ toHost' = Append(requests, RequestOf([op |-> "resume", of |-> r], rt'))
          /\ UNCHANGED <<loop, hostStatus, before, queue>> /\ conn' = "resuming"

\* The endpoint is asked for, which starts the Host again; `initialize` is answered.
Connects ==
  /\ conn = "connecting"
  /\ socket' = "live" /\ toPage' = <<>> /\ resumed' = {}
  /\ UNCHANGED <<host, restarting, map, rt, seen>>
  /\ IF before THEN ResumeWith(NextToResume({}), <<>>) ELSE Opens(<<>>) /\ asking' = None

\* A mistake the runs must catch: the reconnect loop ends with its first failure.
GivesUp(keepsCrashing) ==
  /\ conn = "connecting" /\ crashes > 0
  /\ conn' = "none"
  /\ loop' = (IF loop = "waiting" THEN "off" ELSE loop) /\ UNCHANGED hostStatus
  /\ StartsFail
  /\ UNCHANGED <<host, link, restarting, before, map, asking, resumed, seen>>

ConnectFails(keepsCrashing) ==
  /\ conn = "connecting" /\ crashes > 0
  /\ conn' = "none"
  /\ IF loop = "waiting"
     THEN IF keepsCrashing THEN loop' = "off" /\ hostStatus' = "failed"
          ELSE loop' = "delay" /\ UNCHANGED hostStatus
     ELSE UNCHANGED <<loop, hostStatus>>
  /\ StartsFail
  /\ UNCHANGED <<host, link, restarting, before, map, asking, resumed, seen>>

\* A mistake the runs must catch: a run that ended unseen goes on for the page.
ResumedStreaming(r, seqs, m) == [rt[r] EXCEPT !.lastSeq = Bigger(@, IF seqs = {} THEN 0 ELSE m.last)]

\* A runtime whose backlog `seqs` has arrived: a run the Host no longer has ends here.
Resumed(r, seqs, m) ==
  [rt[r] EXCEPT !.lastSeq = Bigger(@, IF seqs = {} THEN 0 ELSE m.last), !.streaming = m.running]

\* The answer to a resume's subscription: the backlog, then the next runtime, with no await between.
BacklogArrives ==
  /\ FirstMessage("resume")
  /\ LET m == Head(toPage)
         done == resumed \cup {m.of}
         seqs == (m.after + 1)..m.last IN
       /\ IF Taken(m.of, seqs) = {} THEN UNCHANGED shown
          ELSE shown' = [shown EXCEPT ![m.of] = @ \cup Taken(m.of, seqs)]
       /\ rt' = [rt EXCEPT ![m.of] = Resumed(m.of, seqs, m)]
       /\ resumed' = done
       /\ ResumeWith(NextToResume(done), toHost)
  /\ toPage' = Tail(toPage)
  /\ UNCHANGED <<host, socket, restarting, map, opened, base>>

-----------------------------------------------------------------------------
(* The page: losing the connection *)

\* A mistake the runs must catch: a lost connection is noticed by the next call only.
LostQuietly ==
  /\ socket = "dead" /\ socket' = "none"
  /\ toPage' = <<>> /\ toHost' = <<>>
  /\ conn' = "none" /\ asking' = None /\ StartsFail
  /\ UNCHANGED <<host, loop, hostStatus, restarting, before, map, resumed, seen>>

\* The close event: the pending calls fail, `lost` drops the connection and starts the loop
\* unless one is running.  While resuming, every call that fails is caught, so rpc()'s promise
\* still resolves.
Lost ==
  /\ socket = "dead"
  /\ socket' = "none" /\ toPage' = <<>> /\ toHost' = <<>>
  /\ conn' = "none" /\ asking' = None /\ StartsFail
  /\ IF conn = "resuming"
     THEN /\ hostStatus' = "connected"
          /\ loop' = CASE loop = "off" -> "delay" [] loop = "waiting" -> "off" [] OTHER -> loop
     ELSE /\ hostStatus' = IF loop = "off" THEN "reconnecting" ELSE hostStatus
          /\ loop' = IF loop = "off" THEN "delay" ELSE loop
  /\ UNCHANGED <<host, restarting, before, map, resumed, seen>>

\* The delay of the reconnect loop is over.
Retries ==
  /\ loop = "delay"
  /\ loop' = IF conn = "open" THEN "off" ELSE "waiting"
  /\ conn' = Connecting
  /\ UNCHANGED <<host, link, hostStatus, restarting, before, map, rt, asking, resumed, queue, seen>>

\* The banner's button has the Host restarted, and then calls reconnectNow.  With a connection open
\* by then, rpc() resolves at once.
RestartHost ==
  /\ hostStatus = "failed" /\ ~restarting
  /\ restarting' = TRUE
  /\ UNCHANGED <<host, link, conn, loop, hostStatus, before, map, rt, asking, resumed, queue, seen>>

ReconnectNow ==
  /\ restarting /\ restarting' = FALSE
  /\ conn = "none" \/ RetriesOnline
  /\ IF loop = "off"
     THEN /\ hostStatus' = "reconnecting"
          /\ loop' = IF conn = "open" THEN "off" ELSE "waiting"
          /\ conn' = Connecting
     ELSE UNCHANGED <<conn, loop, hostStatus>>
  /\ UNCHANGED <<host, link, before, map, rt, asking, resumed, queue, seen>>

\* Any other call that needs the Host.
UserCalls ==
  /\ conn = "none" /\ conn' = "connecting"
  /\ UNCHANGED <<host, link, loop, hostStatus, restarting, before, map, rt, asking, resumed, queue, seen>>

-----------------------------------------------------------------------------
(* The page: runtimes start and stop *)

\* What `s` has logged and is not on its way to the page any more.
Past(s) ==
  {n \in 1..log[s] : \A i \in 1..Len(toPage) :
     ~(toPage[i].op = "event" /\ toPage[i].session = s /\ toPage[i].seq = n)}

\* A runtime on a session already in the log; it is in the map before it is attached.
Start(r, s) ==
  /\ rt[r].stage = "new"
  /\ SharedSession \/ Following(s) = {}
  /\ StartsOffline \/ conn = "open" \/ ~before
  /\ map' = Append(map, r)
  /\ rt' = [rt EXCEPT ![r] = [session |-> s, lastSeq |-> 0, streaming |-> FALSE, stage |-> "attaching"]]
  /\ opened' = [opened EXCEPT ![r] = Past(s)]
  /\ conn' = Connecting
  /\ Calls([op |-> "attach", of |-> r], rt')
  /\ UNCHANGED <<host, toPage, socket, loop, hostStatus, restarting, before, asking, resumed, shown, base>>

\* A mistake the runs must catch: attach emits the backlog.
AttachedWithBacklog ==
  /\ FirstMessage("attach")
  /\ LET m == Head(toPage) IN
       /\ rt' = [rt EXCEPT ![m.of].lastSeq = Bigger(@, m.last), ![m.of].streaming = m.running, ![m.of].stage = "live"]
       /\ shown' = [shown EXCEPT ![m.of] = @ \cup Taken(m.of, (m.after + 1)..m.last)]
  /\ toPage' = Tail(toPage)
  /\ UNCHANGED <<host, toHost, socket, conn, loop, hostStatus, restarting, before, map, asking, resumed, queue, opened, base>>

\* The answer to attach's subscription: live from here, without emitting the backlog.
Attached ==
  /\ FirstMessage("attach")
  /\ LET m == Head(toPage)
         last == Bigger(rt[m.of].lastSeq, IF m.last > m.after THEN m.last ELSE 0) IN
       /\ rt' = [rt EXCEPT ![m.of].lastSeq = last, ![m.of].streaming = m.running, ![m.of].stage = "live"]
       /\ base' = [base EXCEPT ![m.of] = last]
  /\ toPage' = Tail(toPage)
  /\ UNCHANGED <<host, toHost, socket, conn, loop, hostStatus, restarting, before, map, asking, resumed, queue, shown, opened>>

\* this.runtimes.delete.
Without(r) == IF InMap(r) THEN RemoveAt(map, CHOOSE i \in 1..Len(map) : map[i] = r) ELSE map

\* A mistake the runs must catch: a runtime that stops leaves its session subscribed.
StopSilently(r) ==
  /\ rt[r].stage = "live"
  /\ map' = Without(r)
  /\ rt' = [rt EXCEPT ![r].stage = "stopped"]
  /\ UNCHANGED <<host, link, conn, loop, hostStatus, restarting, before, asking, resumed, queue, seen>>

\* The last runtime of a session unsubscribes.
Stop(r) ==
  /\ rt[r].stage = "live"
  /\ map' = Without(r)
  /\ rt' = [rt EXCEPT ![r].stage = "stopped"]
  /\ IF conn = "none" \/ Following(rt[r].session) # {r} THEN UNCHANGED <<toHost, queue>>
     ELSE Calls([op |-> "unsubscribe", of |-> r], rt)
  /\ UNCHANGED <<host, toPage, socket, conn, loop, hostStatus, restarting, before, asking, resumed, seen>>

-----------------------------------------------------------------------------
Init ==
  /\ log = [s \in Sessions |-> 0] /\ running = [s \in Sessions |-> FALSE]
  /\ watched = {} /\ crashes = 0
  /\ toHost = <<>> /\ toPage = <<>> /\ socket = "none"
  /\ conn = "none" /\ loop = "off" /\ hostStatus = "connected" /\ restarting = FALSE /\ before = FALSE
  /\ map = <<>>
  /\ rt = [r \in Runtimes |-> [session |-> None, lastSeq |-> 0, streaming |-> FALSE, stage |-> "new"]]
  /\ asking = None /\ resumed = {} /\ queue = <<>>
  /\ shown = [r \in Runtimes |-> {}]
  /\ opened = [r \in Runtimes |-> {}] /\ base = [r \in Runtimes |-> 0]

HostNext == Serve \/ Dies \/ \E s \in Sessions : Logs(s) \/ RunStartsOrEnds(s)
Arrives == EventArrives \/ DeltaArrives \/ BacklogArrives \/ Attached
LinkNext == Connects \/ (\E k \in BOOLEAN : ConnectFails(k)) \/ Lost \/ Retries \/ RestartHost \/ ReconnectNow \/ UserCalls
RuntimeNext == \E r \in Runtimes : (\E s \in Sessions : Start(r, s)) \/ Stop(r)

Next == HostNext \/ Arrives \/ LinkNext \/ RuntimeNext

Spec == Init /\ [][Next]_vars

\* The page takes what arrives, the Host answers, timers fire, and a Host that is asked for again
\* and again starts at last.
Fair ==
  /\ WF_vars(Serve) /\ WF_vars(Arrives) /\ WF_vars(Lost) /\ WF_vars(Retries) /\ SF_vars(Connects)

LiveSpec == Spec /\ Fair

Symmetry == Permutations(Runtimes) \cup Permutations(Sessions)

-----------------------------------------------------------------------------
(* Properties *)

\* What a runtime has shown plus the backlog its attachment skipped is the log up to its last event:
\* no logged event is lost between two connections.  Nor does it emit anything that was logged before
\* it started: that part comes from messages().
NoGap ==
  \A r \in Runtimes : rt[r].stage = "live" =>
    /\ 1..rt[r].lastSeq \subseteq shown[r] \cup 1..base[r]
    /\ shown[r] \cap opened[r] = {}

\* With the connection open and nothing under way, each live runtime has seen its whole log and
\* knows whether its session runs, and no session is watched that no runtime follows.
CaughtUp ==
  conn = "open" /\ socket = "live" /\ toHost = <<>> =>
    /\ \A s \in watched : \E r \in Runtimes : rt[r].session = s /\ InMap(r)
    /\ toPage = <<>> => \A r \in Runtimes : InMap(r) /\ rt[r].stage = "live" =>
         rt[r].lastSeq = log[rt[r].session] /\ rt[r].streaming = running[rt[r].session]

\* A page that lost its connection is reconnecting, unless Rust gave up, and its banner tells the
\* truth about an open connection.
LostIsNoticed ==
  /\ conn = "none" /\ before => loop # "off" \/ hostStatus = "failed"
  /\ conn = "open" /\ socket = "live" => hostStatus = "connected"

\* A page that lost its connection gets one again, or says that it has given up.
Reconnects == (conn = "none" /\ before) ~> (conn = "open" \/ hostStatus = "failed")
=============================================================================
