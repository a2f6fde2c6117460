--------------------------------- MODULE Mcp ---------------------------------
(***************************************************************************)
(* One configured MCP server and the Host's connections to it: the service *)
(* of packages/mcp/src/index.ts (connect, reconnect, backoff, refresh,     *)
(* dispose) over the clients of client.ts (requests with their timeouts    *)
(* and aborts, the event stream of the HTTP transport).                    *)
(*                                                                         *)
(* mcp.clients   the clients made so far, with their process and how far   *)
(*               connect() has come                                        *)
(* mcp.connected, status, timer, registered                                *)
(*               the service's maps, for this server; 0 and "none" when    *)
(*               they have no entry                                        *)
(* mcp.notes     list_changed notifications, by client                     *)
(* mcp.waiting, running                                                    *)
(*               refreshLocks: how many wait, and the one that runs        *)
(* mcp.unlisted  the last list of the connected server's tools was refused *)
(* mcp.calls     requests and where each stands                            *)
(* mcp.stream    the event stream of an HTTP client                        *)
(* External: the server program, whose tools have had `version` revisions. *)
(***************************************************************************)
EXTENDS Naturals, Sequences, FiniteSets

CONSTANTS MaxClients, MaxVersions, MaxCalls, MaxStreams,
          Delays,  \* length of reconnectDelaysMs
          Races    \* what this instance admits of "overlap", "slow" and "early change"

VARIABLE mcp

None == [client |-> 0, version |-> 0]
NewClient(by) == [phase |-> "initialize", alive |-> TRUE, closed |-> FALSE, by |-> by, tools |-> 0]

\* The service starts and connects.  by: 0 at start-up, Delays + 1 for reconnect(), else the
\* backoff attempt.
ByUser == Delays + 1
Init ==
    \E transport \in {"stdio", "http"} : mcp = [transport |-> transport, clients |-> <<NewClient(0)>>, connected |-> 0, status |-> "none", timer |-> 0,
           registered |-> None, notes |-> <<>>, waiting |-> 0, running |-> None, unlisted |-> FALSE, calls |-> <<>>,
           version |-> 1, closed |-> FALSE,
           stream |-> [state |-> IF transport = "http" THEN "reading" ELSE "ended", closing |-> FALSE, timer |-> FALSE, breaks |-> 0]]

Clients == DOMAIN mcp.clients
Client(c) == mcp.clients[c]
Connecting == {c \in Clients : Client(c).phase \in {"initialize", "list", "done", "placing"}}
Usable(c) == Client(c).alive /\ ~Client(c).closed

\* A mistake the runs must catch: the requests under way are left to their timeouts.
FailNone(calls, c) == calls
\* failAll: nothing waits for a client that is gone.
FailAll(calls, c) ==
    [i \in DOMAIN calls |-> IF calls[i].client = c /\ calls[i].state = "waiting"
                            THEN [calls[i] EXCEPT !.state = "failed"] ELSE calls[i]]

\* StdioMcpClient.close; the process is killed a second later.
Shut(m, c) ==
    IF c = 0 THEN m
    ELSE [m EXCEPT !.clients[c].closed = TRUE, !.calls = FailAll(@, c)]

\* A mistake the runs must catch: the tools of a server that is gone stay registered.
RebuildAdds(m) ==
    IF m.connected = 0 THEN m
    ELSE [m EXCEPT !.registered = [client |-> m.connected, version |-> m.clients[m.connected].tools]]
\* rebuildToolRegistrations: exactly the tools of the connected server.
Rebuild(m) ==
    IF m.closed THEN m
    ELSE [m EXCEPT !.registered =
            IF m.connected = 0 THEN None
            ELSE [client |-> m.connected, version |-> m.clients[m.connected].tools]]

-----------------------------------------------------------------------------
(* connect()                                                               *)
Initialized(c) ==
    /\ Client(c).phase = "initialize" /\ Usable(c)
    /\ mcp' = [mcp EXCEPT !.clients[c].phase = "list"]

Listed(c) ==
    /\ Client(c).phase = "list" /\ Usable(c)
    /\ mcp' = [mcp EXCEPT !.clients[c].phase = "done", !.clients[c].tools = mcp.version]

\* A mistake the runs must catch: one attempt too many is not scheduled, and not the next either.
ScheduleOnce(m, attempt) == IF m.closed \/ attempt > 1 THEN m ELSE [m EXCEPT !.timer = attempt]
ScheduleBackoffReconnect(m, attempt) ==
    IF m.closed \/ attempt > Delays THEN m ELSE [m EXCEPT !.timer = attempt]

\* The process ended, a request timed out or the versions do not match.
ConnectFails(c) ==
    /\ Client(c).phase \in {"initialize", "list"}
    /\ LET gone == [Shut(mcp, c) EXCEPT !.clients[c].phase = "failed", !.status = "failed"] IN
       mcp' = IF Client(c).by \in 1..Delays THEN ScheduleBackoffReconnect(gone, Client(c).by + 1)
              ELSE Rebuild(gone)

\* connectAll and reconnect go on when every server has answered; a backoff attempt at once.
Place(c) ==
    /\ Client(c).phase = "done"
    /\ mcp' = IF mcp.closed THEN [Shut(mcp, c) EXCEPT !.clients[c].phase = "failed"]
              ELSE [mcp EXCEPT !.connected = c, !.status = "connected", !.unlisted = FALSE, !.clients[c].phase = "placing"]

\* The subscriptions are renewed, then the tools.
Placed(c) ==
    /\ Client(c).phase = "placing"
    /\ mcp' = Rebuild([mcp EXCEPT !.clients[c].phase = "placed"])

-----------------------------------------------------------------------------
(* Exits, the backoff, reconnect() and disposal                            *)
\* A mistake the runs must catch: any client's exit takes the connection down.
UnexpectedAny(m, c) ==
    IF m.closed THEN m
    ELSE ScheduleBackoffReconnect(Rebuild([m EXCEPT !.connected = 0, !.status = "failed", !.timer = 0]), 1)
HandleUnexpectedDisconnect(m, c) ==
    IF m.closed \/ m.connected # c THEN m
    ELSE ScheduleBackoffReconnect(Rebuild([m EXCEPT !.connected = 0, !.status = "failed", !.timer = 0]), 1)

\* The process ends by itself, or because it was killed.  Between its tools and its place in the
\* map nothing takes time unless another server is "slow".
Exits(c) ==
    /\ Client(c).alive /\ mcp.transport = "stdio"
    /\ Client(c).phase = "done" => Client(c).closed \/ "slow" \in Races
    /\ LET gone == [mcp EXCEPT !.clients[c].alive = FALSE, !.calls = FailAll(@, c)] IN
       mcp' = IF Client(c).closed \/ Client(c).phase = "initialize" THEN gone
              ELSE HandleUnexpectedDisconnect(gone, c)

Attempt(m, by) == [m EXCEPT !.clients = Append(@, NewClient(by))]

TimerFires ==
    /\ mcp.timer # 0 /\ Len(mcp.clients) < MaxClients
    /\ mcp' = LET fired == [mcp EXCEPT !.timer = 0] IN
              IF mcp.closed \/ mcp.connected # 0 THEN fired ELSE Attempt(fired, mcp.timer)

\* reconnect(), after `ready`; with an attempt under way only where attempts may "overlap".
Reconnect ==
    /\ Client(1).phase \notin {"initialize", "list", "done"} /\ ~mcp.closed
    /\ Len(mcp.clients) < MaxClients
    /\ Connecting = {} \/ "overlap" \in Races
    /\ mcp' = Attempt(Shut([mcp EXCEPT !.timer = 0, !.connected = 0], mcp.connected), ByUser)

\* A mistake the runs must catch: the service goes and leaves its server running.
DisposeQuietly == mcp' = [mcp EXCEPT !.closed = TRUE, !.timer = 0, !.registered = None, !.connected = 0]
Dispose ==
    /\ ~mcp.closed
    /\ mcp' = [Shut(mcp, mcp.connected) EXCEPT
                 !.closed = TRUE, !.timer = 0, !.registered = None, !.connected = 0]

-----------------------------------------------------------------------------
(* Tool lists that change                                                  *)
ToolsChange ==
    /\ mcp.version < MaxVersions
    /\ (\E c \in Clients : Client(c).phase = "done") => "early change" \in Races
    /\ mcp' = [mcp EXCEPT !.version = @ + 1,
                 !.notes = @ \o SelectSeq([i \in Clients |-> i],
                                          LAMBDA c : Usable(c) /\ Client(c).phase # "initialize")]

\* refreshServerTools: one refresh after the other.
Notified ==
    /\ mcp.notes # <<>>
    /\ mcp' = [mcp EXCEPT !.notes = Tail(@), !.waiting = @ + IF Usable(Head(mcp.notes)) THEN 1 ELSE 0]

RefreshStarts ==
    /\ mcp.waiting > 0 /\ mcp.running = None
    /\ mcp' = [mcp EXCEPT !.waiting = @ - 1, !.running.client = IF mcp.closed THEN 0 ELSE mcp.connected]

RefreshListed ==
    /\ mcp.running.client # 0 /\ mcp.running.version = 0 /\ Usable(mcp.running.client)
    /\ mcp' = [mcp EXCEPT !.running.version = mcp.version]

\* A mistake the runs must catch: an answer of a client that was replaced is taken.
IsCurrentNot(c) == ~mcp.closed
IsCurrent(c) == ~mcp.closed /\ mcp.connected = c
RefreshEnds ==
    /\ mcp.running.version # 0
    /\ LET r == mcp.running
           done == [mcp EXCEPT !.running = None] IN
       mcp' = IF ~IsCurrent(r.client) THEN done
              ELSE Rebuild([done EXCEPT !.clients[done.connected].tools = r.version,
                                        !.unlisted = FALSE, !.status = "connected"])

\* The list is refused, comes too late, or the client is gone: the tools stay as they are.
RefreshFails ==
    /\ mcp.running.client # 0 /\ mcp.running.version = 0
    /\ mcp' = [mcp EXCEPT !.running = None, !.unlisted = @ \/ IsCurrent(mcp.running.client)]

-----------------------------------------------------------------------------
(* Requests                                                                *)
CallTool ==
    /\ mcp.registered.client # 0 /\ Len(mcp.calls) < MaxCalls
    /\ mcp' = [mcp EXCEPT !.calls = Append(@,
                 [client |-> mcp.registered.client,
                  state |-> IF Usable(mcp.registered.client) THEN "waiting" ELSE "failed"])]

\* The answer, the timeout or the abort, whichever comes first; the others find nothing pending.
CallEnds(i, state) ==
    /\ mcp.calls[i].state = "waiting"
    /\ mcp' = [mcp EXCEPT !.calls[i].state = state]

-----------------------------------------------------------------------------
(* The event stream of an HTTP client                                      *)
StreamBreaks ==
    /\ mcp.stream.state = "reading" /\ mcp.stream.breaks < MaxStreams
    /\ mcp' = [mcp EXCEPT !.stream = [@ EXCEPT !.state = "waiting", !.timer = TRUE, !.breaks = @ + 1]]

\* The server has no stream to offer: 404, 405 or another content type.
StreamRefused ==
    /\ mcp.stream.state = "reading" /\ mcp' = [mcp EXCEPT !.stream.state = "ended"]

StreamRetries ==
    /\ mcp.stream.timer
    /\ mcp' = [mcp EXCEPT !.stream = [@ EXCEPT !.state = "reading", !.timer = FALSE]]

\* A mistake the runs must catch: close() stops the timer and wakes nobody.
CloseUnwoken(stream) ==
    [stream EXCEPT !.closing = TRUE, !.timer = FALSE, !.state = IF @ = "reading" THEN "ended" ELSE @]
\* HttpMcpClient.close: the read is aborted and the wait woken.
CloseStream(stream) == [stream EXCEPT !.closing = TRUE, !.timer = FALSE, !.state = "ended"]
StreamCloses == mcp.stream.state # "ended" /\ mcp' = [mcp EXCEPT !.stream = CloseStream(@)]

-----------------------------------------------------------------------------
Next ==
    \/ \E c \in Clients : Initialized(c)
    \/ \E c \in Clients : Listed(c)
    \/ \E c \in Clients : ConnectFails(c)
    \/ \E c \in Clients : Place(c)
    \/ \E c \in Clients : Placed(c)
    \/ \E c \in Clients : Exits(c)
    \/ TimerFires \/ Reconnect \/ Dispose
    \/ ToolsChange \/ Notified \/ RefreshStarts \/ RefreshListed \/ RefreshEnds \/ RefreshFails
    \/ CallTool
    \/ \E i \in DOMAIN mcp.calls, state \in {"answered", "timed out", "cancelled"} : CallEnds(i, state)
    \/ StreamBreaks \/ StreamRefused \/ StreamRetries \/ StreamCloses

Spec == Init /\ [][Next]_mcp
-----------------------------------------------------------------------------
Quiet == Connecting = {} /\ mcp.notes = <<>> /\ mcp.waiting = 0 /\ mcp.running = None

\* Once connects and refreshes have ended, the registered tools are of a process that lives, and
\* those the server has now or, if it refused the last list of them, had at some earlier time of that
\* process; and the status says so.  Or there are none, and the status says that.
ServedToolsWork ==
    Quiet /\ ~mcp.closed =>
        IF mcp.connected = 0
        THEN mcp.registered = None /\ mcp.status = "failed"
        ELSE /\ Usable(mcp.connected) /\ mcp.status = "connected"
             /\ mcp.registered = [client |-> mcp.connected, version |-> Client(mcp.connected).tools]
             /\ mcp.unlisted \/ mcp.registered.version = mcp.version

\* A server's process is the one in use or one being connected; every other has been told to
\* end, when the service is gone too.
NoOrphan ==
    \A c \in Clients : Usable(c) => c = mcp.connected \/ c \in Connecting

\* No call waits on a connection that is gone, and no closed stream waits for a retry.
NothingHangs ==
    /\ \A i \in DOMAIN mcp.calls : mcp.calls[i].state = "waiting" => Usable(mcp.calls[i].client)
    /\ mcp.stream.state = "waiting" => mcp.stream.timer

\* After an unexpected exit of the connected server the backoff goes through all its delays.
KeepsTrying ==
    Quiet /\ ~mcp.closed /\ mcp.connected = 0 /\ mcp.timer = 0 =>
        Client(Len(mcp.clients)).by \in {0, Delays, ByUser}
=============================================================================
