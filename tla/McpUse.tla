------------------------------- MODULE McpUse -------------------------------
(***************************************************************************)
(* What goes through the MCP servers of packages/mcp: the agent's tools    *)
(* with their gate, the slash commands and the methods of the page, lists  *)
(* that come page by page, subscriptions that outlive a connection, and    *)
(* the panel of the settings.  How a connection comes about, and what may  *)
(* go wrong in that, is module Mcp's: here an attempt has an answer.       *)
(*                                                                         *)
(* mu.clients    the connections made; has: what the server keeps the      *)
(*               connection subscribed to                                  *)
(* mu.connected, status, timer, subs   the service's maps                  *)
(* mu.tools      the connections the registered tools were made for        *)
(* mu.jobs       reconnections: attempts not answered yet (waits), then    *)
(*               connections that take their place one after the other     *)
(* mu.calls      requests, with the connection of each server asked and    *)
(*               the pages that came from it                               *)
(* mu.wire       mcp/changed on its way to the page                        *)
(* mu.page       statuses the page was told, and the reader of each server *)
(* External: the server programs.                                          *)
(***************************************************************************)
EXTENDS Naturals, Sequences, FiniteSets, SequencesExt

CONSTANTS Servers, Uris,
          Setups,   \* confirmTools, and each server's configuration with what it offers
          Pages,    \* of a server's lists
          Delays,   \* length of reconnectDelaysMs
          MaxCalls, MaxOps,
          Races     \* what this instance admits of "overlap", "late answer" and "refused"

VARIABLE mu

None == [s \in Servers |-> 0]
Lists == {"resources", "prompts"}
Reads == {"read", "get"}
Kinds == Lists \cup Reads \cup {"tool", "destructive", "subscribe", "unsubscribe"}
Needs(kind) == IF kind \in {"prompts", "get"} THEN {"prompts"}
               ELSE IF kind \in {"subscribe", "unsubscribe"} THEN {"resources", "subscribe"}
               ELSE IF kind \in {"resources", "read"} THEN {"resources"} ELSE {}
Offers(s, kind) == Needs(kind) \subseteq mu.profile[s].offers

Reader == [open |-> FALSE, tab |-> "resources", loading |-> {}, shown |-> {}, error |-> FALSE]

\* `ready`: every server has connected.
Init ==
    \E setup \in Setups :
       LET order == SetToSeq(Servers)
           first == [s \in Servers |-> CHOOSE i \in DOMAIN order : order[i] = s] IN
       mu = [profile |-> setup.servers, confirmTools |-> setup.confirm, mode |-> "ask", ops |-> 0,
             clients |-> [i \in DOMAIN order |-> [server |-> order[i], open |-> TRUE, has |-> {}]],
             connected |-> first, tools |-> first, status |-> [s \in Servers |-> TRUE],
             timer |-> None, subs |-> [s \in Servers |-> {}], jobs |-> <<>>, calls |-> <<>>,
             wire |-> <<[s \in Servers |-> TRUE]>>,
             page |-> [status |-> [s \in Servers |-> FALSE], reconnecting |-> FALSE, readers |-> [s \in Servers |-> Reader]]]

Http(c) == mu.profile[mu.clients[c].server].http
Open(c) == mu.clients[c].open
Op(m) == [m EXCEPT !.ops = @ + 1]
Free == mu.ops < MaxOps

\* mcp/changed, with the statuses of this moment; rebuildToolRegistrations.
Broadcast(m) == [m EXCEPT !.wire = Append(@, m.status)]
Rebuild(m) == [m EXCEPT !.tools = m.connected]

\* The reader of the panel goes with the end of what it waited for.
ReadEnds(m, i, ok) ==
    IF m.calls[i].by # "page" THEN m
    ELSE LET s == CHOOSE x \in m.calls[i].to : TRUE IN
         [m EXCEPT !.page.readers[s] = [@ EXCEPT !.loading = @ \ {m.calls[i].kind}, !.error = @ \/ ~ok,
                                                 !.shown = IF ok THEN @ \cup {m.calls[i].kind} ELSE @]]
Ends(m, i, at) == ReadEnds([m EXCEPT !.calls[i].at = at], i, at = "answered")

\* close(), of a process: its requests fail.  A request over HTTP goes on by itself, and is answered or not.
Hangs(m, c) ==
    {i \in DOMAIN m.calls : /\ m.calls[i].at \in {"sent", "served"}
                            /\ \E s \in m.calls[i].to : m.calls[i].client[s] = c
                            /\ ~("late answer" \in Races /\ Http(c))}
Shut(m, c) ==
    IF c = 0 THEN m
    ELSE FoldSet(LAMBDA i, acc : Ends(acc, i, "failed"), [m EXCEPT !.clients[c].open = FALSE], Hangs(m, c))

-----------------------------------------------------------------------------
(* Connections                                                             *)
Busy(s) == \E j \in DOMAIN mu.jobs : s \in mu.jobs[j].of
Job(by, servers) ==
    [by |-> by, of |-> servers, waits |-> servers, clients |-> <<>>, placing |-> FALSE, renewed |-> {}]

\* reconnect(): old connections are closed at once, and their tools stay until the new ones are there.
Reconnect(servers) ==
    /\ Free /\ ~mu.page.reconnecting /\ ("overlap" \in Races \/ \A s \in servers : ~Busy(s))
    /\ LET shut == FoldSet(LAMBDA s, m : [Shut(m, m.connected[s]) EXCEPT !.connected[s] = 0, !.timer[s] = 0], mu, servers)
       IN mu' = Op([shut EXCEPT !.jobs = Append(@, Job(0, servers)), !.page.reconnecting = TRUE])

ScheduleBackoffReconnect(m, s, attempt) == IF attempt > Delays THEN m ELSE [m EXCEPT !.timer[s] = attempt]
\* A process ends by itself.
Exits(s) ==
    /\ Free /\ mu.connected[s] # 0 /\ ~mu.profile[s].http
    /\ LET gone == [Shut(mu, mu.connected[s]) EXCEPT !.connected[s] = 0, !.status[s] = FALSE]
       IN mu' = Op(ScheduleBackoffReconnect(Broadcast(Rebuild(gone)), s, 1))

TimerFires(s) ==
    /\ mu.timer[s] # 0 /\ ("overlap" \in Races \/ ~Busy(s))
    /\ LET fired == [mu EXCEPT !.timer[s] = 0] IN
       mu' = IF mu.connected[s] # 0 THEN fired ELSE [fired EXCEPT !.jobs = Append(@, Job(mu.timer[s], {s}))]

\* connect() of one server: a connection, or its error in the statuses.
Attempted(j, s) ==
    LET job == mu.jobs[j]
        answered == [mu EXCEPT !.jobs[j].waits = @ \ {s}]
        failed == [answered EXCEPT !.status[s] = FALSE] IN
    /\ s \in job.waits
    /\ \/ mu' = [answered EXCEPT !.clients = Append(@, [server |-> s, open |-> TRUE, has |-> {}]),
                                 !.jobs[j].clients = Append(@, Len(mu.clients) + 1)]
       \/ job.by = 0 /\ mu' = failed
       \/ job.by # 0 /\ mu' = ScheduleBackoffReconnect([failed EXCEPT !.jobs = RemoveAt(@, j)], s, job.by + 1)

Placing(j) == Head(mu.jobs[j].clients)
\* Once all have answered each connection takes its place.
Place(j) ==
    /\ mu.jobs[j].waits = {} /\ mu.jobs[j].clients # <<>> /\ ~mu.jobs[j].placing
    /\ LET s == mu.clients[Placing(j)].server IN
       mu' = [mu EXCEPT !.connected[s] = Placing(j), !.status[s] = TRUE, !.jobs[j].placing = TRUE, !.jobs[j].renewed = {}]

\* resubscribe: the set is walked as it is by then; a refusal is passed over.
Renewable(j) ==
    LET s == mu.clients[Placing(j)].server IN
    IF Offers(s, "subscribe") THEN mu.subs[s] \ mu.jobs[j].renewed ELSE {}
Resubscribe(j) ==
    /\ mu.jobs[j].placing
    /\ \E u \in Renewable(j), granted \in {TRUE} \cup (IF "refused" \in Races THEN {FALSE} ELSE {}) :
         mu' = [mu EXCEPT !.jobs[j].renewed = @ \cup {u},
                          !.clients[Placing(j)].has = IF granted /\ Open(Placing(j)) THEN @ \cup {u} ELSE @]

\* A mistake the runs must catch: a new connection starts with no subscription.
PlacedBare(j) ==
    /\ mu.jobs[j].placing
    /\ mu' = [mu EXCEPT !.jobs[j].placing = FALSE, !.jobs[j].clients = Tail(@)]
Placed(j) ==
    /\ mu.jobs[j].placing /\ Renewable(j) = {}
    /\ mu' = [mu EXCEPT !.jobs[j].placing = FALSE, !.jobs[j].clients = Tail(@)]

\* Then the tools are registered anew, and the page that asked has its answer.
Reconnected(j) ==
    /\ mu.jobs[j].waits = {} /\ mu.jobs[j].clients = <<>>
    /\ LET over == Broadcast(Rebuild([mu EXCEPT !.jobs = RemoveAt(@, j)])) IN
       mu' = IF mu.jobs[j].by = 0 THEN [Broadcast(over) EXCEPT !.page.reconnecting = FALSE] ELSE over

-----------------------------------------------------------------------------
(* Calls                                                                   *)
\* resolve(): the server that is named, or the only one there is.
Resolve(named, candidates) ==
    IF named # {} THEN candidates \cap named
    ELSE IF Cardinality(candidates) = 1 THEN candidates ELSE {}

Named == {{}} \cup {{s} : s \in Servers}
Call(kind, by, to, client, u) ==
    [kind |-> kind, by |-> by, to |-> to, client |-> client, got |-> None, uri |-> u,
     at |-> IF by = "agent" /\ kind # "unsubscribe" THEN "mode" ELSE "sent"]
Start(m, call) == [m EXCEPT !.calls = Append(@, call)]
MayCall == Free /\ Len(mu.calls) < MaxCalls
AnyUri == CHOOSE u \in Uris : TRUE

\* The agent's tools work on the connections they were registered for.  Nobody is asked about ending a
\* subscription, and without one there is nothing to request.
ToolStarts ==
    /\ MayCall
    /\ \E kind \in Kinds, named \in Named, u \in Uris :
         LET there == {s \in Servers : mu.tools[s] # 0 /\ Offers(s, kind)}
             to == IF kind \in {"tool", "destructive"} THEN there \cap named ELSE Resolve(named, there) IN
         /\ to # {} /\ (kind \in {"subscribe", "unsubscribe"} \/ u = AnyUri)
         /\ kind = "unsubscribe" => \A s \in to : u \in mu.subs[s]
         /\ mu' = Op(Start(mu, Call(kind, "agent", to, mu.tools, u)))

\* Slash commands and the page's methods use the connections there are; lists are of all servers,
\* unless one is named.
Targets(kind, named) ==
    LET there == {s \in Servers : mu.connected[s] # 0 /\ Offers(s, kind)} IN
    IF kind \in Lists /\ named = {} THEN there ELSE Resolve(named, there)
CommandStarts ==
    /\ MayCall
    /\ \E kind \in Lists \cup Reads, named \in Named :
         /\ kind = "get" => named # {}
         /\ Targets(kind, named) # {}
         /\ mu' = Op(Start(mu, Call(kind, "command", Targets(kind, named), mu.connected, AnyUri)))

\* gate(), and what a remote tool does in its place: the mode is the session's when it is looked up.
Trusted(call) == call.kind # "destructive" /\ \A s \in call.to : mu.profile[s].trusted
RemoteTool(call) == call.kind \in {"tool", "destructive"}
Gate(call) ==
    IF mu.mode = "read-only" /\ ~Trusted(call) THEN "refused"
    ELSE IF ~mu.confirmTools \/ mu.mode = "full-access" \/ (Trusted(call) /\ ~RemoteTool(call)) THEN "sent"
    ELSE "asks"
Judge(i) == mu.calls[i].at = "mode" /\ mu' = [mu EXCEPT !.calls[i].at = Gate(mu.calls[i])]
UserAnswers(i) ==
    mu.calls[i].at = "asks" /\ \E verdict \in {"sent", "refused"} : mu' = [mu EXCEPT !.calls[i].at = verdict]
SetMode ==
    Free /\ \E mode \in {"read-only", "ask", "full-access"} \ {mu.mode} : mu' = Op([mu EXCEPT !.mode = mode])

\* A server does what the request asks for, and its answer is on the way.
Reaches(c) == Open(c) \/ ("late answer" \in Races /\ Http(c))
Served(i) ==
    LET call == mu.calls[i] served == [mu EXCEPT !.calls[i].at = "served"] IN
    /\ call.at = "sent"
    /\ \E s \in call.to :
         LET c == call.client[s] IN
         /\ Reaches(c)
         /\ \/ call.kind \in Lists /\ call.got[s] < Pages /\ mu' = [mu EXCEPT !.calls[i].got[s] = @ + 1]
            \/ call.kind \in Reads \cup {"tool", "destructive"} /\ mu' = served
            \/ call.kind = "subscribe" /\ mu' = [served EXCEPT !.clients[c].has = @ \cup {call.uri}]
            \/ call.kind = "unsubscribe" /\ mu' = [served EXCEPT !.clients[c].has = @ \ {call.uri}]

\* A mistake the runs must catch: one server's list is enough.
FirstList(call) == call.kind \in Lists /\ \E s \in call.to : call.got[s] = Pages
\* listPaginated, of every server asked: until a page comes without a cursor.
AllLists(call) == call.kind \in Lists /\ \A s \in call.to : call.got[s] = Pages

\* Subscriptions are kept by server, for the next connection.
Answered(i) ==
    LET call == mu.calls[i] m == Ends(mu, i, "answered") IN
    /\ call.at = "served" \/ (call.at = "sent" /\ AllLists(call))
    /\ mu' = CASE call.kind = "subscribe" -> [m EXCEPT !.subs = [s \in Servers |-> IF s \in call.to THEN @[s] \cup {call.uri} ELSE @[s]]]
               [] call.kind = "unsubscribe" -> [m EXCEPT !.subs = [s \in Servers |-> IF s \in call.to THEN @[s] \ {call.uri} ELSE @[s]]]
               [] OTHER -> m

\* An error of the server's, too many pages, a connection that is closed already; a timeout takes a call
\* whose answer is late.
CallFails(i) ==
    /\ mu.calls[i].at = "sent"
    /\ mu' = Ends(mu, i, "failed")

\* The run is aborted: its question is taken back and a remote tool cancelled; other requests go on.
Aborted(i) ==
    /\ mu.calls[i].by = "agent"
    /\ \/ mu.calls[i].at = "asks" /\ mu' = Ends(mu, i, "refused")
       \/ RemoteTool(mu.calls[i]) /\ mu.calls[i].at \in {"sent", "served"} /\ mu' = Ends(mu, i, "failed")

-----------------------------------------------------------------------------
(* The panel                                                               *)
Told ==
    /\ mu.wire # <<>>
    /\ mu' = [mu EXCEPT !.page.status = Head(mu.wire), !.wire = Tail(@)]

\* What can be looked into, of a server that is connected as far as the page knows.
CanInspect(s, tab) == mu.page.status[s] /\ Offers(s, tab)
Toggle(s) ==
    /\ Free /\ \E tab \in Lists : CanInspect(s, tab)
    /\ mu' = Op([mu EXCEPT !.page.readers[s] =
                   [@ EXCEPT !.open = ~@, !.tab = IF ~mu.page.readers[s].open /\ ~CanInspect(s, "resources") THEN "prompts" ELSE @]])
PickTab(s) ==
    /\ mu.page.readers[s].open
    /\ \E tab \in Lists \ {mu.page.readers[s].tab} :
         CanInspect(s, tab) /\ mu' = [mu EXCEPT !.page.readers[s] = [@ EXCEPT !.tab = tab, !.error = FALSE]]
ClosePreview(s) ==
    LET reader == mu.page.readers[s] IN
    /\ reader.open /\ CanInspect(s, reader.tab) /\ reader.shown # {}
    /\ mu' = [mu EXCEPT !.page.readers[s].shown = @ \ {IF reader.tab = "resources" THEN "read" ELSE "get"}]

\* An entry of the list that is shown; the Host refuses it when the server is gone by then.
ReadShown(s) ==
    LET reader == mu.page.readers[s]
        kind == IF reader.tab = "resources" THEN "read" ELSE "get"
        asked == Op([mu EXCEPT !.page.readers[s] = [@ EXCEPT !.loading = @ \cup {kind}, !.error = FALSE]])
        call == Call(kind, "page", {s}, mu.connected, AnyUri) IN
    /\ MayCall /\ reader.open /\ CanInspect(s, reader.tab) /\ kind \notin reader.loading
    /\ mu' = LET started == Start(asked, call) IN
             IF Targets(kind, {s}) # {} THEN started ELSE Ends(started, Len(started.calls), "failed")

Next ==
    \/ \E servers \in {{s} : s \in Servers} \cup {Servers} : Reconnect(servers)
    \/ \E s \in Servers : Exits(s) \/ TimerFires(s) \/ Toggle(s) \/ PickTab(s) \/ ReadShown(s) \/ ClosePreview(s)
    \/ \E j \in DOMAIN mu.jobs : Place(j) \/ Resubscribe(j) \/ Placed(j) \/ Reconnected(j)
    \/ \E j \in DOMAIN mu.jobs, s \in Servers : Attempted(j, s)
    \/ ToolStarts \/ CommandStarts \/ SetMode \/ Told
    \/ \E i \in DOMAIN mu.calls : Judge(i) \/ UserAnswers(i) \/ Served(i) \/ Answered(i) \/ CallFails(i) \/ Aborted(i)

Spec == Init /\ [][Next]_mu
-----------------------------------------------------------------------------
\* What the agent subscribed to is what the server keeps its connection subscribed to, across
\* reconnections, exits and retries (subscribe and unsubscribe tools, resubscribe).
SubscriptionsHold ==
    \A s \in Servers :
       LET c == mu.connected[s]
           unsettled == {mu.calls[i].uri : i \in {k \in DOMAIN mu.calls : mu.calls[k].kind = "unsubscribe" /\ mu.calls[k].at # "answered"}} IN
       c # 0 /\ ~Busy(s) => mu.subs[s] \ unsettled \subseteq mu.clients[c].has

\* Once reconnections are over and notifications have arrived, the page shows as connected what is, and
\* the tools are those connections'; a reader loads only while its request is under way (recordConnectedStatus,
\* mcp/changed, McpServerInspector).
ServersAreKnown ==
    /\ mu.jobs = <<>> /\ mu.wire = <<>> =>
          /\ mu.tools = mu.connected
          /\ \A s \in Servers : mu.page.status[s] <=> mu.connected[s] # 0 /\ Open(mu.connected[s])
          /\ ~mu.page.reconnecting
    /\ \A s \in Servers, kind \in Reads :
          kind \in mu.page.readers[s].loading =>
             \E i \in DOMAIN mu.calls : mu.calls[i].by = "page" /\ s \in mu.calls[i].to /\ mu.calls[i].at \in {"sent", "served"}

\* A list of all servers that a command was answered with leaves none of them out, also when one of
\* them is lost while the others answer (listAllResources, listAllPrompts, listPaginated).
ListsAreWhole ==
    \A i \in DOMAIN mu.calls :
       mu.calls[i].kind \in Lists /\ mu.calls[i].at = "answered" => \A s \in mu.calls[i].to : mu.calls[i].got[s] = Pages
=============================================================================
