------------------------------ MODULE PageTasks ------------------------------
(***************************************************************************)
(* Which task the page shows, on which runtime, with which model, and      *)
(* where a prompt goes: store/runtime.ts (connect, prewarmWorkspace,       *)
(* disconnect, prepareNewTask, setModel), store/context.ts (syncSession),  *)
(* sendFromComposer of App.tsx and sendMessage of store/transcript.ts up   *)
(* to the Host.  Each await is a point where everything else may happen;   *)
(* connectionVersion tells a connect that another one has overtaken it.    *)
(***************************************************************************)
EXTENDS Naturals, Sequences, FiniteSets

CONSTANTS Saved,       \* saved sessions; "new" is a task that has none
          Models, NoModel,
          MaxConnects, MaxWarm, MaxPicks, MaxSends,
          MaxOps,      \* bound on connects and picks together
          TaskRaces    \* what this instance admits of "switch", "early", "unread" and "slow stop"

VARIABLES version,     \* connectionVersion
          connection,  \* disconnected, starting, running or exited
          runtimeId,   \* the runtime on screen, 0 for none
          shown,       \* the task on screen: a saved session or "new"
          model,       \* the model the composer shows
          queued,      \* queuedModelSelection
          default,     \* the model of the settings
          connects,    \* connects under way, by their version
          pending,     \* version of pendingConnection, or 0
          picks,       \* setModel calls, in their order
          runtimes,    \* what agent.start made: task, model, whether it lives, is stopped or was left
                       \* by a start that failed, and whether it has had a turn
          listed,      \* the store's runtimes
          warmed,
          send         \* the message being sent

taskVars == <<version, connection, runtimeId, shown, model, queued, default, connects, pending,
          picks, runtimes, listed, warmed, send>>
task == <<version, connection, runtimeId, shown, connects, pending>>
models == <<model, queued, default, picks>>

Keys == Saved \cup {"new"}
None == [at |-> "none", key |-> "new", waits |-> 0, rt |-> 0, count |-> 0]
Runtime(key) ==
    [key |-> key, state |-> "live", turns |-> IF key = "new" THEN 0 ELSE 1,
     model |-> IF key = "new" THEN NoModel ELSE CHOOSE m \in Models : TRUE]
Running == {i \in DOMAIN picks : picks[i].at # "over"}
\* pendingModelChange of a runtime: its last setModel, while that is under way.
PendingChange(rt) == {i \in Running : i = Len(picks) /\ picks[i].rt = rt}
\* taskNotStarted: no message is on screen, the one being sent included.
Unstarted ==
    \/ runtimeId = 0
    \/ /\ runtimes[runtimeId].key = "new" /\ runtimes[runtimeId].turns = 0
       /\ send.at # "goes" \/ send.rt # runtimeId
\* Whether the user may leave the task on screen: while a message is on its way, only as a "switch".
MayLeave == "switch" \in TaskRaces \/ send.at \in {"none", "sent"}

TasksInit ==
    /\ version = 0 /\ connection = "disconnected" /\ runtimeId = 0 /\ shown = "new"
    /\ model = NoModel /\ queued = NoModel /\ default = NoModel
    /\ connects = <<>> /\ pending = 0 /\ picks = <<>> /\ runtimes = <<>> /\ listed = {}
    /\ warmed = 0 /\ send = None

-----------------------------------------------------------------------------
(* connect                                                                 *)

\* A connect that is pending for the same task is joined instead.
Begin(key) ==
    /\ pending # 0 => connects[pending].key # key
    /\ Len(connects) < MaxConnects /\ Len(connects) + Len(picks) < MaxOps /\ version' = version + 1
    /\ connects' = Append(connects, [version |-> version', key |-> key, at |-> "start", rt |-> 0, pick |-> 0])
    /\ pending' = Len(connects')
    /\ connection' = "starting" /\ shown' = key
    /\ queued' = IF key = "new" THEN queued ELSE NoModel
Connect(key) ==
    /\ MayLeave
    /\ key = "new" \/ shown # key \/ connection # "running"
    /\ Begin(key)
    /\ UNCHANGED <<runtimeId, model, default, picks, runtimes, listed, warmed, send>>

\* What is over is forgotten but for its place.
Over == [rt |-> 0, model |-> NoModel, at |-> "over"]
Settled(c, at) ==
    /\ connects' = [connects EXCEPT ![c].at = at, ![c].rt = IF at = "done" THEN 0 ELSE @,
                                    ![c].pick = IF at = "done" THEN 0 ELSE @]
    /\ pending' = IF at = "done" /\ pending = c THEN 0 ELSE pending
\* A mistake the runs must catch: nobody asks whether the runtime is still wanted.
AlwaysCurrent(c) == TRUE
Current(c) == connects[c].version = version

\* A mistake the runs must catch: a runtime that comes too late is left running.
KeptRuntime(key) == Runtime(key)
StoppedRuntime(key) == [Runtime(key) EXCEPT !.state = "stopped"]
LeftRuntime(key) == [Runtime(key) EXCEPT !.state = "left"]

\* agent.start has answered: an outdated connect stops its runtime, a current one shows it.
Started(c) ==
    /\ connects[c].at = "start"
    /\ \/ /\ ~Current(c) /\ Settled(c, "done")
          /\ runtimes' = Append(runtimes, StoppedRuntime(connects[c].key))
          /\ UNCHANGED <<runtimeId, connection, listed>>
       \/ /\ Current(c)
          /\ runtimes' = Append(runtimes, Runtime(connects[c].key))
          /\ runtimeId' = Len(runtimes') /\ connection' = "running"
          /\ listed' = listed \cup {runtimeId'}
          /\ connects' = [connects EXCEPT ![c].at = "sync", ![c].rt = Len(runtimes')]
          /\ UNCHANGED pending
    /\ UNCHANGED <<version, shown>>
ConnectStarted ==
    /\ \E c \in DOMAIN connects : Started(c)
    /\ UNCHANGED <<models, warmed, send>>
\* The subscription of a saved session fails: the runtime that agent.start has registered by then
\* stays, and the store never lists it.  As "unread", what the runtime shows cannot be fetched.
ConnectFails ==
    /\ \E c \in DOMAIN connects :
        /\ Settled(c, "done")
        /\ connection' = IF Current(c) THEN "exited" ELSE connection
        /\ \/ /\ connects[c].at = "start" /\ connects[c].key # "new"
              /\ runtimes' = Append(runtimes, LeftRuntime(connects[c].key))
           \/ connects[c].at = "sync" /\ "unread" \in TaskRaces /\ UNCHANGED runtimes
    /\ UNCHANGED <<version, runtimeId, shown, models, listed, warmed, send>>

\* syncSession: the runtime's model is shown, or the pick that is about to be applied to it.
ConnectSynced ==
    /\ \E c \in DOMAIN connects :
        /\ connects[c].at = "sync"
        /\ \/ ~Current(c) /\ Settled(c, "done") /\ UNCHANGED model
           \/ /\ Current(c) /\ Settled(c, "apply")
              /\ model' = IF queued # NoModel THEN queued ELSE runtimes[runtimeId].model
    /\ UNCHANGED <<version, connection, runtimeId, shown, queued, default, picks, runtimes, listed, warmed, send>>

\* setModel on a runtime; `model` is shown at once and confirmed later.
PickOn(rt, m) ==
    /\ picks' = Append(picks, [rt |-> rt, model |-> m, at |-> "asks"])
    /\ model' = m

\* What was picked for the task is applied, or else the default; a pick on its way is waited for.
ConnectApplies ==
    /\ \E c \in DOMAIN connects :
        /\ connects[c].at = "apply"
        /\ LET saved == connects[c].key # "new"
               wanted == IF queued # NoModel \/ saved THEN queued
                         ELSE IF default = model THEN NoModel ELSE default
               change == PendingChange(connects[c].rt) IN
           \/ ~Current(c) /\ Settled(c, "done") /\ UNCHANGED <<model, queued, picks>>
           \/ /\ Current(c) /\ (change # {} \/ wanted = NoModel)
              /\ queued' = IF saved THEN NoModel ELSE queued
              /\ connects' = [connects EXCEPT ![c].at = "model", ![c].pick = IF change = {} THEN 0 ELSE Len(picks)]
              /\ UNCHANGED <<model, picks, pending>>
           \/ /\ Current(c) /\ change = {} /\ wanted # NoModel
              /\ PickOn(runtimeId, wanted)
              /\ queued' = IF saved THEN NoModel ELSE IF Unstarted THEN wanted ELSE queued
              /\ connects' = [connects EXCEPT ![c].at = "model", ![c].pick = Len(picks')]
              /\ UNCHANGED pending
    /\ UNCHANGED <<version, connection, runtimeId, shown, default, runtimes, listed, warmed, send>>
ConnectEnds ==
    /\ \E c \in DOMAIN connects :
        /\ connects[c].at = "model" /\ connects[c].pick \notin Running /\ Settled(c, "done")
    /\ UNCHANGED <<version, connection, runtimeId, shown, models, runtimes, listed, warmed, send>>

-----------------------------------------------------------------------------
\* prewarmWorkspace: a runtime nobody shows yet; it is stopped if another workspace is wanted by then.
Prewarm ==
    /\ warmed < MaxWarm /\ warmed' = warmed + 1
    /\ \E state \in {"live", "stopped"} :
        /\ runtimes' = Append(runtimes, [Runtime("new") EXCEPT !.state = state])
        /\ listed' = IF state = "live" THEN listed \cup {Len(runtimes')} ELSE listed
    /\ UNCHANGED <<task, models, send>>

PrepareNewTask ==
    /\ MayLeave
    /\ version < MaxConnects + 1 /\ version' = version + 1
    /\ pending' = 0 /\ runtimeId' = 0 /\ connection' = "disconnected" /\ shown' = "new"
    /\ UNCHANGED <<connects, models, runtimes, listed, warmed, send>>

\* disconnect: the runtime is stopped, and the screen cleared if it still shows it.
Leaves ==
    /\ MayLeave
    /\ version < MaxConnects + 1 /\ version' = version + 1
    /\ pending' = 0 /\ queued' = NoModel
    /\ runtimes' = IF runtimeId = 0 THEN runtimes ELSE [runtimes EXCEPT ![runtimeId].state = "stopped"]
    /\ UNCHANGED <<shown, model, default, connects, picks, warmed, send>>
Disconnect ==
    /\ Leaves /\ listed' = listed \ {runtimeId}
    /\ runtimeId' = 0 /\ connection' = "disconnected"
\* As "slow stop", other things happen before the Host has answered, or it never does.
StopsSlowly ==
    "slow stop" \in TaskRaces /\ runtimeId # 0 /\ Leaves /\ UNCHANGED <<runtimeId, connection, listed>>
StopEnds ==
    /\ "slow stop" \in TaskRaces
    /\ \E rt \in listed \cap DOMAIN runtimes :
        /\ runtimes[rt].state = "stopped" /\ listed' = listed \ {rt}
        /\ runtimeId' = IF runtimeId = rt THEN 0 ELSE runtimeId
        /\ connection' = IF runtimeId = rt THEN "disconnected" ELSE connection
    /\ UNCHANGED <<version, shown, connects, pending, models, runtimes, warmed, send>>

-----------------------------------------------------------------------------
(* setModel                                                                *)
PickModel(m) ==
    /\ Len(picks) < MaxPicks /\ Len(connects) + Len(picks) < MaxOps /\ m # model
    /\ \/ /\ runtimeId = 0 \/ connection = "starting"
          /\ queued' = m /\ model' = m /\ UNCHANGED picks
       \/ /\ runtimeId # 0 /\ connection # "starting" /\ PickOn(runtimeId, m)
          /\ queued' = IF Unstarted THEN m ELSE queued
    /\ UNCHANGED <<task, default, runtimes, listed, warmed, send>>

\* A message that waits for a pick that fails is not sent.
GivesUp(i) == IF send.at = "picks" /\ send.waits = i THEN [send EXCEPT !.at = "none"] ELSE send

\* One after the other for a runtime; the Host sets it unless it turns the model down.
Earlier(i) == {j \in Running : j < i /\ picks[j].rt = picks[i].rt}
PickReaches ==
    /\ \E i \in Running :
        /\ picks[i].at = "asks" /\ Earlier(i) = {}
        /\ \/ /\ runtimeId = picks[i].rt /\ runtimes[picks[i].rt].state = "live"
              /\ runtimes' = [runtimes EXCEPT ![picks[i].rt].model = picks[i].model]
              /\ picks' = [picks EXCEPT ![i].at = "set"] /\ UNCHANGED send
           \/ /\ picks' = [picks EXCEPT ![i] = IF runtimeId = @.rt THEN [@ EXCEPT !.at = "refused"] ELSE Over]
              /\ send' = GivesUp(i) /\ UNCHANGED runtimes
    /\ UNCHANGED <<task, model, queued, default, listed, warmed>>
PickConfirmed ==
    /\ \E i \in Running :
        /\ picks[i].at = "set" /\ picks' = [picks EXCEPT ![i] = Over]
        /\ \/ /\ runtimeId = picks[i].rt
              /\ model' = picks[i].model /\ default' = picks[i].model /\ UNCHANGED send
           \/ /\ runtimeId # picks[i].rt
              /\ send' = GivesUp(i) /\ UNCHANGED <<model, default>>
    /\ UNCHANGED <<task, queued, runtimes, listed, warmed>>

\* A mistake the runs must catch: the composer keeps showing the model that was turned down.
RolledBackNot(i) == model

\* A refused pick is not offered to the next runtime; the runtime's own model is shown again, unless
\* that cannot be read.
RolledBack(i) == IF runtimeId = picks[i].rt THEN runtimes[runtimeId].model ELSE model
Unreadable(rt) ==
    \/ "unread" \in TaskRaces
    \/ "slow stop" \in TaskRaces /\ rt \in DOMAIN runtimes /\ runtimes[rt].state = "stopped"
PickRefused ==
    /\ \E i \in Running :
        /\ picks[i].at = "refused" /\ picks' = [picks EXCEPT ![i] = Over]
        /\ model' = RolledBack(i) \/ (Unreadable(picks[i].rt) /\ UNCHANGED model)
        /\ queued' = IF runtimeId = picks[i].rt /\ queued = picks[i].model THEN NoModel ELSE queued
    /\ UNCHANGED <<task, default, runtimes, listed, warmed, send>>

-----------------------------------------------------------------------------
(* Sending: sendFromComposer, then sendMessage                             *)
Going(s) == IF runtimeId = 0 THEN [s EXCEPT !.at = "none"] ELSE [s EXCEPT !.at = "goes", !.rt = runtimeId]
\* A pick that is on its way is waited for, and later ones are not.
AwaitsPick(s) ==
    LET asked == [s EXCEPT !.waits = Len(picks)] IN
    IF PendingChange(runtimeId) = {} THEN Going(asked) ELSE [asked EXCEPT !.at = "picks"]
\* A mistake the runs must catch: the prompt does not wait for the pick that is being applied.
ChecksPicksOnly(s) == AwaitsPick(s)
\* So is a connect that is about to apply what was picked.
Checked(s) ==
    IF pending # 0 /\ queued # NoModel THEN [s EXCEPT !.at = "connects", !.waits = pending] ELSE AwaitsPick(s)

\* The default that a connect is about to apply is not waited for: "early".
Send ==
    /\ send.at \in {"none", "sent"} /\ send.count < MaxSends
    /\ LET new == [None EXCEPT !.key = shown, !.count = send.count + 1] IN
       \/ /\ connection = "running" /\ send' = Checked(new)
          /\ "early" \in TaskRaces \/ pending = 0 \/ queued # NoModel
          /\ UNCHANGED <<task, queued>>
       \/ /\ connection # "running" /\ shown = "new"
          /\ \/ pending # 0 /\ connects[pending].key = "new" /\ UNCHANGED <<task, queued>>
             \/ Begin("new") /\ UNCHANGED runtimeId
          /\ send' = [new EXCEPT !.at = "opens", !.waits = pending']
    /\ UNCHANGED <<model, default, picks, runtimes, listed, warmed>>

\* The connect it waited for is over; a task that is not running leaves the text in the composer.
SendOpened ==
    /\ send.at = "opens" /\ connects[send.waits].at = "done"
    /\ send' = IF connection = "running" THEN Checked(send) ELSE [send EXCEPT !.at = "none"]
    /\ UNCHANGED <<task, models, runtimes, listed, warmed>>
SendConnected ==
    /\ send.at = "connects" /\ connects[send.waits].at = "done" /\ send' = AwaitsPick(send)
    /\ UNCHANGED <<task, models, runtimes, listed, warmed>>
SendPicked ==
    /\ send.at = "picks" /\ send.waits \notin Running /\ send' = Going(send)
    /\ UNCHANGED <<task, models, runtimes, listed, warmed>>

\* The Host has the prompt: the task has started, and its model lives in the runtime.  A message that
\* steers a turn leaves what is queued.
SendReaches ==
    /\ send.at = "goes" /\ runtimes[send.rt].state = "live"
    /\ send' = [send EXCEPT !.at = "sent"]
    /\ runtimes' = [runtimes EXCEPT ![send.rt].turns = 1]
    /\ queued' = NoModel \/ (runtimes[send.rt].turns # 0 /\ UNCHANGED queued)
    /\ UNCHANGED <<task, model, default, picks, listed, warmed>>
\* The Host does not take it, or its runtime has been stopped: the text goes back to the composer.
SendFails ==
    /\ send.at = "goes" /\ send' = [send EXCEPT !.at = "none"]
    /\ UNCHANGED <<task, models, runtimes, listed, warmed>>

TasksNext ==
    \/ \E key \in Keys : Connect(key)
    \/ ConnectStarted \/ ConnectFails \/ ConnectSynced \/ ConnectApplies \/ ConnectEnds
    \/ Prewarm \/ PrepareNewTask \/ Disconnect \/ StopsSlowly \/ StopEnds
    \/ \E m \in Models : PickModel(m)
    \/ PickReaches \/ PickConfirmed \/ PickRefused
    \/ Send \/ SendOpened \/ SendConnected \/ SendPicked \/ SendReaches \/ SendFails

TasksSpec == TasksInit /\ [][TasksNext]_taskVars
-----------------------------------------------------------------------------
\* Every runtime that works is one the store lists, so that something can stop it.  The one exception
\* is what a start that failed has left.
RuntimesAreListed == \A rt \in DOMAIN runtimes : runtimes[rt].state = "live" => rt \in listed

\* However connects overtake each other, a task that counts as running is the one on screen.
ScreenIsTask == connection = "running" => runtimeId # 0 /\ runtimes[runtimeId].key = shown

\* A message that a runtime still takes goes to the task it was typed in, and is answered by the model
\* the composer shows, unless that was picked after the message went off.
PromptGoesAsShown ==
    send.at = "goes" /\ runtimes[send.rt].state = "live" =>
        /\ runtimes[send.rt].key = send.key
        /\ \/ PendingChange(send.rt) # {} /\ Len(picks) > send.waits
           \/ runtimes[send.rt].model = model

\* Once nothing is under way the composer shows the model that a runtime has, while it lives.
ModelIsTrue ==
    /\ connection = "running" /\ runtimes[runtimeId].state = "live"
    /\ Running = {} /\ \A c \in DOMAIN connects : connects[c].at = "done"
    => model = runtimes[runtimeId].model

\* The task, the runtime and the model on screen are those that work, and nothing else goes on working.
TaskIsTrue == ScreenIsTask /\ RuntimesAreListed /\ PromptGoesAsShown /\ ModelIsTrue
=============================================================================
