------------------------------ MODULE PageParts ------------------------------
(***************************************************************************)
(* The parts of the page's state, side by side: the transcript of one      *)
(* session, the task on screen and its runtime (PageTasks), the messages   *)
(* queued behind a run (PageQueue; the definitions of both are these), the *)
(* pull requests, the projects and sessions of the side bar, the trail of  *)
(* screens with the notifications, the settings, the plugins, the side     *)
(* chat with the composer and the questions of the Host.  A behaviour is   *)
(* one of one at the start, so that their states add up and do not         *)
(* multiply; what they do to each other is in the parts (a turn's end, a   *)
(* runtime's start), each of which has the events of the others it depends *)
(* on.  "s" is the state of the parts that have one variable.              *)
(***************************************************************************)
EXTENDS PageQueue, PageTasks

VARIABLES part, s,
          \* Transcript
          log, run, cut, todo, wire, online, lastSeq, rtStreams, messages, showsRun, pendingPrompts, buffer,
          prompt, sync, sent, opens, losses

Transcripts == INSTANCE Transcript WITH
    MaxEvents <- 5, MaxCalls <- 1, MaxPrompts <- 2, MaxOpens <- 1, MaxLosses <- 1, Races <- {},
    streaming <- showsRun, prompts <- sent, pending <- pendingPrompts
Pulls == INSTANCE PullRequests WITH
    Repos <- {"a", "b"}, Plain <- {"c"}, Branches <- {"x"}, MaxOps <- 7, Races <- {}, pr <- s
Screens == INSTANCE Navigation WITH
    Workspaces <- {"p", "q"}, Hubs <- {"pulls"}, MaxEach <- 2, MaxNotifications <- 2, MaxRaised <- 2, MaxSessions <- 3,
    MaxOps <- 3, Races <- {}, nv <- s, pl <- s
Form == INSTANCE SettingsForm WITH MaxEdits <- 2, MaxOthers <- 1, MaxOpens <- 2, Races <- {}, sf <- s
Side == INSTANCE SideChat WITH
    Conversations <- {"p", "q"}, MaxMounts <- 2, MaxOps <- 5, Queries <- {"a", "b"}, Modes <- {"ask", "full-access"},
    AskTypes <- <<"select", "input", "select">>, Races <- {}, sc <- s, cm <- s, qd <- s
Extra == INSTANCE ClientPlugins WITH Faults <- {"none", "apply"}, MaxOps <- 2, Races <- {}, cp <- s

transcript == <<log, run, cut, todo, wire, online, lastSeq, rtStreams, messages, showsRun, pendingPrompts, buffer,
                prompt, sync, sent, opens, losses>>
parts == <<part, s, transcript, taskVars, vars>>

PartsInit ==
    /\ Transcripts!Init /\ TasksInit /\ Init
    /\ \/ part \in {"transcript", "tasks", "queue"} /\ s = {}
       \/ part = "pulls" /\ Pulls!Init
       \/ part = "projects" /\ Screens!ProjectsInit
       \/ part = "places" /\ Screens!Init
       \/ part = "settings" /\ Form!Init
       \/ part = "plugins" /\ Extra!Init
       \/ part = "chat" /\ Side!Init
       \/ part = "composer" /\ Side!ComposerInit
       \/ part = "question" /\ Side!DialogInit

TranscriptStep ==
    part = "transcript" /\ Transcripts!Next /\ UNCHANGED <<part, s, taskVars, vars>>
TasksStep ==
    part = "tasks" /\ TasksNext /\ UNCHANGED <<part, s, transcript, vars>>
QueueStep ==
    part = "queue" /\ Next /\ UNCHANGED <<part, s, transcript, taskVars>>
PullsStep ==
    part = "pulls" /\ Pulls!Next /\ UNCHANGED <<part, transcript, taskVars, vars>>
ProjectsStep ==
    part = "projects" /\ Screens!ProjectsNext /\ UNCHANGED <<part, transcript, taskVars, vars>>
PlacesStep ==
    part = "places" /\ Screens!Next /\ UNCHANGED <<part, transcript, taskVars, vars>>
SettingsStep ==
    part = "settings" /\ Form!Next /\ UNCHANGED <<part, transcript, taskVars, vars>>
PluginsStep ==
    part = "plugins" /\ Extra!Next /\ UNCHANGED <<part, transcript, taskVars, vars>>
ChatStep ==
    part = "chat" /\ Side!Next /\ UNCHANGED <<part, transcript, taskVars, vars>>
ComposerStep ==
    part = "composer" /\ Side!ComposerNext /\ UNCHANGED <<part, transcript, taskVars, vars>>
QuestionStep ==
    part = "question" /\ Side!DialogNext /\ UNCHANGED <<part, transcript, taskVars, vars>>

PartsNext ==
    \/ TranscriptStep \/ TasksStep \/ QueueStep \/ PullsStep \/ ProjectsStep \/ PlacesStep
    \/ SettingsStep \/ PluginsStep \/ ChatStep \/ ComposerStep \/ QuestionStep
PartsSpec == PartsInit /\ [][PartsNext]_parts
-----------------------------------------------------------------------------
\* What the page shows of a run, built event by event with replies streamed and prompts shown
\* early, is what the session's log would show, whenever nothing is under way.  The pull requests
\* listed have those made from the page, and worktrees are told apart; a pull request, and what is said
\* of one, is of the repository and the branch on screen.  The side bar shows
\* the projects as they are registered, each in one group with the sessions that are its own.  Back
\* and forward lead to no archived conversation, no notification is of what is being looked at, and each
\* leads to the session that it tells of.  Settings are as they were chosen last, wherever that was, and
\* what the page and the composer say of them is so.  One client of a plugin runs at a
\* time, it is what the Host has for the workspace on screen or an error says why not, the panel shows
\* the plugins and the trust there are, and a configuration that was saved stays.  A side chat is of the
\* conversation on screen and leaves no fork behind; what is written is in its composer, on its way or
\* with the Host, and in one of these only; it shows a run and a question as the Host has them.  The
\* composer shows the mode, the model and the level of the session and inserts what it was searched for.
\* An answer is what was chosen or typed for its question.
ScreenIsTrue ==
    /\ part = "transcript" => Transcripts!LiveIsHistory
    /\ part = "pulls" => /\ Pulls!OwnAreListed /\ Pulls!WorktreesAreOwn
                         /\ Pulls!CreatedAsShown /\ Pulls!FeedbackIsOfThem
    /\ part = "projects" => Screens!ShownAsRegistered /\ Screens!OneGroupEach
    /\ part = "places" => /\ Screens!NoneArchived /\ Screens!ViewedHasNone
                          /\ Screens!SystemShowsListed /\ Screens!LeadsThere
    /\ part = "settings" => Form!ChoicesAreKept /\ Form!StatusIsTrue /\ Form!ModeIsUsed
    /\ part = "chat" => /\ Side!ForksAreHeld /\ Side!ChatIsOfConversation /\ Side!KeepsInput
                        /\ Side!StreamingIsTrue /\ Side!DialogIsAsked
    /\ part = "composer" => Side!ShowsItsModes /\ Side!InsertsWhatWasTyped
    /\ part = "question" => Side!SentIsMeant /\ Side!AnswersStand /\ Side!OwnAnswersArePlaced
    /\ part = "plugins" => /\ Extra!OneAtATime /\ Extra!PageFollowsHost
                           /\ Extra!PanelIsTrue /\ Extra!ChoicesStand

\* What is typed into the form of a pull request is not written over by a draft that comes late, and
\* the order of the side bar, which only a project that gains a session may change, stays; so does the
\* trail that back and forward move along.
WorkIsKept == [][/\ part = "pulls" => Pulls!TextStays
                 /\ part = "projects" => Screens!KeepsOrder
                 /\ part = "places" => Screens!TrailIsKept /\ Screens!StaysWhereSent]_parts
=============================================================================
