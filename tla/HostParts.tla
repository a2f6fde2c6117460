------------------------------ MODULE HostParts ------------------------------
(***************************************************************************)
(* Services of the Host, side by side: the scheduled tasks (Schedule,      *)
(* whose definitions these are), the store of a session that is deleted    *)
(* while others use it, and, with "s" for its state, each of the others.   *)
(* A behaviour is one of one service, chosen at the start, so that their   *)
(* states add up and do not multiply.                                      *)
(***************************************************************************)
EXTENDS Schedule, TLC

VARIABLES part, s,
          file, objects, open, loading, holds, run, compacting, chunk, subscribed, seen, written

Plugin == INSTANCE Plugins WITH
    Faults <- {"none", "client", "import", "apply", "client only"}, MaxVersions <- 2, MaxOps <- 2, N <- 3, Services <- {"x", "y"}, Races <- {},
    pm <- s, po <- s
Server == INSTANCE Mcp WITH
    MaxClients <- 3, MaxVersions <- 2, MaxCalls <- 1, MaxStreams <- 1, Delays <- 2, Races <- {}, mcp <- s
McpSetups ==
    {[confirm |-> TRUE,
      servers |-> ("m" :> [offers |-> {"resources", "subscribe", "prompts"}, trusted |-> TRUE, http |-> FALSE] @@
                   "n" :> [offers |-> {"resources"}, trusted |-> FALSE, http |-> TRUE])],
     [confirm |-> FALSE,
      servers |-> ("m" :> [offers |-> {"resources", "subscribe"}, trusted |-> FALSE, http |-> TRUE] @@
                   "n" :> [offers |-> {"prompts"}, trusted |-> FALSE, http |-> FALSE])]}
Used == INSTANCE McpUse WITH
    Servers <- {"m", "n"}, Uris <- {"u"}, Setups <- McpSetups, Pages <- 1, Delays <- 1, MaxCalls <- 2, MaxOps <- 2,
    Races <- {}, mu <- s
Index == INSTANCE SessionIndex WITH
    Ids <- {1, 2}, MaxEvents <- 2, MaxWrites <- 2, MaxFaults <- 1, Races <- {}, si <- s
Provider == INSTANCE Providers WITH
    Ids <- {"p", "q"}, MaxOps <- 4, MaxTurns <- 9, Races <- {}, pv <- s, mp <- s
Skill == INSTANCE Skills WITH MaxOps <- 3, Races <- {}, sk <- s
Remembered == INSTANCE Memory WITH Callers <- {"c1", "c2"}, MaxOps <- 4, Races <- {}, me <- s
Stored == INSTANCE SessionStore WITH
    MaxChunk <- 2, DeletesRace <- TRUE, TornWrites <- TRUE, SlowSummaries <- TRUE, MaxEvents <- 4, MaxObjects <- 3

store == <<file, objects, open, loading, holds, run, compacting, chunk, subscribed, seen, written>>
parts == <<part, s, vars, store>>

PartsInit ==
    /\ Init /\ Stored!Init
    /\ \/ part = "plugins" /\ Plugin!Init
       \/ part = "mcp" /\ Server!Init
       \/ part = "mcp use" /\ Used!Init
       \/ part = "index" /\ Index!Init
       \/ part = "providers" /\ Provider!Init
       \/ part = "models" /\ Provider!PageInit
       \/ part = "skills" /\ Skill!Init
       \/ part = "memory" /\ Remembered!Init
       \/ part = "order" /\ Plugin!OrderInit
       \/ part \in {"schedule", "store"} /\ s = {}

PluginStep == part = "plugins" /\ Plugin!Next /\ UNCHANGED <<part, vars, store>>
ServerStep == part = "mcp" /\ Server!Next /\ UNCHANGED <<part, vars, store>>
UseStep == part = "mcp use" /\ Used!Next /\ UNCHANGED <<part, vars, store>>
IndexStep == part = "index" /\ Index!Next /\ UNCHANGED <<part, vars, store>>
ProviderStep == part = "providers" /\ Provider!Next /\ UNCHANGED <<part, vars, store>>
ModelsStep == part = "models" /\ Provider!PageNext /\ UNCHANGED <<part, vars, store>>
SkillStep == part = "skills" /\ Skill!Next /\ UNCHANGED <<part, vars, store>>
MemoryStep == part = "memory" /\ Remembered!Next /\ UNCHANGED <<part, vars, store>>
OrderStep == part = "order" /\ Plugin!Place /\ UNCHANGED <<part, vars, store>>
ScheduleStep == part = "schedule" /\ Next /\ UNCHANGED <<part, s, store>>
StoreStep == part = "store" /\ Stored!Next /\ UNCHANGED <<part, s, vars>>

PartsNext ==
    \/ PluginStep \/ ServerStep \/ UseStep \/ IndexStep \/ ProviderStep \/ ModelsStep
    \/ SkillStep \/ MemoryStep \/ OrderStep \/ ScheduleStep \/ StoreStep
PartsSpec == PartsInit /\ [][PartsNext]_parts
-----------------------------------------------------------------------------
\* Plugins: a forced reload that fails never ends with nothing where a Host half ran, unless that
\* could not be applied again.  Providers: a change of one leaves the others alone, and of it what
\* the change is not about.  Skills: the same, and what was typed stays.  Memory: an agent writes what
\* was confirmed, where it may.  Sessions: none is deleted under its run, and a log that was deleted is
\* written again by those only who had its session before.
KeepsWorking ==
    [][/\ part = "plugins" => Plugin!KeepsRunning
       /\ part = "providers" => Provider!RestIsKept
       /\ part = "skills" => Skill!ChangesAreExact
       /\ part = "memory" => Remembered!WritesAreMeant /\ Remembered!TypingStays
       /\ part = "store" => Stored!LeavesDeleted]_parts

\* Plugins: a project's code runs only for the active workspace and while the user trusts it; once
\* everything has settled, the version that runs is the one installed, enabled or saved last, or
\* the error says why not; and the bundle served to pages is not older than its sources.  Plugins
\* are mounted after those that provide what they need, and what lies on a cycle is reported.
\* MCP: once connects and refreshes have ended, the registered tools are those the server has now
\* unless it refused the last list of them, of a process that lives, or none and the status says so; every other process is told to end; no
\* call waits on a connection that is gone; and after an unexpected exit the server is tried again
\* until its delays are used up; what was subscribed to stays so on the next connection, a list is of
\* all servers asked, and the page and the tools know the connections there are.  Sessions: lists and searches answer from the logs as they are now,
\* whichever of the files, the cache, the memory and the index they read; and switching the storage
\* leaves every open session whole on disk.  Providers: the Host serves those of the file whose
\* protocols are there; each is called with the key it was given last, the verdict shown was given on
\* that key, and new tasks use the default that was chosen; the models
\* page says truly what a model's capabilities are from, offers and saves the models of the form, and
\* hides those that the user hid.  Skills: those that are on are offered, the
\* panel lists what is there and edits the one it shows.  Memory: an entry stays until somebody removes
\* it who has seen it.
ServesWhatIsThere ==
    /\ part = "plugins" => Plugin!TrustedOnly /\ Plugin!LatestRuns /\ Plugin!BundleIsFresh
    /\ part = "order" => Plugin!ProvidersComeFirst /\ Plugin!CyclesAreReported
    /\ part = "mcp" => Server!ServedToolsWork /\ Server!NoOrphan /\ Server!NothingHangs /\ Server!KeepsTrying
    /\ part = "mcp use" => Used!SubscriptionsHold /\ Used!ServersAreKnown /\ Used!ListsAreWhole
    /\ part = "index" => Index!AnswersAreCurrent /\ Index!SwitchesKeepLogs
    /\ part = "providers" =>
          Provider!KeysAreKept /\ Provider!ServesTheFile /\ Provider!DefaultFollows /\ Provider!CheckIsOfNow
    /\ part = "models" => /\ Provider!TagsAreTrue /\ Provider!OffersAreOfAddress /\ Provider!SavesWhatIsShown
                          /\ Provider!DefaultIsTold /\ Provider!HiddenAsMeant
    /\ part = "skills" => Skill!EditorIsTheirs /\ Skill!AllAreOffered /\ Skill!ListIsTrue
    /\ part = "memory" => Remembered!EntriesAreKept
=============================================================================
