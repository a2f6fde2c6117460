------------------------------ MODULE AgentParts ------------------------------
(***************************************************************************)
(* What the agent loop calls and what it is called through, side by side:  *)
(* the gate its tool calls pass and the children a call delegates to       *)
(* (ToolGate and Subagents, whose definitions these are), the model's      *)
(* stream, the tools that read, edit, search and run commands in the       *)
(* project, and the connection of the page, which may start without a Host *)
(* and loses it twice.  A behaviour is one of one part, chosen at the      *)
(* start, so that their states add up and do not multiply.  "s" is the     *)
(* state of the stream and of the tools.                                   *)
(***************************************************************************)
EXTENDS ToolGate, Subagents

CONSTANTS edit, shell, Runtimes, Sessions, NoRuntime

VARIABLES part, s,
          log, running, watched, crashes, toHost, toPage, socket, conn, loop, hostStatus, restarting, before, map, rt,
          asking, resumed, queue, shown, opened, base

\* Two calls that the mode "ask" wants confirmed; the user's rule lets one command pass everywhere.
Plain(kind, target) ==
    [kind |-> kind, target |-> target, forcePush |-> FALSE, allowlisted |-> FALSE,
     fitsCommand |-> FALSE, fitsPath |-> FALSE]
EditAndShell == [c \in {edit, shell} |-> IF c = edit THEN Plain("write", "inside") ELSE Plain("shell", "none")]
ShellAllowed ==
    [confirmShell |-> FALSE, confine |-> TRUE, allowForcePush |-> FALSE, toolRules |->
        <<[enabled |-> TRUE, kinds |-> {"shell"}, action |-> "allow", needsCommand |-> TRUE, needsPath |-> FALSE]>>]
Llm == INSTANCE LlmStream WITH
    Apis <- {"anthropic", "compat", "responses", "gemini"}, MaxAttempts <- 2, MaxEvents <- 4, Races <- {}, llm <- s
Tool == INSTANCE WorkTools WITH MaxLines <- 4, MaxCalls <- 1, Races <- {}, wt <- s
Client == INSTANCE ClientRuntimes WITH
    None <- NoRuntime,
    MaxSeq <- 1, MaxCrashes <- 2, MaxLag <- 2, SharedSession <- FALSE, StartsOffline <- TRUE, DiesInResume <- FALSE,
    RetriesOnline <- FALSE

client == <<log, running, watched, crashes, toHost, toPage, socket, conn, loop, hostStatus, restarting, before, map, rt,
            asking, resumed, queue, shown, opened, base>>
parts == <<part, s, sub, vars, client>>

PartsInit ==
    /\ Init /\ ChildrenInit /\ Client!Init
    /\ \/ part = "gate" /\ s = {}
       \/ part = "llm" /\ Llm!Init /\ unattended
       \/ part = "children" /\ s = {} /\ unattended
       \/ part = "tools" /\ Tool!Init /\ unattended
       \/ part = "client" /\ s = {} /\ unattended
    /\ part # "children" => sub.front = "page" /\ sub.model

GateStep == part = "gate" /\ Next /\ UNCHANGED <<part, s, sub, client>>
LlmStep == part = "llm" /\ Llm!Next /\ UNCHANGED <<part, sub, vars, client>>
ChildStep == part = "children" /\ ChildrenNext /\ UNCHANGED <<part, s, vars, client>>
ToolStep == part = "tools" /\ Tool!Next /\ UNCHANGED <<part, sub, vars, client>>
ClientStep == part = "client" /\ Client!Next /\ UNCHANGED <<part, s, sub, vars>>

PartsNext == GateStep \/ LlmStep \/ ChildStep \/ ToolStep \/ ClientStep

\* The gate is as fair as in its own specification.  A child's loop goes on, and one whose last process
\* is gone closes its pipes.  The page takes what arrives, the Host answers, timers fire, and a Host that
\* is asked for again and again starts at last.
PartsSpec ==
    /\ PartsInit /\ [][PartsNext]_parts
    /\ Fair
    /\ WF_sub(part = "children" /\ Progress)
    /\ WF_s(part = "tools" /\ Tool!Closed)
    /\ WF_client(Client!Serve) /\ WF_client(Client!Arrives) /\ WF_client(Client!Lost) /\ WF_client(Client!Retries)
    /\ SF_client(Client!Connects)
-----------------------------------------------------------------------------
\* A reply that counts as complete is what the provider sent in its last attempt, whole, each call
\* with its own arguments, and its signatures go back unchanged on the parts they came with.  Reading
\* on where each answer says gives the whole file; an edit changes what it names and nothing else; a
\* search finds the first of what matches; and of a command's output the end is told.
RepliesAreWhole ==
    /\ part = "llm" => Llm!AssembledIsSent /\ Llm!CompleteIsWhole /\ Llm!SignaturesReturn
    /\ part = "tools" => Tool!PagesMakeTheFile /\ Tool!EditsAreExact /\ Tool!FindsTheFirst /\ Tool!OutputIsTheEnd

\* Once a run is aborted, its calls end wherever they wait, its model call is not attempted again, nor
\* more often than allowed, and a delegated call comes to its end: its children are aborted with it, and
\* no other one starts.  A command is stopped with all it has started, by an abort as by the end of its
\* time, and settles.  And a page that lost its connection gets one again, or says that it has given up.
NothingHangs ==
    /\ AbortEndsCalls
    /\ [][(part = "llm" => Llm!StaysAborted) /\ (part = "children" => StartsNoMore)]_parts
    /\ [](part = "tools" => Tool!CommandsEnd)
    /\ (part = "tools" /\ s.tool = "bash" /\ s.stopped) ~> (part = "tools" /\ s.tool = "bash" /\ s.phase = "settled")
    /\ (part = "children" /\ sub.aborted /\ sub.call = "running") ~> (part = "children" /\ sub.call = "returned")
    /\ Client!Reconnects
=============================================================================
