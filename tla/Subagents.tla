------------------------------ MODULE Subagents ------------------------------
(***************************************************************************)
(* One delegate_task call: its tasks run in child sessions, at most Slots  *)
(* at once, each by the same loop, with hooks around its run and a toolbox *)
(* and a permission of its own.  The parent's run belongs to the page or   *)
(* to a headless Host, whose exit code tells how it ended; it is aborted   *)
(* by the user or by SIGINT, and the user may abort a child as well.       *)
(*                                                                         *)
(* Covers packages/subagents, packages/hooks and host/src/headless.ts.     *)
(* Prompts, labels and the output of hooks are left out.                   *)
(***************************************************************************)
EXTENDS PermissionRules, FiniteSets

CONSTANTS N,         \* tasks of the call, at most
          Slots,     \* children that run at once
          MaxTools,  \* tool calls of a child
          Races      \* what this instance admits of "unattended", "again", "stuck hook"

ASSUME DelegationAssumption == N \in Nat

VARIABLE sub

Kids == 1..N
READ_TOOLS == {"read"}
WRITE_TOOLS == {"write inside", "write outside"}
ToolNames == READ_TOOLS \cup WRITE_TOOLS \cup {"bash"}
CallOf(tool) ==
    [kind |-> CASE tool \in READ_TOOLS -> "read" [] tool \in WRITE_TOOLS -> "write" [] tool = "bash" -> "shell",
     target |-> CASE tool = "write outside" -> "outside" [] tool = "bash" -> "none" [] OTHER -> "inside",
     forcePush |-> FALSE, allowlisted |-> TRUE, fitsCommand |-> FALSE, fitsPath |-> FALSE]
Config == [confirmShell |-> FALSE, confine |-> FALSE, allowForcePush |-> FALSE, toolRules |-> <<>>]

NoKid == [at |-> "queued", cut |-> FALSE, limits |-> {}, tools |-> 0, outcome |-> "error", said |-> "nothing", asks |-> "none"]
NoResult == [of |-> 0, ok |-> FALSE, error |-> "none"]

ChildrenInit ==
    \E front \in {"page", "headless"}, model \in BOOLEAN, unattended \in BOOLEAN :
        /\ unattended => "unattended" \in Races /\ front = "page"
        /\ sub = [front |-> front, model |-> model, unattended |-> unattended, run |-> "running", aborted |-> FALSE,
                  call |-> "idle", permission |-> "read-only", tasks |-> 0, next |-> 1, kids |-> [i \in Kids |-> NoKid],
                  results |-> [i \in Kids |-> NoResult], ran |-> {}, exit |-> "none", again |-> {}]

Kid(i) == sub.kids[i]
Running == {i \in Kids : Kid(i).at \in {"starting", "thinking", "asking"}}
Busy == {i \in Kids : Kid(i).at \notin {"queued", "over"}}
Tasks == 1..sub.tasks

-----------------------------------------------------------------------------
\* execute: the tasks are checked, or the call ends with what is wrong with them.
Delegate ==
    /\ sub.run = "running" /\ sub.call = "idle" /\ ~sub.aborted
    /\ \/ \E n \in Kids, permission \in {"read-only", "workspace-write"} :
            sub' = [sub EXCEPT !.call = "running", !.tasks = n, !.permission = permission]
       \/ sub' = [sub EXCEPT !.call = "returned"]

Toolbox == READ_TOOLS \cup (IF sub.permission = "workspace-write" THEN WRITE_TOOLS ELSE {})

\* A mistake the runs must catch: results are kept in the order in which the children end.
PutNext(results, i, result) == [results EXCEPT ![1 + Cardinality({k \in Kids : results[k].of # 0})] = result]
Put(results, i, result) == [results EXCEPT ![i] = result]
Ended(x, i, result) == [x EXCEPT !.kids[i].at = "over", !.kids[i].limits = ToolNames, !.results = Put(@, i, result)]

\* A slot of mapWithConcurrency takes the next task: runSubagent up to the prompt.
Take(i) ==
    /\ sub.call = "running" /\ sub.next = i /\ i \in Tasks /\ Cardinality(Busy) < Slots
    /\ LET x == [sub EXCEPT !.next = @ + 1] IN
       sub' = CASE ~sub.model -> Ended(x, i, [of |-> i, ok |-> FALSE, error |-> "no model"])
                [] sub.model /\ sub.aborted -> Ended(x, i, [of |-> i, ok |-> FALSE, error |-> "aborted"])
                [] OTHER -> [x EXCEPT !.kids[i].at = "starting", !.kids[i].limits = Toolbox]

-----------------------------------------------------------------------------
(* A child's run                                                           *)
\* The before_agent_start hooks are waited for, whatever becomes of them; an abort does not end them.
HooksEnd(i) ==
    /\ Kid(i).at = "starting"
    /\ sub' = [sub EXCEPT !.kids[i].at = "thinking"]

\* Whether a question of the child's can reach someone: it is asked for the child's session.
ChildCanAsk == sub.front = "page"
\* A tool call of the child's: its toolbox, the rules, the tool_call hooks, of which a blocking one may fail.
UseTool(i, tool) ==
    /\ Kid(i).at = "thinking" /\ ~Kid(i).cut /\ Kid(i).tools < MaxTools
    /\ LET verdict == EvaluateToolPermission(sub.permission, Config, CallOf(tool))
           x == [sub EXCEPT !.kids[i].tools = @ + 1] IN
       \/ /\ tool \in Kid(i).limits /\ verdict = "allow"
          /\ sub' = [x EXCEPT !.ran = @ \cup {[kid |-> i, tool |-> tool, asked |-> FALSE]}]
       \/ /\ tool \in Kid(i).limits /\ verdict = "confirm" /\ ChildCanAsk
          /\ sub' = [x EXCEPT !.kids[i].at = "asking", !.kids[i].asks = tool]
       \/ sub' = x
Answer(i) ==
    /\ Kid(i).at = "asking"
    /\ \E yes \in BOOLEAN :
       sub' = [sub EXCEPT !.kids[i].at = "thinking",
                          !.ran = IF yes THEN @ \cup {[kid |-> i, tool |-> Kid(i).asks, asked |-> TRUE]} ELSE @]

\* The loop returns, and agent/settled tells the listener of runSubagent how, before any hook ends.
LoopEnds(i) ==
    /\ Kid(i).at = "thinking"
    /\ \E outcome \in IF Kid(i).cut THEN {"aborted"} ELSE {"done", "error", "max-turns"}, said \in {"task", "nothing"} :
       sub' = [sub EXCEPT !.kids[i].at = "settling", !.kids[i].outcome = outcome, !.kids[i].said = said]

\* The user prompts the child while the hooks of its first run go on: a second run of its session, that
\* of the children in "again".  Until the first one's hooks have ended runSubagent listens to it too and
\* reads its text; then the toolbox is unrestricted, and it goes on with every tool.
PromptedAgain(i) ==
    /\ Kid(i).at = "settling" /\ sub.front = "page" /\ i \notin sub.again
    /\ sub' = [sub EXCEPT !.again = @ \cup {i}]
HeardOf(kid, outcome, said) ==
    IF kid.at \in {"settling", "stuck"} THEN [kid EXCEPT !.outcome = outcome, !.said = said] ELSE kid
UseToolAgain(i, tool) ==
    /\ i \in sub.again /\ tool \in Kid(i).limits /\ Kid(i).tools < MaxTools
    /\ EvaluateToolPermission(sub.permission, Config, CallOf(tool)) # "block"
    /\ \E said \in {"other", "nothing"} :
       LET kid == HeardOf(Kid(i), Kid(i).outcome, said)
           asked == EvaluateToolPermission(sub.permission, Config, CallOf(tool)) = "confirm" IN
       sub' = [sub EXCEPT !.kids[i] = [kid EXCEPT !.tools = @ + 1],
                          !.ran = @ \cup {[kid |-> i, tool |-> tool, asked |-> asked]}]
\* It ends by itself or is aborted, by the user or, as long as runSubagent listens, with the parent.
EndsAgain(i) ==
    /\ i \in sub.again
    /\ \E outcome \in {"done", "error", "aborted", "max-turns"}, said \in {"other", "nothing"} :
       sub' = [sub EXCEPT !.again = @ \ {i}, !.kids[i] = HeardOf(@, outcome, said)]
SecondRun(i) ==
    /\ "again" \in Races
    /\ PromptedAgain(i) \/ EndsAgain(i) \/ \E tool \in ToolNames : UseToolAgain(i, tool)

\* The agent_end and agent_settled hooks have ended: idle resolves.
ResultOf(i) ==
    LET kid == Kid(i) ok == kid.outcome = "done" /\ kid.said # "nothing" IN
    [of |-> i, ok |-> ok, error |-> CASE ok -> "none" [] kid.outcome = "done" -> "no text" [] OTHER -> kid.outcome]
Settled(i) == Kid(i).at = "settling" /\ sub' = Ended(sub, i, ResultOf(i))

\* A hook's shell is killed when its time is over, but what it has started keeps its output open.
HookSticks(i) ==
    /\ "stuck hook" \in Races /\ Kid(i).at \in {"starting", "settling"}
    /\ sub' = [sub EXCEPT !.kids[i].at = "stuck"]

-----------------------------------------------------------------------------
(* The parent                                                              *)
CutKid(kid) == [kid EXCEPT !.cut = TRUE, !.at = IF @ = "asking" THEN "thinking" ELSE @]
Cut(x, ids) == [x EXCEPT !.kids = [i \in Kids |-> IF i \in ids THEN CutKid(x.kids[i]) ELSE x.kids[i]]]
\* The parent's signal: each listening child is aborted too, and its question withdrawn.
AbortParent == sub.run = "running" /\ ~sub.aborted /\ sub' = Cut([sub EXCEPT !.aborted = TRUE], Running)
AbortKid(i) == i \in Running /\ ~Kid(i).cut /\ sub' = Cut(sub, {i})

ReturnResults ==
    /\ sub.call = "running" /\ \A i \in Tasks : Kid(i).at = "over"
    /\ sub' = [sub EXCEPT !.call = "returned"]

\* The parent's run ends; a headless Host then stops, and its exit code says how the run ended.
ParentEnds ==
    /\ sub.run = "running" /\ sub.call # "running"
    /\ \E outcome \in IF sub.aborted THEN {"aborted"} ELSE {"done", "error"} : sub' = [sub EXCEPT !.run = outcome]
Exit ==
    /\ sub.front = "headless" /\ sub.run # "running" /\ sub.exit = "none"
    /\ sub' = [sub EXCEPT !.exit = IF sub.run = "done" THEN "0" ELSE "1"]

\* What goes on by itself.  Nothing obliges the user to answer, or to abort.
Progress ==
    \/ \E i \in Kids : Take(i) \/ HooksEnd(i) \/ LoopEnds(i) \/ Settled(i)
    \/ ReturnResults \/ ParentEnds \/ Exit
ChildrenNext ==
    \/ Progress \/ Delegate \/ AbortParent
    \/ \E i \in Kids : \/ Answer(i) \/ SecondRun(i) \/ HookSticks(i) \/ AbortKid(i)
                       \/ \E tool \in ToolNames : UseTool(i, tool)
ChildrenSpec == ChildrenInit /\ [][ChildrenNext]_sub /\ WF_sub(Progress)
-----------------------------------------------------------------------------
\* A child uses what it was delegated with, in each of its runs: no shell, no change unless it was asked for, and no change
\* outside of the workspace that the user has not agreed to.
KeepToTheirTools ==
    \A use \in sub.ran : /\ use.tool \in Toolbox
                         /\ use.tool = "write outside" => use.asked

\* The parent is told of each task what became of that task, and calls a run without an answer no success.
ResultsAreTheirs ==
    sub.call = "returned" => \A i \in Tasks :
        /\ sub.results[i].of = i
        /\ sub.results[i].ok <=> Kid(i).outcome = "done" /\ Kid(i).said = "task"

\* Nobody is asked on behalf of a run that nobody watches.
NobodyIsAsked == sub.unattended => \A i \in Kids : Kid(i).at # "asking"

\* A headless Host exits once no child runs any more, with 0 only if its run was left to end.
ExitsTell == sub.exit # "none" => Busy = {} /\ (sub.exit = "0" => ~sub.aborted)

\* Once the parent is aborted, no child starts, and those that run are aborted as well.
StartsNoMore == sub.aborted => /\ \A i \in Kids : Kid(i).at = "queued" => sub'.kids[i].at \in {"queued", "over"}
                               /\ \A i \in Running : Kid(i).cut
NoMoreStart == [][StartsNoMore]_sub

\* What a delegated call returns, what its children have done, and how a headless Host exits, is true.
DelegationIsTrue == ResultsAreTheirs /\ KeepToTheirTools /\ ExitsTell

\* An aborted call returns, whatever its children wait for.
AbortReturns == (sub.aborted /\ sub.call = "running") ~> (sub.call = "returned")
=============================================================================
