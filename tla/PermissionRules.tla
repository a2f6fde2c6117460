-------------------------- MODULE PermissionRules --------------------------
(***************************************************************************)
(* What the rules of packages/permissions say of one tool call: allow it,  *)
(* block it, or have the user confirm it.  A call is known by its kind, by *)
(* where its first path outside the workspace (or else its first path)     *)
(* points, and by whether its command or path fits a prefix somebody has   *)
(* configured.  The names of tools, and how paths and commands are         *)
(* written, are abstracted to these.                                       *)
(***************************************************************************)
EXTENDS Naturals, Sequences, SequencesExt

Modes == {"read-only", "ask", "workspace-write", "full-access"}
AgentModes == {"agent", "plan", "ask"}
Verdicts == {"allow", "confirm", "block"}

\* The kinds of tools that the rules tell apart.
Writes == {"write", "download"}
Interactive == {"download", "browser-act", "computer-act"}
SideEffects == Interactive \cup {"write", "shell", "mcp", "memory-write"}
Kinds == SideEffects \cup {"read", "memory-read", "subagent-read", "subagent-write", "other"}
Known(call) == call.kind # "other"

ToolCalls == [kind : Kinds, target : {"none", "inside", "outside"},
              forcePush : BOOLEAN, allowlisted : BOOLEAN,
              fitsCommand : BOOLEAN, fitsPath : BOOLEAN]
ToolRules == [enabled : BOOLEAN, kinds : SUBSET Kinds, action : Verdicts,
              needsCommand : BOOLEAN, needsPath : BOOLEAN]
Settings == [confirmShell : BOOLEAN, confine : BOOLEAN, allowForcePush : BOOLEAN,
             toolRules : Seq(ToolRules)]

PermissionForAgentMode(agentMode, permission) ==
    IF agentMode = "agent" THEN permission ELSE "read-only"

\* A rule speaks of a call if it is enabled, its pattern fits, and the prefixes it has fit too.
Speaks(rule, call) ==
    /\ rule.enabled /\ call.kind \in rule.kinds
    /\ rule.needsCommand => call.fitsCommand
    /\ rule.needsPath => call.target # "none" /\ call.fitsPath

Outside(call) == call.kind \in Writes /\ call.target = "outside"

\* Nothing allows these, not even a rule made by the user.
Capped(mode, settings, call) ==
    \/ mode = "read-only" /\ (call.kind \in SideEffects \cup {"subagent-write"} \/ ~Known(call))
    \/ Outside(call) /\ settings.confine /\ mode # "full-access"
    \/ call.kind = "shell" /\ ~settings.allowForcePush /\ call.forcePush

\* What a rule of the user's says: where nobody wants to be asked, confirming is allowing.
ByRule(mode, rule) ==
    IF rule.action = "confirm" /\ mode = "full-access" THEN "allow" ELSE rule.action

ShellNeedsUser(mode, settings, call) ==
    /\ call.kind = "shell"
    /\ \/ settings.confirmShell
       \/ mode \in {"ask", "workspace-write"} /\ ~call.allowlisted

NeedsUser(mode, settings, call) ==
    LET asks == mode \in {"ask", "workspace-write"} IN
    \/ asks /\ call.kind = "subagent-write"
    \/ call.kind = "write" /\ Outside(call)
    \/ asks /\ call.kind = "write" /\ call.target = "none"
    \/ mode = "ask" /\ call.kind = "write"
    \/ ShellNeedsUser(mode, settings, call)
    \/ asks /\ ~Known(call)

\* Caps come first, then the first rule that speaks, if one does, then what the mode makes of the call.
NoRule == [enabled |-> FALSE]
Verdict(mode, settings, call, rule) ==
    CASE Capped(mode, settings, call) -> "block"
      [] ~Capped(mode, settings, call) /\ rule # NoRule -> ByRule(mode, rule)
      [] OTHER -> IF mode # "full-access" /\ NeedsUser(mode, settings, call) THEN "confirm" ELSE "allow"

FirstRule(settings, call) ==
    LET first == SelectInSeq(settings.toolRules, LAMBDA r : Speaks(r, call))
    IN IF first = 0 THEN NoRule ELSE settings.toolRules[first]

EvaluateToolPermission(mode, settings, call) == Verdict(mode, settings, call, FirstRule(settings, call))

\* How strict a verdict and how loose a mode is.
Strictness(verdict) == CASE verdict = "allow" -> 0 [] verdict = "confirm" -> 1 [] verdict = "block" -> 2
Looseness(mode) == CASE mode = "read-only" -> 0 [] mode = "ask" -> 1
                     [] mode = "workspace-write" -> 2 [] mode = "full-access" -> 3
=============================================================================
