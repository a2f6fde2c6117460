------------------------------ MODULE ToolGate ------------------------------
(***************************************************************************)
(* The tool calls of one run on their way through tools/pre-execute: the   *)
(* permission rules, a question to the user, the user's hooks, the tool.   *)
(* Meanwhile the run may be aborted, the modes may change, the bridge to   *)
(* the page may be reloaded and so may the page, and the page answers.     *)
(*                                                                         *)
(* Covers packages/tools, permissions/src/index.ts, ui, hooks, the bridge  *)
(* host/src/ui-rpc.ts and the one question the page keeps on screen        *)
(* (src/store/ui.ts).  The text of questions and the work of tools is left *)
(* out.  PermissionRules says what the rules make of a call.               *)
(***************************************************************************)
EXTENDS PermissionRules, FiniteSets, FiniteSetsExt, Integers

CONSTANTS CallIds,      \* the tool calls of the run
          CallFor,      \* what each of them is to the rules
          Rules,        \* the rules in force
          MaxReloads,   \* how often the bridge or the page is reloaded
          MaxModes      \* how often the modes change

ASSUME BoundsAssumption == MaxReloads \in Nat /\ MaxModes \in Nat

VARIABLES tools,      \* the calls whose tool is registered
          pc,         \* where each call is
          permission, agentMode,  \* the session's modes, as last stored
          unattended, \* nobody watches the session
          aborted,    \* the run's signal
          attached,   \* the bridge to the page is there
          asked,      \* the call of every question so far: question n is asked[n]
          waiting,    \* the questions without an answer
          wire,       \* what the bridge has broadcast and the page has not read
          open,       \* what a client that follows the broadcasts takes to be open
          slot,       \* the question on the page's screen, or 0
          answers,    \* the page's ui.respond calls on their way
          ground,     \* history: why a call may run
          consents,   \* history: the questions the user has said yes to
          reloads, changes

vars == <<tools, pc, permission, agentMode, unattended, aborted, attached, asked, waiting,
          wire, open, slot, answers, ground, consents, reloads, changes>>
ui == <<asked, waiting, wire>>
page == <<open, slot, answers, consents>>
session == <<permission, agentMode, unattended, changes>>

CanAsk == attached /\ ~unattended

Init ==
    /\ tools = CallIds
    /\ pc = [c \in CallIds |-> "idle"]
    /\ permission = "ask" /\ agentMode = "agent"
    /\ unattended \in BOOLEAN
    /\ aborted = FALSE /\ attached = TRUE
    /\ asked = <<>> /\ waiting = {}
    /\ wire = <<>> /\ open = {} /\ slot = 0 /\ answers = <<>>
    /\ ground = [c \in CallIds |-> "none"] /\ consents = {}
    /\ reloads = 0 /\ changes = 0

-----------------------------------------------------------------------------
\* Tools.run: an unknown tool, or a signal that is aborted already, ends the call.
Execute(c) ==
    /\ pc[c] = "idle"
    /\ pc' = [pc EXCEPT ![c] = IF c \in tools /\ ~aborted THEN "judged" ELSE "done"]
    /\ UNCHANGED <<tools, session, aborted, attached, ui, page, ground, reloads>>

Ask(c) ==
    /\ asked' = Append(asked, c)
    /\ waiting' = waiting \cup {Len(asked')}
    /\ wire' = Append(wire, [type |-> "request", id |-> Len(asked')])

\* The listener of permissions once it has the session: the modes are those of this moment.
Judge(c) ==
    /\ pc[c] = "judged"
    /\ LET mode == PermissionForAgentMode(agentMode, permission)
           verdict == EvaluateToolPermission(mode, Rules, CallFor[c]) IN
       \/ /\ verdict = "allow"
          /\ pc' = [pc EXCEPT ![c] = "hooks"]
          /\ ground' = [ground EXCEPT ![c] = mode]
          /\ UNCHANGED <<ui>>
       \/ /\ verdict = "confirm" /\ CanAsk /\ ~aborted
          /\ pc' = [pc EXCEPT ![c] = "asking"]
          /\ Ask(c) /\ UNCHANGED ground
       \/ /\ verdict = "block" \/ (verdict = "confirm" /\ (~CanAsk \/ aborted))
          /\ pc' = [pc EXCEPT ![c] = "done"]
          /\ UNCHANGED <<ui, ground>>
    /\ UNCHANGED <<tools, session, aborted, attached, page, reloads>>

\* The ways to list a set of questions from the oldest to the latest: there is one.
Oldest(questions) ==
    {order \in [1..Cardinality(questions) -> questions] :
        /\ \A i, j \in DOMAIN order : i < j => order[i] < order[j]
        /\ \A q \in questions : \E i \in DOMAIN order : order[i] = q}

\* A mistake the runs must catch: a cancelled question is not withdrawn from the clients.
CancelQuietly ==
    /\ waiting' = {} /\ UNCHANGED <<asked, wire>>
    /\ pc' = [c \in CallIds |-> IF pc[c] = "asking" THEN "done" ELSE pc[c]]

\* Ui.settle with no answer: the clients are told, and the caller takes it as a no.
Cancel ==
    /\ waiting' = {} /\ UNCHANGED asked
    /\ \E order \in Oldest(waiting) :
          wire' = wire \o [i \in 1..Cardinality(waiting) |-> [type |-> "cancel", id |-> order[i]]]
    /\ pc' = [c \in CallIds |-> IF \E q \in waiting : asked[q] = c THEN "done" ELSE pc[c]]

\* A mistake the runs must catch: an answer settles the oldest question, whatever it answers.
RespondToFirst ==
    /\ answers # <<>>
    /\ IF waiting # {}
       THEN LET q == Min(waiting)
                yes == Head(answers).value IN
            /\ waiting' = waiting \ {q}
            /\ wire' = Append(wire, [type |-> "cancel", id |-> q])
            /\ pc' = [pc EXCEPT ![asked[q]] = IF yes THEN "hooks" ELSE "done"]
            /\ ground' = [ground EXCEPT ![asked[q]] = IF yes THEN "user" ELSE "none"]
       ELSE UNCHANGED <<waiting, wire, pc, ground>>
    /\ answers' = Tail(answers)
    /\ UNCHANGED <<tools, session, aborted, attached, asked, open, slot, consents, reloads>>

\* ui.respond: the first answer to a question settles it; one that comes too late is refused.
Respond ==
    /\ answers # <<>>
    /\ LET q == Head(answers).id
           yes == Head(answers).value IN
       IF q \in waiting
       THEN /\ waiting' = waiting \ {q}
            /\ wire' = Append(wire, [type |-> "cancel", id |-> q])
            /\ pc' = [pc EXCEPT ![asked[q]] = IF yes THEN "hooks" ELSE "done"]
            /\ ground' = [ground EXCEPT ![asked[q]] = IF yes THEN "user" ELSE "none"]
       ELSE UNCHANGED <<waiting, wire, pc, ground>>
    /\ answers' = Tail(answers)
    /\ UNCHANGED <<tools, session, aborted, attached, asked, open, slot, consents, reloads>>

\* The tool_call hooks let the call go on, or a blocking one fails; the arguments may not fit.
HooksPass(c) ==
    /\ pc[c] = "hooks"
    /\ pc' = [pc EXCEPT ![c] = "running"]
    /\ UNCHANGED <<tools, session, aborted, attached, ui, page, ground, reloads>>

HooksDeny(c) ==
    /\ pc[c] = "hooks"
    /\ pc' = [pc EXCEPT ![c] = "done"]
    /\ UNCHANGED <<tools, session, aborted, attached, ui, page, ground, reloads>>

Return(c) ==
    /\ pc[c] = "running"
    /\ pc' = [pc EXCEPT ![c] = "done"]
    /\ UNCHANGED <<tools, session, aborted, attached, ui, page, ground, reloads>>

-----------------------------------------------------------------------------
\* A mistake the runs must catch: questions do not listen to the run's signal.
AbortOnly ==
    /\ ~aborted /\ aborted' = TRUE
    /\ UNCHANGED <<tools, pc, session, attached, ui, page, ground, reloads>>

\* The run is aborted: every question asked with its signal is settled.
Abort ==
    /\ ~aborted /\ aborted' = TRUE
    /\ Cancel
    /\ UNCHANGED <<tools, session, attached, page, ground, reloads>>

\* permission.set and the plugins that come and go while calls are on their way.
SetModes(p, a) ==
    /\ changes < MaxModes /\ changes' = changes + 1
    /\ <<p, a>> # <<permission, agentMode>>
    /\ permission' = p /\ agentMode' = a
    /\ UNCHANGED <<tools, pc, unattended, aborted, attached, ui, page, ground, reloads>>

Unregister(c) ==
    /\ reloads < MaxReloads /\ reloads' = reloads + 1
    /\ c \in tools /\ tools' = tools \ {c}
    /\ UNCHANGED <<pc, session, aborted, attached, ui, page, ground>>

Detach ==
    /\ reloads < MaxReloads /\ reloads' = reloads + 1
    /\ attached /\ attached' = FALSE
    /\ Cancel
    /\ UNCHANGED <<tools, session, aborted, page, ground>>

Attach ==
    /\ ~attached /\ attached' = TRUE
    /\ UNCHANGED <<tools, pc, session, aborted, ui, page, ground, reloads>>

-----------------------------------------------------------------------------
Opened(known, message) ==
    IF message.type = "request" THEN known \cup {message.id} ELSE known \ {message.id}

\* The page has room for one question, and does not hear that one has been withdrawn.
PageReads ==
    /\ wire # <<>> /\ wire' = Tail(wire)
    /\ open' = Opened(open, Head(wire))
    /\ slot' = IF Head(wire).type = "request" THEN Head(wire).id ELSE slot
    /\ UNCHANGED <<tools, pc, session, aborted, attached, asked, waiting, answers,
                   ground, consents, reloads>>

\* answerExtension: the question leaves the screen before its answer is sent.
PageAnswers(yes) ==
    /\ slot # 0 /\ slot' = 0
    /\ answers' = Append(answers, [id |-> slot, value |-> yes])
    /\ consents' = IF yes THEN consents \cup {slot} ELSE consents
    /\ UNCHANGED <<tools, pc, session, aborted, attached, ui, open, ground, reloads>>

\* A page that is loaded again starts with nothing on screen. What is still open it would
\* learn from ui.pending, which a client that follows the bridge calls and this page does not.
PageReloads ==
    /\ reloads < MaxReloads /\ reloads' = reloads + 1
    /\ wire' = <<>> /\ slot' = 0
    /\ answers' \in {answers, <<>>}
    /\ open' = waiting
    /\ UNCHANGED <<tools, pc, session, aborted, attached, asked, waiting, ground, consents>>

HostStep(c) == Execute(c) \/ Judge(c) \/ HooksPass(c) \/ HooksDeny(c) \/ Return(c)

Next ==
    \/ \E c \in CallIds : HostStep(c) \/ Unregister(c)
    \/ Respond \/ Abort \/ Detach \/ Attach
    \/ \E p \in Modes, a \in AgentModes : SetModes(p, a)
    \/ PageReads \/ PageReloads
    \/ \E yes \in BOOLEAN : PageAnswers(yes)

Spec == Init /\ [][Next]_vars

\* Sessions are read, hooks have a time limit, and a tool returns once its signal is aborted.
\* Nothing obliges the user to answer.
Fair == \A c \in CallIds : /\ WF_vars(Judge(c))
                        /\ WF_vars(HooksPass(c) \/ HooksDeny(c))
                        /\ WF_vars(aborted /\ Return(c))
FairSpec == Spec /\ Fair

-----------------------------------------------------------------------------
Places == {"idle", "judged", "asking", "hooks", "running", "done"}

\* The values the variables take.
TypeOK ==
    /\ tools \subseteq CallIds /\ pc \in [CallIds -> Places]
    /\ permission \in Modes /\ agentMode \in AgentModes /\ unattended \in BOOLEAN
    /\ aborted \in BOOLEAN /\ attached \in BOOLEAN
    /\ asked \in Seq(CallIds) /\ waiting \subseteq DOMAIN asked
    /\ wire \in Seq([type : {"request", "cancel"}, id : DOMAIN asked])
    /\ answers \in Seq([id : DOMAIN asked, value : BOOLEAN])
    /\ open \subseteq DOMAIN asked /\ slot \in 0..Len(asked)
    /\ consents \subseteq DOMAIN asked
    /\ ground \in [CallIds -> Modes \cup {"none", "user"}]
    /\ reloads \in 0..MaxReloads /\ changes \in 0..MaxModes

\* A question is open exactly while its call waits for it, which it does not do once the run
\* is aborted, the bridge is gone, or when nobody watches the session (Ui.settle, cancelAll).
QuestionsHaveCallers ==
    /\ {asked[q] : q \in waiting} = {c \in CallIds : pc[c] = "asking"}
    /\ \A q, r \in waiting : asked[q] = asked[r] => q = r
    /\ waiting # {} => ~aborted /\ CanAsk

\* A client that does what the bridge broadcasts, and asks ui.pending when it connects, knows
\* which questions are open once it has read everything: each is announced once and withdrawn
\* once, whoever settles it (ui-rpc.ts).
Mentions(i, q) == wire[i].id = q
OpenInTheEnd(q) ==
    \/ q \in open /\ \A i \in DOMAIN wire : ~Mentions(i, q)
    \/ \E i \in DOMAIN wire : /\ Mentions(i, q) /\ wire[i].type = "request"
                             /\ \A j \in DOMAIN wire : j > i => ~Mentions(j, q)
ClientsCanFollow == \A q \in DOMAIN asked : q \in waiting <=> OpenInTheEnd(q)

\* A call gets past the rules because a mode that was in force allowed it, or because the user
\* said yes to the question about this very call, whatever is answered late, twice or out of
\* order (Permissions' listener, Ui.respond).
RunsOnGround ==
    \A c \in CallIds : pc[c] \in {"hooks", "running"} =>
        \/ ground[c] = "user" /\ \E q \in consents : asked[q] = c
        \/ ground[c] \in Modes /\ EvaluateToolPermission(ground[c], Rules, CallFor[c]) = "allow"

\* A run that is aborted while the user is asked does not run the call: it is over at once
\* (the abort listener in Ui.ask). A call whose hooks run at that moment does start.
AbortedQuestionsEnd ==
    [][\A c \in CallIds : pc[c] = "asking" /\ aborted' => pc'[c] = "done"]_vars

\* Once the run is aborted, every call it has started comes to its end, so the loop goes on.
AbortEndsCalls == \A c \in CallIds : aborted /\ pc[c] # "idle" ~> pc[c] = "done"

\* What ui-rpc.ts promises of questions: an open one is on a screen, or on its way there or back.
QuestionsReachSomeone ==
    \A q \in waiting :
        \/ q = slot
        \/ [type |-> "request", id |-> q] \in ToSet(wire)
        \/ q \in {answer.id : answer \in ToSet(answers)}
=============================================================================
