--------------------------- MODULE ToolGate_proofs ---------------------------
(***************************************************************************)
(* What the permission rules and the gate of the tool calls guarantee.     *)
(* First the rules, for every mode, every setting and every call; then the *)
(* gate, for any number of calls, reloads and changed modes: questions     *)
(* have callers, clients can follow them, and a call that gets past the    *)
(* rules was allowed by a mode in force or by the user; then the children  *)
(* that a call delegates to, for any number of tasks, slots and tool calls.*)
(***************************************************************************)
EXTENDS ToolGate, Subagents, FiniteSetTheorems, SequenceTheorems, TLAPS

-----------------------------------------------------------------------------
(* The rules *)

\* What a call needs no mode for: the caps of a looser mode are among those of a stricter one.
LEMMA LooserModeCapsLess ==
    ASSUME NEW loose \in Modes, NEW strict \in Modes, NEW settings \in Settings, NEW call \in ToolCalls,
           Looseness(strict) =< Looseness(loose), Capped(loose, settings, call)
    PROVE  Capped(strict, settings, call)
<1>1. CASE loose = "read-only"
      BY <1>1 DEF Looseness, Modes
<1>2. CASE loose # "read-only"
  <2>1. loose = "full-access" => call.kind = "shell" /\ ~settings.allowForcePush /\ call.forcePush
        BY <1>2 DEF Capped
  <2>2. loose # "full-access" => strict # "full-access"
        BY DEF Looseness, Modes
  <2>q. QED BY <1>2, <2>1, <2>2 DEF Capped
<1>q. QED BY <1>1, <1>2

\* A looser mode has the user asked about no more calls, among those that the stricter one lets through.
LEMMA LooserModeAsksLess ==
    ASSUME NEW loose \in Modes, NEW strict \in Modes, NEW settings \in Settings, NEW call \in ToolCalls,
           Looseness(strict) =< Looseness(loose), loose # "full-access",
           ~Capped(strict, settings, call), NeedsUser(loose, settings, call)
    PROVE  NeedsUser(strict, settings, call)
<1>1. CASE strict = "read-only"
  <2>1. call.kind \notin SideEffects \cup {"subagent-write"} /\ Known(call)
        BY <1>1 DEF Capped
  <2>2. call.kind # "write" /\ call.kind # "shell" /\ call.kind # "subagent-write"
        BY <2>1 DEF SideEffects
  <2>q. QED BY <2>1, <2>2 DEF NeedsUser, ShellNeedsUser
<1>2. CASE strict = "ask"
      BY <1>2 DEF NeedsUser, ShellNeedsUser
<1>3. CASE strict \in {"workspace-write", "full-access"}
      BY <1>3 DEF NeedsUser, ShellNeedsUser, Looseness, Modes
<1>q. QED BY <1>1, <1>2, <1>3 DEF Modes

\* Loosening the mode of a session never makes a verdict stricter: nothing that was allowed is asked
\* about or blocked, and nothing that was asked about is blocked, whichever rule of the user's speaks.
THEOREM LooserModeNeverStricter ==
    ASSUME NEW loose \in Modes, NEW strict \in Modes, NEW settings \in Settings, NEW call \in ToolCalls,
           NEW rule \in ToolRules \cup {NoRule}, Looseness(strict) =< Looseness(loose)
    PROVE  Strictness(Verdict(loose, settings, call, rule)) =< Strictness(Verdict(strict, settings, call, rule))
<1>s. Strictness("allow") = 0 /\ Strictness("confirm") = 1 /\ Strictness("block") = 2
      BY DEF Strictness
<1>v. ASSUME NEW mode \in Modes
      PROVE  Verdict(mode, settings, call, rule) \in Verdicts
  <2>1. rule # NoRule => ByRule(mode, rule) \in Verdicts
        BY DEF ByRule, ToolRules, Verdicts
  <2>q. QED BY <2>1 DEF Verdict, Verdicts
<1>1. CASE Capped(strict, settings, call)
  <2>1. Verdict(strict, settings, call, rule) = "block"
        BY <1>1 DEF Verdict
  <2>q. QED BY <2>1, <1>s, <1>v DEF Verdicts
<1>2. CASE ~Capped(strict, settings, call)
  <2>1. ~Capped(loose, settings, call)
        BY <1>2, LooserModeCapsLess
  <2>2. CASE rule # NoRule
    <3>1. /\ Verdict(strict, settings, call, rule) = ByRule(strict, rule)
          /\ Verdict(loose, settings, call, rule) = ByRule(loose, rule)
          BY <1>2, <2>1, <2>2 DEF Verdict
    <3>2. rule.action \in Verdicts
          BY <2>2 DEF ToolRules
    <3>3. strict = "full-access" => loose = "full-access"
          BY DEF Looseness, Modes
    <3>q. QED BY <3>1, <3>2, <3>3, <1>s DEF ByRule, Verdicts
  <2>3. CASE rule = NoRule
    <3>1. /\ Verdict(strict, settings, call, rule) =
                IF strict # "full-access" /\ NeedsUser(strict, settings, call) THEN "confirm" ELSE "allow"
          /\ Verdict(loose, settings, call, rule) =
                IF loose # "full-access" /\ NeedsUser(loose, settings, call) THEN "confirm" ELSE "allow"
          BY <1>2, <2>1, <2>3 DEF Verdict
    <3>2. loose # "full-access" /\ NeedsUser(loose, settings, call) => NeedsUser(strict, settings, call)
          BY <1>2, LooserModeAsksLess
    <3>3. strict = "full-access" => loose = "full-access"
          BY DEF Looseness, Modes
    <3>q. QED BY <3>1, <3>2, <3>3, <1>s
  <2>q. QED BY <2>2, <2>3
<1>q. QED BY <1>1, <1>2

\* Where the mode confines writes to the workspace, no rule of the user's lets one outside it through.
THEOREM ConfinedWritesAreBlocked ==
    ASSUME NEW mode \in Modes \ {"full-access"}, NEW settings \in Settings, NEW call \in ToolCalls,
           settings.confine, Outside(call)
    PROVE  EvaluateToolPermission(mode, settings, call) = "block"
<1>1. Capped(mode, settings, call)
      BY DEF Capped
<1>q. QED BY <1>1 DEF EvaluateToolPermission, Verdict

-----------------------------------------------------------------------------
(* The gate: types *)

Messages(n) == [type : {"request", "cancel"}, id : 1..n]
Answers(n) == [id : 1..n, value : BOOLEAN]

\* A sequence over some values is one over more of them.
LEMMA SeqOverMore ==
    ASSUME NEW S, NEW T, S \subseteq T, NEW s \in Seq(S)
    PROVE  s \in Seq(T)
<1>1. Len(s) \in Nat /\ DOMAIN s = 1..Len(s) /\ \A i \in 1..Len(s) : s[i] \in S
      BY LenProperties, ElementOfSeq
<1>2. s = [i \in 1..Len(s) |-> s[i]]
      BY LenProperties
<1>q. QED BY <1>1, <1>2, IsASeq

\* Cancelling ends every question and tells the clients of each.
LEMMA CancelTells ==
    ASSUME TypeOK, Cancel
    PROVE  /\ waiting' = {} /\ asked' = asked
           /\ pc' = [c \in CallIds |-> IF \E q \in waiting : asked[q] = c THEN "done" ELSE pc[c]]
           /\ \E told \in Seq(Messages(Len(asked))) :
                /\ wire' = wire \o told
                /\ \A i \in DOMAIN told : told[i].type = "cancel" /\ told[i].id \in waiting
                /\ \A q \in waiting : \E i \in DOMAIN told : told[i].id = q
<1>1. IsFiniteSet(waiting) /\ Cardinality(waiting) \in Nat
  <2>1. DOMAIN asked = 1..Len(asked) /\ Len(asked) \in Nat
        BY LenProperties DEF TypeOK
  <2>2. IsFiniteSet(1..Len(asked))
        BY <2>1, FS_Interval
  <2>q. QED BY <2>1, <2>2, FS_Subset, FS_CardinalityType DEF TypeOK
<1>2. PICK order \in Oldest(waiting) :
          wire' = wire \o [i \in 1..Cardinality(waiting) |-> [type |-> "cancel", id |-> order[i]]]
      BY DEF Cancel
<1>3. /\ order \in [1..Cardinality(waiting) -> waiting]
      /\ \A q \in waiting : \E i \in 1..Cardinality(waiting) : order[i] = q
      BY <1>2 DEF Oldest
<1>4. DOMAIN asked = 1..Len(asked) /\ waiting \subseteq DOMAIN asked
      BY LenProperties DEF TypeOK
<1> DEFINE told == [i \in 1..Cardinality(waiting) |-> [type |-> "cancel", id |-> order[i]]]
<1>5. \A i \in 1..Cardinality(waiting) : [type |-> "cancel", id |-> order[i]] \in Messages(Len(asked))
      BY <1>3, <1>4 DEF Messages
<1>6. told \in Seq(Messages(Len(asked)))
      BY <1>1, <1>5, IsASeq
<1>7. DOMAIN told = 1..Cardinality(waiting)
      OBVIOUS
<1>8. \A i \in DOMAIN told : told[i].type = "cancel" /\ told[i].id = order[i]
      OBVIOUS
<1>9. /\ \A i \in DOMAIN told : told[i].type = "cancel" /\ told[i].id \in waiting
      /\ \A q \in waiting : \E i \in DOMAIN told : told[i].id = q
      BY <1>3, <1>7, <1>8
<1>10. wire' = wire \o told
      BY <1>2
<1> HIDE DEF told
<1>q. QED BY <1>6, <1>9, <1>10 DEF Cancel


\* What the questions and their messages are numbered by.
LEMMA Numbers ==
    ASSUME TypeOK
    PROVE  /\ Len(asked) \in Nat /\ DOMAIN asked = 1..Len(asked)
           /\ wire \in Seq(Messages(Len(asked))) /\ answers \in Seq(Answers(Len(asked)))
BY LenProperties DEF TypeOK, Messages, Answers

\* What the rules say of a call is in the mode that is in force.
LEMMA ModeInForce ==
    ASSUME TypeOK
    PROVE  PermissionForAgentMode(agentMode, permission) \in Modes
BY DEF TypeOK, PermissionForAgentMode, Modes

\* The steps that ask nothing, settle nothing and leave the page alone.
LEMMA QuietSteps ==
    ASSUME TypeOK, UNCHANGED <<ui, page>>,
           tools' \subseteq CallIds, pc' \in [CallIds -> Places], permission' \in Modes, agentMode' \in AgentModes,
           unattended' \in BOOLEAN, aborted' \in BOOLEAN, attached' \in BOOLEAN,
           ground' \in [CallIds -> Modes \cup {"none", "user"}],
           reloads' \in 0..MaxReloads, changes' \in 0..MaxModes
    PROVE  TypeOK'
BY DEF TypeOK, ui, page

\* Where a question is asked.
LEMMA AskTyped ==
    ASSUME TypeOK, NEW c \in CallIds, Ask(c)
    PROVE  /\ asked' \in Seq(CallIds) /\ Len(asked') = Len(asked) + 1 /\ asked'[Len(asked')] = c
           /\ \A q \in DOMAIN asked : asked'[q] = asked[q]
           /\ DOMAIN asked' = DOMAIN asked \cup {Len(asked')}
           /\ Len(asked') \notin DOMAIN asked
           /\ waiting' = waiting \cup {Len(asked')}
           /\ wire' = Append(wire, [type |-> "request", id |-> Len(asked')])
           /\ wire' \in Seq(Messages(Len(asked')))
<1>1. asked' = Append(asked, c) /\ waiting' = waiting \cup {Len(asked')}
      /\ wire' = Append(wire, [type |-> "request", id |-> Len(asked')])
      BY DEF Ask
<1>2. /\ asked' \in Seq(CallIds) /\ Len(asked') = Len(asked) + 1 /\ asked'[Len(asked) + 1] = c
      /\ \A q \in 1..Len(asked) : asked'[q] = asked[q]
      BY <1>1, AppendProperties DEF TypeOK
<1>3. Len(asked) \in Nat /\ DOMAIN asked = 1..Len(asked) /\ wire \in Seq(Messages(Len(asked)))
      BY Numbers
<1>4. DOMAIN asked' = 1..Len(asked) + 1
      BY <1>2, LenProperties
<1>5. wire \in Seq(Messages(Len(asked) + 1))
  <2>1. Messages(Len(asked)) \subseteq Messages(Len(asked) + 1)
        BY <1>3 DEF Messages
  <2>q. QED BY <2>1, <1>3, SeqOverMore
<1>6. [type |-> "request", id |-> Len(asked')] \in Messages(Len(asked) + 1)
      BY <1>2, <1>3 DEF Messages
<1>7. wire' \in Seq(Messages(Len(asked) + 1))
      BY <1>1, <1>5, <1>6, AppendProperties
<1>q. QED BY <1>1, <1>2, <1>3, <1>4, <1>7

\* What follows is well-typed once the questions are.
LEMMA TypedBy ==
    ASSUME TypeOK, asked' \in Seq(CallIds), Len(asked) =< Len(asked'),
           waiting' \subseteq 1..Len(asked'), wire' \in Seq(Messages(Len(asked'))),
           answers' \in Seq(Answers(Len(asked'))), open' \subseteq 1..Len(asked'),
           slot' \in 0..Len(asked'), consents' \subseteq 1..Len(asked'),
           pc' \in [CallIds -> Places], aborted' \in BOOLEAN, attached' \in BOOLEAN,
           ground' \in [CallIds -> Modes \cup {"none", "user"}], reloads' \in 0..MaxReloads,
           UNCHANGED <<tools, session>>
    PROVE  TypeOK'
<1>1. DOMAIN asked' = 1..Len(asked')
      BY LenProperties
<1>q. QED BY <1>1 DEF TypeOK, session, Messages, Answers

\* So is what asks nothing.
LEMMA TypedSame ==
    ASSUME TypeOK, asked' = asked,
           waiting' \subseteq 1..Len(asked), wire' \in Seq(Messages(Len(asked))),
           answers' \in Seq(Answers(Len(asked))), open' \subseteq 1..Len(asked),
           slot' \in 0..Len(asked), consents' \subseteq 1..Len(asked),
           pc' \in [CallIds -> Places], aborted' \in BOOLEAN, attached' \in BOOLEAN,
           ground' \in [CallIds -> Modes \cup {"none", "user"}], reloads' \in 0..MaxReloads,
           UNCHANGED <<tools, session>>
    PROVE  TypeOK'
<1>1. DOMAIN asked = 1..Len(asked)
      BY Numbers
<1>q. QED BY <1>1 DEF TypeOK, session, Messages, Answers

\* The start is well-typed.
LEMMA InitTyped ==
    ASSUME Init
    PROVE  TypeOK
<1>1. <<>> \in Seq(CallIds) /\ DOMAIN <<>> = {} /\ Len(<<>>) = 0
      OBVIOUS
<1>2. <<>> \in Seq([type : {"request", "cancel"}, id : {}]) /\ <<>> \in Seq([id : {}, value : BOOLEAN])
      OBVIOUS
<1>3. DOMAIN asked = {} /\ Len(asked) = 0 /\ asked \in Seq(CallIds)
      BY <1>1 DEF Init
<1>4. /\ wire \in Seq([type : {"request", "cancel"}, id : DOMAIN asked])
      /\ answers \in Seq([id : DOMAIN asked, value : BOOLEAN])
      BY <1>2, <1>3 DEF Init
<1>5. /\ tools \subseteq CallIds /\ permission \in Modes /\ agentMode \in AgentModes /\ unattended \in BOOLEAN
      /\ aborted \in BOOLEAN /\ attached \in BOOLEAN
      BY DEF Init, Modes, AgentModes
<1>6. waiting = {} /\ open = {} /\ slot = 0 /\ consents = {} /\ reloads = 0 /\ changes = 0
      BY DEF Init
<1>7. reloads \in 0..MaxReloads /\ changes \in 0..MaxModes
      BY <1>6, BoundsAssumption
<1>8. pc \in [CallIds -> Places] /\ ground \in [CallIds -> Modes \cup {"none", "user"}]
      BY DEF Init, Places
<1>q. QED BY <1>3, <1>4, <1>5, <1>6, <1>7, <1>8 DEF TypeOK

\* A step of the Host at one call.
LEMMA HostTyped ==
    ASSUME TypeOK, NEW c \in CallIds, HostStep(c)
    PROVE  TypeOK'
<1>1. CASE Execute(c)
      BY <1>1, QuietSteps DEF Execute, TypeOK, Places, session
<1>2. CASE Judge(c)
  <2> DEFINE mode == PermissionForAgentMode(agentMode, permission)
             verdict == EvaluateToolPermission(mode, Rules, CallFor[c])
  <2>1. CASE verdict = "allow" /\ pc' = [pc EXCEPT ![c] = "hooks"] /\ ground' = [ground EXCEPT ![c] = mode] /\ UNCHANGED ui
    <3>1. pc' \in [CallIds -> Places] /\ ground' \in [CallIds -> Modes \cup {"none", "user"}]
          BY <2>1, ModeInForce DEF TypeOK, Places
    <3>q. QED BY <1>2, <2>1, <3>1, QuietSteps DEF Judge, TypeOK, session
  <2>2. CASE CanAsk /\ ~aborted /\ pc' = [pc EXCEPT ![c] = "asking"] /\ Ask(c) /\ UNCHANGED ground
    <3>1. /\ asked' \in Seq(CallIds) /\ Len(asked') = Len(asked) + 1
          /\ waiting' = waiting \cup {Len(asked')} /\ wire' \in Seq(Messages(Len(asked')))
          BY <2>2, AskTyped
    <3>2. /\ Len(asked) \in Nat /\ DOMAIN asked = 1..Len(asked) /\ answers \in Seq(Answers(Len(asked)))
          BY Numbers
    <3> DEFINE n == Len(asked')
    <3>3. n = Len(asked) + 1 /\ n \in Nat /\ Len(asked) =< n
          BY <3>1, <3>2
    <3>4. answers' \in Seq(Answers(n))
      <4>1. Answers(Len(asked)) \subseteq Answers(n)
            BY <3>2, <3>3 DEF Answers
      <4>2. answers' = answers
            BY <1>2 DEF Judge, page
      <4>q. QED BY <4>1, <4>2, <3>2, SeqOverMore
    <3>5. waiting' \subseteq 1..n /\ open' \subseteq 1..n /\ slot' \in 0..n /\ consents' \subseteq 1..n
          BY <1>2, <3>1, <3>2, <3>3 DEF Judge, page, TypeOK
    <3>6. /\ pc' \in [CallIds -> Places] /\ aborted' \in BOOLEAN /\ attached' \in BOOLEAN
          /\ ground' \in [CallIds -> Modes \cup {"none", "user"}] /\ reloads' \in 0..MaxReloads
          /\ UNCHANGED <<tools, session>>
          BY <1>2, <2>2 DEF Judge, TypeOK, Places
    <3>7. wire' \in Seq(Messages(n))
          BY <3>1
    <3>9. asked' \in Seq(CallIds)
          BY <3>1
    <3>q. QED BY <3>3, <3>4, <3>5, <3>6, <3>7, <3>9, TypedBy
  <2>3. CASE pc' = [pc EXCEPT ![c] = "done"] /\ UNCHANGED <<ui, ground>>
    <3>1. pc' \in [CallIds -> Places]
          BY <2>3 DEF TypeOK, Places
    <3>q. QED BY <1>2, <2>3, <3>1, QuietSteps DEF Judge, TypeOK, session
  <2>q. QED BY <1>2, <2>1, <2>2, <2>3 DEF Judge
<1>3. CASE HooksPass(c) \/ HooksDeny(c) \/ Return(c)
      BY <1>3, QuietSteps DEF HooksPass, HooksDeny, Return, TypeOK, Places, session
<1>q. QED BY <1>1, <1>2, <1>3 DEF HostStep

\* Questions are cancelled.
LEMMA CancelTyped ==
    ASSUME TypeOK, Cancel, UNCHANGED <<tools, session, page, ground>>,
           aborted' \in BOOLEAN, attached' \in BOOLEAN, reloads' \in 0..MaxReloads
    PROVE  TypeOK'
<1>1. PICK told \in Seq(Messages(Len(asked))) : wire' = wire \o told
      BY CancelTells
<1>2. /\ waiting' = {} /\ asked' = asked
      /\ pc' = [c \in CallIds |-> IF \E q \in waiting : asked[q] = c THEN "done" ELSE pc[c]]
      BY CancelTells
<1>3. /\ Len(asked) \in Nat /\ DOMAIN asked = 1..Len(asked)
      /\ wire \in Seq(Messages(Len(asked))) /\ answers \in Seq(Answers(Len(asked)))
      BY Numbers
<1>4. wire' \in Seq(Messages(Len(asked)))
      BY <1>1, <1>3, ConcatProperties
<1>5. pc' \in [CallIds -> Places]
      BY <1>2 DEF TypeOK, Places
<1>6. /\ answers' \in Seq(Answers(Len(asked))) /\ open' \subseteq 1..Len(asked)
      /\ slot' \in 0..Len(asked) /\ consents' \subseteq 1..Len(asked)
      /\ ground' \in [CallIds -> Modes \cup {"none", "user"}] /\ asked' \in Seq(CallIds)
      BY <1>2, <1>3 DEF page, TypeOK
<1>q. QED BY <1>2, <1>3, <1>4, <1>5, <1>6, TypedSame

\* The Host takes an answer.
LEMMA RespondTyped ==
    ASSUME TypeOK, Respond
    PROVE  TypeOK'
<1>1. /\ Len(asked) \in Nat /\ DOMAIN asked = 1..Len(asked)
      /\ wire \in Seq(Messages(Len(asked))) /\ answers \in Seq(Answers(Len(asked)))
      BY Numbers
<1>2. answers # <<>> /\ answers' = Tail(answers)
      BY DEF Respond
<1>3. answers' \in Seq(Answers(Len(asked))) /\ Head(answers) \in Answers(Len(asked))
      BY <1>1, <1>2, HeadTailProperties
<1>4. PICK q \in 1..Len(asked), yes \in BOOLEAN : q = Head(answers).id /\ yes = Head(answers).value
      BY <1>3 DEF Answers
<1>5. \/ /\ waiting' = waiting \ {q}
         /\ wire' = Append(wire, [type |-> "cancel", id |-> q])
         /\ pc' = [pc EXCEPT ![asked[q]] = IF yes THEN "hooks" ELSE "done"]
         /\ ground' = [ground EXCEPT ![asked[q]] = IF yes THEN "user" ELSE "none"]
      \/ UNCHANGED <<waiting, wire, pc, ground>>
      BY <1>4 DEF Respond
<1>6. [type |-> "cancel", id |-> q] \in Messages(Len(asked))
      BY DEF Messages
<1>7. wire' \in Seq(Messages(Len(asked)))
  <2>1. Append(wire, [type |-> "cancel", id |-> q]) \in Seq(Messages(Len(asked)))
        BY <1>1, <1>6, AppendProperties
  <2>q. QED BY <1>1, <1>5, <2>1
<1>8. /\ waiting' \subseteq 1..Len(asked) /\ pc' \in [CallIds -> Places]
      /\ ground' \in [CallIds -> Modes \cup {"none", "user"}]
      BY <1>1, <1>5 DEF TypeOK, Places
<1>9. /\ UNCHANGED <<tools, session>> /\ aborted' \in BOOLEAN /\ attached' \in BOOLEAN /\ asked' = asked
      /\ open' \subseteq 1..Len(asked) /\ slot' \in 0..Len(asked) /\ consents' \subseteq 1..Len(asked)
      /\ reloads' \in 0..MaxReloads /\ asked' \in Seq(CallIds)
      BY <1>1 DEF Respond, TypeOK
<1>q. QED BY <1>1, <1>3, <1>7, <1>8, <1>9, TypedSame

\* The page reads, answers or is loaded again.
LEMMA PageTyped ==
    ASSUME TypeOK, PageReads \/ PageReloads \/ \E yes \in BOOLEAN : PageAnswers(yes)
    PROVE  TypeOK'
<1>1. /\ Len(asked) \in Nat /\ DOMAIN asked = 1..Len(asked)
      /\ wire \in Seq(Messages(Len(asked))) /\ answers \in Seq(Answers(Len(asked)))
      BY Numbers
<1>2. CASE PageReads
  <2>1. wire # <<>> /\ wire' = Tail(wire)
        BY <1>2 DEF PageReads
  <2>2. wire' \in Seq(Messages(Len(asked))) /\ Head(wire) \in Messages(Len(asked))
        BY <1>1, <2>1, HeadTailProperties
  <2>3. PICK m \in Messages(Len(asked)) : m = Head(wire)
        BY <2>2
  <2>4. open' = Opened(open, m) /\ slot' = IF m.type = "request" THEN m.id ELSE slot
        BY <1>2, <2>3 DEF PageReads
  <2>5. m.id \in 1..Len(asked)
        BY <2>3 DEF Messages
  <2>6. open' \subseteq 1..Len(asked) /\ slot' \in 0..Len(asked)
        BY <1>1, <2>4, <2>5 DEF Opened, TypeOK
  <2>7. /\ UNCHANGED <<tools, session>> /\ aborted' \in BOOLEAN /\ attached' \in BOOLEAN /\ asked' = asked
        /\ asked' \in Seq(CallIds) /\ waiting' \subseteq 1..Len(asked) /\ consents' \subseteq 1..Len(asked)
        /\ reloads' \in 0..MaxReloads /\ pc' \in [CallIds -> Places] /\ answers' \in Seq(Answers(Len(asked)))
        /\ ground' \in [CallIds -> Modes \cup {"none", "user"}]
        BY <1>1, <1>2 DEF PageReads, TypeOK, session
  <2>q. QED BY <1>1, <2>2, <2>6, <2>7, TypedSame
<1>3. CASE PageReloads
  <2>1. wire' \in Seq(Messages(Len(asked))) /\ answers' \in Seq(Answers(Len(asked)))
    <3>1. <<>> \in Seq(Messages(Len(asked))) /\ <<>> \in Seq(Answers(Len(asked)))
          BY EmptySeq
    <3>q. QED BY <1>1, <1>3, <3>1 DEF PageReloads
  <2>2. /\ UNCHANGED <<tools, session>> /\ aborted' \in BOOLEAN /\ attached' \in BOOLEAN /\ asked' = asked
        /\ asked' \in Seq(CallIds) /\ waiting' \subseteq 1..Len(asked) /\ consents' \subseteq 1..Len(asked)
        /\ reloads' \in 0..MaxReloads /\ pc' \in [CallIds -> Places]
        /\ ground' \in [CallIds -> Modes \cup {"none", "user"}]
        /\ open' \subseteq 1..Len(asked) /\ slot' \in 0..Len(asked)
        BY <1>1, <1>3, BoundsAssumption DEF PageReloads, TypeOK, session
  <2>q. QED BY <1>1, <2>1, <2>2, TypedSame
<1>4. ASSUME NEW yes \in BOOLEAN, PageAnswers(yes)
      PROVE  TypeOK'
  <2>1. slot \in 1..Len(asked)
        BY <1>1, <1>4 DEF PageAnswers, TypeOK
  <2>2. [id |-> slot, value |-> yes] \in Answers(Len(asked))
        BY <2>1 DEF Answers
  <2>3. answers' \in Seq(Answers(Len(asked)))
        BY <1>1, <1>4, <2>2, AppendProperties DEF PageAnswers
  <2>4. /\ UNCHANGED <<tools, session>> /\ aborted' \in BOOLEAN /\ attached' \in BOOLEAN /\ asked' = asked
        /\ asked' \in Seq(CallIds) /\ waiting' \subseteq 1..Len(asked) /\ consents' \subseteq 1..Len(asked)
        /\ reloads' \in 0..MaxReloads /\ pc' \in [CallIds -> Places] /\ wire' \in Seq(Messages(Len(asked)))
        /\ ground' \in [CallIds -> Modes \cup {"none", "user"}]
        /\ open' \subseteq 1..Len(asked) /\ slot' \in 0..Len(asked)
        BY <1>1, <1>4, <2>1 DEF PageAnswers, TypeOK, session, ui
  <2>q. QED BY <1>1, <2>3, <2>4, TypedSame
<1>q. QED BY <1>2, <1>3, <1>4

\* Type correctness of the gate, for any number of calls and of reloads.
THEOREM TypeCorrect == Spec => []TypeOK
<1>1. ASSUME TypeOK, [Next]_vars
      PROVE  TypeOK'
  <2>1. ASSUME NEW c \in CallIds, HostStep(c)
        PROVE  TypeOK'
        BY <1>1, <2>1, HostTyped
  <2>2. ASSUME NEW c \in CallIds, Unregister(c)
        PROVE  TypeOK'
    <3>1. /\ UNCHANGED <<ui, page, pc, session, aborted, attached, ground>> /\ tools' \subseteq CallIds
          /\ reloads' \in 0..MaxReloads
          BY <1>1, <2>2, BoundsAssumption DEF Unregister, TypeOK
    <3>q. QED BY <1>1, <3>1, QuietSteps DEF TypeOK, session
  <2>3. CASE Respond
        BY <1>1, <2>3, RespondTyped
  <2>4. CASE Abort
    <3>1. /\ UNCHANGED <<tools, session, page, ground>> /\ Cancel
          /\ aborted' \in BOOLEAN /\ attached' \in BOOLEAN /\ reloads' \in 0..MaxReloads
          BY <1>1, <2>4 DEF Abort, TypeOK
    <3>q. QED BY <1>1, <3>1, CancelTyped
  <2>5. CASE Detach
    <3>1. /\ UNCHANGED <<tools, session, page, ground>> /\ Cancel /\ aborted' = aborted /\ attached' = FALSE
          /\ reloads < MaxReloads /\ reloads' = reloads + 1
          BY <2>5 DEF Detach
    <3>2. reloads' \in 0..MaxReloads
          BY <1>1, <3>1, BoundsAssumption DEF TypeOK
    <3>3. aborted' \in BOOLEAN /\ attached' \in BOOLEAN
          BY <1>1, <3>1 DEF TypeOK
    <3>q. QED BY <1>1, <3>1, <3>2, <3>3, CancelTyped
  <2>6. CASE Attach
    <3>1. /\ UNCHANGED <<tools, pc, session, aborted, ui, page, ground, reloads>> /\ attached' \in BOOLEAN
          BY <2>6 DEF Attach
    <3>q. QED BY <1>1, <3>1, QuietSteps DEF TypeOK, session
  <2>7. ASSUME NEW p \in Modes, NEW a \in AgentModes, SetModes(p, a)
        PROVE  TypeOK'
    <3>1. /\ UNCHANGED <<tools, pc, unattended, aborted, attached, ui, page, ground, reloads>>
          /\ permission' \in Modes /\ agentMode' \in AgentModes /\ changes' \in 0..MaxModes
          BY <1>1, <2>7, BoundsAssumption DEF SetModes, TypeOK
    <3>q. QED BY <1>1, <3>1, QuietSteps DEF TypeOK
  <2>8. CASE PageReads \/ PageReloads \/ \E yes \in BOOLEAN : PageAnswers(yes)
        BY <1>1, <2>8, PageTyped
  <2>9. CASE UNCHANGED vars
        BY <1>1, <2>9 DEF vars, TypeOK
  <2>q. QED BY <1>1, <2>1, <2>2, <2>3, <2>4, <2>5, <2>6, <2>7, <2>8, <2>9 DEF Next
<1>q. QED BY <1>1, InitTyped, PTL DEF Spec


-----------------------------------------------------------------------------
(* Questions have callers *)

Asking == {c \in CallIds : pc[c] = "asking"}

\* What asks nothing and answers nothing keeps the questions and their callers.
LEMMA CallersKept ==
    ASSUME TypeOK, QuestionsHaveCallers, UNCHANGED <<asked, waiting>>, Asking' = Asking,
           UNCHANGED <<aborted, unattended>>, attached => attached'
    PROVE  QuestionsHaveCallers'
BY DEF QuestionsHaveCallers, Asking, CanAsk

\* No call that is not asking has a question, and no question a call that is not asking.
LEMMA CallersAsk ==
    ASSUME TypeOK, QuestionsHaveCallers
    PROVE  /\ \A q \in waiting : asked[q] \in CallIds /\ pc[asked[q]] = "asking"
           /\ \A c \in CallIds : pc[c] = "asking" => \E q \in waiting : asked[q] = c
<1>1. \A q \in waiting : asked[q] \in CallIds
      BY Numbers, ElementOfSeq DEF TypeOK
<1>q. QED BY <1>1 DEF QuestionsHaveCallers

\* A call that asks adds one question and one caller.
LEMMA AskHasCaller ==
    ASSUME TypeOK, QuestionsHaveCallers, NEW c \in CallIds, pc[c] = "judged", Ask(c), CanAsk, ~aborted,
           pc' = [pc EXCEPT ![c] = "asking"], UNCHANGED <<aborted, unattended, attached>>
    PROVE  QuestionsHaveCallers'
<1> DEFINE n == Len(asked')
<1>1. /\ waiting' = waiting \cup {n} /\ asked'[n] = c /\ n \notin waiting
      /\ \A q \in waiting : asked'[q] = asked[q]
      BY AskTyped DEF TypeOK
<1> HIDE DEF n
<1>2. /\ \A q \in waiting : asked[q] \in CallIds /\ pc[asked[q]] = "asking"
      /\ \A d \in CallIds : pc[d] = "asking" => \E q \in waiting : asked[q] = d
      BY CallersAsk
<1>3. \A d \in CallIds : pc'[d] = "asking" <=> d = c \/ pc[d] = "asking"
      BY DEF TypeOK
<1>4. {asked'[q] : q \in waiting'} = {d \in CallIds : pc'[d] = "asking"}
  <2>1. \A d : d \in {asked'[q] : q \in waiting'} <=> d = c \/ \E q \in waiting : asked[q] = d
        BY <1>1
  <2>2. \A d : d \in {e \in CallIds : pc'[e] = "asking"} <=> d = c \/ (d \in CallIds /\ pc[d] = "asking")
        BY <1>3
  <2>q. QED BY <1>2, <2>1, <2>2
<1>5. \A q, r \in waiting' : asked'[q] = asked'[r] => q = r
  <2>1. \A q, r \in waiting : asked[q] = asked[r] => q = r
        BY DEF QuestionsHaveCallers
  <2>2. \A q \in waiting : asked[q] # c
        BY <1>2
  <2>q. QED BY <1>1, <2>1, <2>2
<1>6. ~aborted' /\ CanAsk'
      BY DEF CanAsk
<1>q. QED BY <1>4, <1>5, <1>6 DEF QuestionsHaveCallers

\* Where every question is settled, no call asks any more.
LEMMA CancelEndsAsking ==
    ASSUME TypeOK, QuestionsHaveCallers, Cancel
    PROVE  /\ QuestionsHaveCallers'
           /\ \A c \in CallIds : pc'[c] = IF pc[c] = "asking" THEN "done" ELSE pc[c]
<1>1. waiting' = {} /\ pc' = [c \in CallIds |-> IF \E q \in waiting : asked[q] = c THEN "done" ELSE pc[c]]
      BY CancelTells
<1>2. \A c \in CallIds : (\E q \in waiting : asked[q] = c) <=> pc[c] = "asking"
      BY CallersAsk
<1>3. \A c \in CallIds : pc'[c] = IF pc[c] = "asking" THEN "done" ELSE pc[c]
      BY <1>1, <1>2
<1>4. \A c \in CallIds : pc'[c] # "asking"
      BY <1>3
<1>q. QED BY <1>1, <1>3, <1>4 DEF QuestionsHaveCallers

\* An answer ends the one question it settles.
LEMMA RespondEndsAsking ==
    ASSUME TypeOK, QuestionsHaveCallers, Respond
    PROVE  QuestionsHaveCallers'
<1>1. CASE UNCHANGED <<waiting, pc>>
  <2>1. UNCHANGED <<asked, waiting, pc, aborted, unattended, attached>>
        BY <1>1 DEF Respond, session
  <2>q. QED BY <2>1, CallersKept DEF Asking
<1>2. CASE ~UNCHANGED <<waiting, pc>>
  <2>1. PICK q \in waiting, to \in {"hooks", "done"} :
            waiting' = waiting \ {q} /\ pc' = [pc EXCEPT ![asked[q]] = to]
        BY <1>2 DEF Respond
  <2>2. asked' = asked /\ UNCHANGED <<aborted, unattended, attached>>
        BY DEF Respond, session
  <2>3. /\ \A r \in waiting : asked[r] \in CallIds /\ pc[asked[r]] = "asking"
        /\ \A d \in CallIds : pc[d] = "asking" => \E r \in waiting : asked[r] = d
        BY CallersAsk
  <2>4. \A r, s \in waiting : asked[r] = asked[s] => r = s
        BY DEF QuestionsHaveCallers
  <2>5. \A d \in CallIds : pc'[d] = "asking" <=> pc[d] = "asking" /\ d # asked[q]
        BY <2>1, <2>3 DEF TypeOK
  <2>6. {asked'[r] : r \in waiting'} = {d \in CallIds : pc'[d] = "asking"}
    <3>1. \A d : d \in {asked'[r] : r \in waiting'} <=> \E r \in waiting : r # q /\ asked[r] = d
          BY <2>1, <2>2
    <3>2. \A d : d \in {e \in CallIds : pc'[e] = "asking"} <=> d \in CallIds /\ pc[d] = "asking" /\ d # asked[q]
          BY <2>5
    <3>3. \A d : (\E r \in waiting : r # q /\ asked[r] = d)
                  <=> d \in CallIds /\ pc[d] = "asking" /\ d # asked[q]
          BY <2>3, <2>4
    <3>q. QED BY <3>1, <3>2, <3>3
  <2>7. waiting' # {} => ~aborted' /\ CanAsk'
        BY <2>1, <2>2 DEF QuestionsHaveCallers, CanAsk
  <2>q. QED BY <2>1, <2>2, <2>4, <2>6, <2>7 DEF QuestionsHaveCallers
<1>q. QED BY <1>1, <1>2

\* The rest of what the Host does with one call asks nothing.
LEMMA HostStepHasCallers ==
    ASSUME TypeOK, QuestionsHaveCallers, NEW c \in CallIds, HostStep(c)
    PROVE  QuestionsHaveCallers'
<1>1. CASE Judge(c)
  <2>1. pc[c] = "judged" /\ UNCHANGED <<aborted, unattended, attached>>
        BY <1>1 DEF Judge, session
  <2>2. CASE CanAsk /\ ~aborted /\ pc' = [pc EXCEPT ![c] = "asking"] /\ Ask(c)
        BY <2>1, <2>2, AskHasCaller
  <2>3. CASE (pc' = [pc EXCEPT ![c] = "hooks"] \/ pc' = [pc EXCEPT ![c] = "done"]) /\ UNCHANGED ui
    <3>1. Asking' = Asking
          BY <2>1, <2>3 DEF Asking, TypeOK
    <3>q. QED BY <2>1, <2>3, <3>1, CallersKept DEF ui
  <2>q. QED BY <1>1, <2>2, <2>3 DEF Judge
<1>2. CASE Execute(c) \/ HooksPass(c) \/ HooksDeny(c) \/ Return(c)
  <2>1. /\ UNCHANGED <<asked, waiting, aborted, unattended, attached>> /\ pc[c] # "asking"
        /\ \E to \in {"judged", "running", "done"} : pc' = [pc EXCEPT ![c] = to]
        BY <1>2 DEF Execute, HooksPass, HooksDeny, Return, ui, session
  <2>2. Asking' = Asking
        BY <2>1 DEF Asking, TypeOK
  <2>q. QED BY <2>1, <2>2, CallersKept
<1>q. QED BY <1>1, <1>2 DEF HostStep

\* Every step keeps the questions and their callers together.
LEMMA StepHasCallers ==
    ASSUME TypeOK, QuestionsHaveCallers, [Next]_vars
    PROVE  QuestionsHaveCallers'
<1>1. ASSUME NEW c \in CallIds, HostStep(c)
      PROVE  QuestionsHaveCallers'
      BY <1>1, HostStepHasCallers
<1>2. CASE Respond
      BY <1>2, RespondEndsAsking
<1>3. CASE Abort \/ Detach
      BY <1>3, CancelEndsAsking DEF Abort, Detach
<1>4. CASE \/ \E c \in CallIds : Unregister(c)
           \/ PageReads \/ PageReloads
           \/ \E p \in Modes, a \in AgentModes : SetModes(p, a)
           \/ \E yes \in BOOLEAN : PageAnswers(yes)
           \/ UNCHANGED vars
  <2>1. UNCHANGED <<asked, waiting, pc, aborted, unattended, attached>>
        BY <1>4 DEF Unregister, PageReads, PageReloads, SetModes, PageAnswers, vars, ui, session
  <2>q. QED BY <2>1, CallersKept DEF Asking
<1>5. CASE Attach
  <2>1. UNCHANGED <<asked, waiting, pc, aborted, unattended>> /\ attached'
        BY <1>5 DEF Attach, ui, session
  <2>q. QED BY <2>1, CallersKept DEF Asking
<1>q. QED BY <1>1, <1>2, <1>3, <1>4, <1>5 DEF Next

\* A question is open exactly while its call waits for it; none is once the run is aborted, the
\* bridge is gone or nobody watches.
THEOREM QuestionsAndCallers == Spec => []QuestionsHaveCallers
<1>1. Init => QuestionsHaveCallers
      BY DEF Init, QuestionsHaveCallers
<1>2. TypeOK /\ QuestionsHaveCallers /\ [Next]_vars => QuestionsHaveCallers'
      BY StepHasCallers
<1>q. QED BY <1>1, <1>2, TypeCorrect, PTL DEF Spec

\* A run that is aborted while the user is asked ends the call there and then.
THEOREM AbortEndsQuestions == Spec => AbortedQuestionsEnd
<1>1. ASSUME TypeOK, QuestionsHaveCallers, [Next]_vars
      PROVE  [\A c \in CallIds : pc[c] = "asking" /\ aborted' => pc'[c] = "done"]_vars
  <2>1. SUFFICES ASSUME NEW c \in CallIds, pc[c] = "asking", aborted'
                 PROVE  pc'[c] = "done"
        OBVIOUS
  <2>2. waiting # {} /\ ~aborted
        BY <2>1, <1>1, CallersAsk DEF QuestionsHaveCallers
  <2>3. CASE Abort
        BY <1>1, <2>1, <2>3, CancelEndsAsking DEF Abort
  <2>4. CASE ~Abort
        BY <1>1, <2>1, <2>2, <2>4
        DEF Next, HostStep, Execute, Judge, HooksPass, HooksDeny, Return, Unregister, Respond, Detach, Attach,
            PageReads, PageReloads, SetModes, PageAnswers, vars
  <2>q. QED BY <2>3, <2>4
<1>q. QED BY <1>1, TypeCorrect, QuestionsAndCallers, PTL DEF Spec, AbortedQuestionsEnd


-----------------------------------------------------------------------------
(* Clients can follow *)

\* A question is open for a client that knows some questions and will read some messages.
Follows(q, known, log) ==
    \/ q \in known /\ \A i \in 1..Len(log) : log[i].id # q
    \/ \E i \in 1..Len(log) : /\ log[i].id = q /\ log[i].type = "request"
                             /\ \A j \in 1..Len(log) : j > i => log[j].id # q

\* Of all messages about a question the last one counts.
LEMMA FollowsLast ==
    ASSUME NEW S, NEW log \in Seq(S), NEW m \in S, NEW known, NEW q
    PROVE  Follows(q, known, Append(log, m)) <=> IF m.id = q THEN m.type = "request" ELSE Follows(q, known, log)
<1> DEFINE n == Len(log)
           more == Append(log, m)
<1>1. /\ n \in Nat /\ Len(more) = n + 1 /\ more[n + 1] = m
      /\ \A i \in 1..n : more[i] = log[i]
      BY LenProperties, AppendProperties
<1>2. \A i : i \in 1..n + 1 <=> i \in 1..n \/ i = n + 1
      BY <1>1
<1>3. \A i \in 1..n : i < n + 1 /\ ~(i > n + 1)
      BY <1>1
<1> HIDE DEF n, more
<1>4. CASE m.id = q
  <2>1. \A i \in 1..n + 1 : (\A j \in 1..n + 1 : j > i => more[j].id # q) => i = n + 1
        BY <1>1, <1>2, <1>3, <1>4
  <2>2. \A j \in 1..n + 1 : ~(j > n + 1)
        BY <1>1
  <2>q. QED BY <1>1, <1>2, <1>4, <2>1, <2>2 DEF Follows, more
<1>5. CASE m.id # q
  <2>1. (\A i \in 1..n + 1 : more[i].id # q) <=> (\A i \in 1..n : log[i].id # q)
        BY <1>1, <1>2, <1>5
  <2>2. \A i \in 1..n : (\A j \in 1..n + 1 : j > i => more[j].id # q) <=> (\A j \in 1..n : j > i => log[j].id # q)
        BY <1>1, <1>2, <1>5
  <2>q. QED BY <1>1, <1>2, <1>5, <2>1, <2>2 DEF Follows, more, n
<1>q. QED BY <1>4, <1>5

\* Messages that withdraw questions close those and no others.
LEMMA FollowsWithdrawn ==
    ASSUME NEW S, NEW log \in Seq(S), NEW told \in Seq(S), NEW known, NEW q,
           \A i \in 1..Len(told) : told[i].type = "cancel"
    PROVE  Follows(q, known, log \o told) <=> Follows(q, known, log) /\ \A i \in 1..Len(told) : told[i].id # q
<1> DEFINE n == Len(log)
           k == Len(told)
           more == log \o told
<1>1. /\ n \in Nat /\ k \in Nat /\ Len(more) = n + k
      /\ \A i \in 1..n : more[i] = log[i]
      BY LenProperties, ConcatProperties
<1>2. \A i \in 1..k : n + i \in 1..n + k /\ more[n + i] = told[i]
      BY ConcatProperties, LenProperties
<1>3. \A i \in 1..n + k : i \in 1..n \/ \E j \in 1..k : i = n + j
  <2>1. SUFFICES ASSUME NEW i \in 1..n + k, i \notin 1..n
                 PROVE  \E j \in 1..k : i = n + j
        OBVIOUS
  <2>2. i - n \in 1..k /\ i = n + (i - n)
        BY <1>1, <2>1
  <2>q. QED BY <2>2
<1>4. \A i \in 1..n : i \in 1..n + k /\ \A j \in 1..k : n + j > i
      BY <1>1
<1> HIDE DEF n, k, more
<1>5. \A i \in 1..n + k : more[i].type = "request" => i \in 1..n
      BY <1>2, <1>3 DEF k
<1>6. CASE \E i \in 1..k : told[i].id = q
  <2>1. PICK w \in 1..k : told[w].id = q
        BY <1>6
  <2>2. n + w \in 1..n + k /\ more[n + w].id = q
        BY <1>2, <2>1
  <2>3. ASSUME NEW i \in 1..n + k, more[i].type = "request"
        PROVE  n + w > i
    <3>1. i \in 1..n
          BY <1>5, <2>3
    <3>q. QED BY <1>4, <3>1
  <2>4. ~Follows(q, known, more)
        BY <1>1, <2>2, <2>3 DEF Follows
  <2>q. QED BY <2>1, <2>4 DEF more, k
<1>7. CASE \A i \in 1..k : told[i].id # q
  <2>1. \A i \in 1..n + k : more[i].id = q => i \in 1..n /\ more[i] = log[i]
    <3>1. SUFFICES ASSUME NEW i \in 1..n + k, more[i].id = q
                   PROVE  i \in 1..n /\ more[i] = log[i]
          OBVIOUS
    <3>2. ASSUME NEW j \in 1..k, i = n + j
          PROVE  FALSE
      <4>1. more[i] = told[j]
            BY <1>2, <3>2
      <4>q. QED BY <1>7, <3>1, <4>1
    <3>3. i \in 1..n
          BY <1>3, <3>2
    <3>q. QED BY <1>1, <3>3
  <2>2. (\A i \in 1..n + k : more[i].id # q) <=> (\A i \in 1..n : log[i].id # q)
        BY <1>1, <1>4, <2>1
  <2>3. \A i \in 1..n : (\A j \in 1..n + k : j > i => more[j].id # q) <=> (\A j \in 1..n : j > i => log[j].id # q)
        BY <1>1, <1>4, <2>1
  <2>q. QED BY <1>1, <1>4, <1>7, <2>1, <2>2, <2>3 DEF Follows, more, n, k
<1>q. QED BY <1>6, <1>7 DEF k

\* Reading a message changes nothing of what will be open in the end.
LEMMA FollowsRead ==
    ASSUME NEW n \in Nat, NEW log \in Seq(Messages(n)), log # <<>>, NEW known, NEW q
    PROVE  Follows(q, Opened(known, Head(log)), Tail(log)) <=> Follows(q, known, log)
<1> DEFINE k == Len(log)
           m == Head(log)
           rest == Tail(log)
<1>1. /\ k \in Nat /\ k >= 1 /\ m = log[1] /\ m \in Messages(n)
      /\ Len(rest) = k - 1 /\ \A i \in 1..k - 1 : rest[i] = log[i + 1]
      BY LenProperties, HeadTailProperties, EmptySeq
<1>2. m.type \in {"request", "cancel"}
      BY <1>1 DEF Messages
<1>3. q \in Opened(known, m) <=> IF m.id = q THEN m.type = "request" ELSE q \in known
      BY <1>2 DEF Opened
<1>4. \A i \in 1..k : i = 1 \/ i - 1 \in 1..k - 1
      BY <1>1
<1>5. \A i \in 1..k - 1 : i + 1 \in 1..k /\ i + 1 > 1
      BY <1>1
<1>6. 1 \in 1..k
      BY <1>1
<1>7. \A i \in 1..k : i # 1 => log[i] = rest[i - 1] /\ i > 1
  <2>1. SUFFICES ASSUME NEW i \in 1..k, i # 1
                 PROVE  log[i] = rest[i - 1] /\ i > 1
        OBVIOUS
  <2>2. i - 1 \in 1..k - 1 /\ (i - 1) + 1 = i
        BY <1>1, <2>1
  <2>q. QED BY <1>1, <2>1, <2>2
<1>8. (\A i \in 1..k - 1 : rest[i].id # q) <=> (\A i \in 1..k : i > 1 => log[i].id # q)
  <2>1. ASSUME \A i \in 1..k - 1 : rest[i].id # q, NEW i \in 1..k, i > 1
        PROVE  log[i].id # q
    <3>1. i # 1 /\ i - 1 \in 1..k - 1
          BY <1>1, <2>1
    <3>q. QED BY <1>7, <2>1, <3>1
  <2>2. ASSUME \A i \in 1..k : i > 1 => log[i].id # q, NEW i \in 1..k - 1
        PROVE  rest[i].id # q
        BY <1>1, <1>5, <2>2
  <2>q. QED BY <2>1, <2>2
<1>9. \A i \in 1..k - 1 : (\A j \in 1..k - 1 : j > i => rest[j].id # q)
                           <=> (\A j \in 1..k : j > i + 1 => log[j].id # q)
  <2>1. SUFFICES ASSUME NEW i \in 1..k - 1
                 PROVE  (\A j \in 1..k - 1 : j > i => rest[j].id # q) <=> (\A j \in 1..k : j > i + 1 => log[j].id # q)
        OBVIOUS
  <2>2. ASSUME \A j \in 1..k - 1 : j > i => rest[j].id # q, NEW j \in 1..k, j > i + 1
        PROVE  log[j].id # q
    <3>1. j # 1 /\ j - 1 \in 1..k - 1 /\ j - 1 > i
          BY <1>1, <2>2
    <3>q. QED BY <1>7, <2>2, <3>1
  <2>3. ASSUME \A j \in 1..k : j > i + 1 => log[j].id # q, NEW j \in 1..k - 1, j > i
        PROVE  rest[j].id # q
    <3>1. j + 1 \in 1..k /\ j + 1 > i + 1
          BY <1>1, <2>3
    <3>q. QED BY <1>1, <2>3, <3>1
  <2>q. QED BY <2>2, <2>3
<1> DEFINE Latest(i) == log[i].id = q /\ log[i].type = "request" /\ \A j \in 1..k : j > i => log[j].id # q
           LatestOfRest(i) == rest[i].id = q /\ rest[i].type = "request" /\ \A j \in 1..k - 1 : j > i => rest[j].id # q
<1>10. \A i \in 1..k - 1 : LatestOfRest(i) <=> Latest(i + 1)
       BY <1>1, <1>9
<1>11. (\E i \in 1..k - 1 : LatestOfRest(i)) <=> (\E i \in 1..k : i # 1 /\ Latest(i))
  <2>1. ASSUME NEW i \in 1..k, i # 1, Latest(i)
        PROVE  \E j \in 1..k - 1 : LatestOfRest(j)
    <3>1. i - 1 \in 1..k - 1 /\ (i - 1) + 1 = i
          BY <1>1, <2>1
    <3>q. QED BY <1>10, <2>1, <3>1
  <2>2. ASSUME NEW i \in 1..k - 1, LatestOfRest(i)
        PROVE  \E j \in 1..k : j # 1 /\ Latest(j)
    <3>1. i + 1 \in 1..k /\ i + 1 # 1
          BY <1>1, <2>2
    <3>q. QED BY <1>10, <2>2, <3>1
  <2>q. QED BY <2>1, <2>2
<1>12. Latest(1) <=> m.id = q /\ m.type = "request" /\ \A j \in 1..k : j > 1 => log[j].id # q
       BY <1>1
<1>13. (\A i \in 1..k : log[i].id # q) <=> m.id # q /\ \A i \in 1..k : i > 1 => log[i].id # q
       BY <1>1, <1>6, <1>7
<1>14. Follows(q, known, log) <=> \/ q \in known /\ \A i \in 1..k : log[i].id # q
                                  \/ \E i \in 1..k : Latest(i)
       BY DEF Follows
<1>15. Follows(q, Opened(known, m), rest) <=> \/ q \in Opened(known, m) /\ \A i \in 1..k - 1 : rest[i].id # q
                                              \/ \E i \in 1..k - 1 : LatestOfRest(i)
       BY <1>1 DEF Follows
<1>16. (\E i \in 1..k : Latest(i)) <=> Latest(1) \/ \E i \in 1..k : i # 1 /\ Latest(i)
       BY <1>6
<1> HIDE DEF Latest, LatestOfRest, k, m, rest
<1>17. Follows(q, Opened(known, m), rest) <=> Follows(q, known, log)
       BY <1>3, <1>8, <1>11, <1>12, <1>13, <1>14, <1>15, <1>16
<1>q. QED BY <1>17 DEF m, rest

\* What the property says of the state.
LEMMA OpenInTheEndFollows ==
    ASSUME TypeOK
    PROVE  /\ \A q : OpenInTheEnd(q) <=> Follows(q, open, wire)
           /\ DOMAIN asked = 1..Len(asked)
           /\ ClientsCanFollow <=> \A q \in 1..Len(asked) : q \in waiting <=> Follows(q, open, wire)
<1>1. DOMAIN wire = 1..Len(wire) /\ DOMAIN asked = 1..Len(asked)
      BY Numbers, LenProperties
<1>2. \A q : OpenInTheEnd(q) <=> Follows(q, open, wire)
      BY <1>1 DEF OpenInTheEnd, Follows, Mentions
<1>q. QED BY <1>1, <1>2 DEF ClientsCanFollow

\* And of the next one.
LEMMA OpenInTheEndFollowsNext ==
    ASSUME TypeOK'
    PROVE  ClientsCanFollow' <=> \A q \in 1..Len(asked') : q \in waiting' <=> Follows(q, open', wire')
<1>1. DOMAIN wire' = 1..Len(wire') /\ DOMAIN asked' = 1..Len(asked')
      BY LenProperties DEF TypeOK
<1>2. \A q : OpenInTheEnd(q)' <=> Follows(q, open', wire')
      BY <1>1 DEF OpenInTheEnd, Follows, Mentions
<1>q. QED BY <1>1, <1>2 DEF ClientsCanFollow

\* One more message, and the question it is about asked or settled.
LEMMA MessageFollows ==
    ASSUME TypeOK, TypeOK', ClientsCanFollow, NEW q \in 1..Len(asked'),
           \/ Len(asked') = Len(asked) /\ waiting' = waiting \ {q} /\ wire' = Append(wire, [type |-> "cancel", id |-> q])
           \/ /\ Len(asked') = Len(asked) + 1 /\ waiting' = waiting \cup {q} /\ q = Len(asked')
              /\ wire' = Append(wire, [type |-> "request", id |-> q]),
           open' = open
    PROVE  ClientsCanFollow'
<1> DEFINE S == [type : {"request", "cancel"}, id : 1..Len(asked')]
<1>1. Len(asked) \in Nat /\ wire \in Seq(Messages(Len(asked))) /\ Len(asked') \in Nat /\ Len(asked) =< Len(asked')
  <2>1. Len(asked) \in Nat /\ wire \in Seq(Messages(Len(asked)))
        BY Numbers
  <2>q. QED BY <2>1
<1>2. wire \in Seq(S)
  <2>1. Messages(Len(asked)) \subseteq S
        BY <1>1 DEF Messages
  <2>q. QED BY <1>1, <2>1, SeqOverMore
<1>3. [type |-> "cancel", id |-> q] \in S /\ [type |-> "request", id |-> q] \in S
      OBVIOUS
<1> HIDE DEF S
<1>4. PICK m \in S : m.id = q /\ wire' = Append(wire, m) /\ (m.type = "request" <=> q \in waiting')
                     /\ \A r \in 1..Len(asked') : r # q => (r \in waiting' <=> r \in waiting) /\ r \in 1..Len(asked)
  <2>1. CASE waiting' = waiting \ {q} /\ Len(asked') = Len(asked) /\ wire' = Append(wire, [type |-> "cancel", id |-> q])
        BY <1>3, <2>1
  <2>2. CASE /\ Len(asked') = Len(asked) + 1 /\ waiting' = waiting \cup {q} /\ q = Len(asked')
             /\ wire' = Append(wire, [type |-> "request", id |-> q])
    <3>1. \A r \in 1..Len(asked') : r # q => r \in 1..Len(asked)
          BY <1>1, <2>2
    <3>q. QED BY <1>3, <2>2, <3>1
  <2>q. QED BY <2>1, <2>2
<1>5. \A r : Follows(r, open, wire') <=> IF m.id = r THEN m.type = "request" ELSE Follows(r, open, wire)
      BY <1>2, <1>4, FollowsLast
<1>6. \A r \in 1..Len(asked) : r \in waiting <=> Follows(r, open, wire)
      BY OpenInTheEndFollows
<1>7. \A r \in 1..Len(asked') : r \in waiting' <=> Follows(r, open', wire')
      BY <1>4, <1>5, <1>6
<1>q. QED BY <1>7, OpenInTheEndFollowsNext

\* Clients follow when all questions are withdrawn.
LEMMA CancelFollows ==
    ASSUME TypeOK, TypeOK', ClientsCanFollow, Cancel, open' = open
    PROVE  ClientsCanFollow'
<1>1. PICK told \in Seq(Messages(Len(asked))) :
         /\ wire' = wire \o told
         /\ \A i \in DOMAIN told : told[i].type = "cancel" /\ told[i].id \in waiting
         /\ \A q \in waiting : \E i \in DOMAIN told : told[i].id = q
      BY CancelTells
<1>2. waiting' = {} /\ asked' = asked
      BY CancelTells
<1>3. wire \in Seq(Messages(Len(asked)))
      BY Numbers
<1>4. DOMAIN told = 1..Len(told)
      BY LenProperties
<1>5. \A r : Follows(r, open, wire') <=> Follows(r, open, wire) /\ \A i \in 1..Len(told) : told[i].id # r
  <2>1. \A i \in 1..Len(told) : told[i].type = "cancel"
        BY <1>1, <1>4
  <2>q. QED BY <1>1, <1>3, <2>1, FollowsWithdrawn
<1>6. \A r \in 1..Len(asked) : r \in waiting <=> Follows(r, open, wire)
      BY OpenInTheEndFollows
<1>7. \A r \in 1..Len(asked) : ~Follows(r, open, wire')
      BY <1>1, <1>4, <1>5, <1>6
<1>8. open' = open
      OBVIOUS
<1>q. QED BY <1>2, <1>7, <1>8, OpenInTheEndFollowsNext

\* A client follows when it reads, and when it starts again.
LEMMA PageFollows ==
    ASSUME TypeOK, TypeOK', ClientsCanFollow, PageReads \/ PageReloads
    PROVE  ClientsCanFollow'
<1>1. asked' = asked /\ waiting' = waiting
      BY DEF PageReads, PageReloads
<1>2. \A r \in 1..Len(asked) : r \in waiting <=> Follows(r, open, wire)
      BY OpenInTheEndFollows
<1>4. CASE PageReads
  <2>1. wire # <<>> /\ wire' = Tail(wire) /\ open' = Opened(open, Head(wire))
        BY <1>4 DEF PageReads
  <2>2. PICK n \in Nat : n = Len(asked)
        BY Numbers
  <2>3. wire \in Seq(Messages(n))
        BY <2>2, Numbers
  <2>4. \A r : Follows(r, open', wire') <=> Follows(r, open, wire)
        BY <2>1, <2>3, FollowsRead
  <2>q. QED BY <1>1, <1>2, <2>4, OpenInTheEndFollowsNext
<1>5. CASE PageReloads
  <2>1. wire' = <<>> /\ open' = waiting
        BY <1>5 DEF PageReloads
  <2>2. 1..Len(wire') = {}
        BY <2>1
  <2>3. \A r : Follows(r, open', wire') <=> r \in waiting
        BY <2>1, <2>2 DEF Follows
  <2>q. QED BY <1>1, <2>3, OpenInTheEndFollowsNext
<1>q. QED BY <1>4, <1>5

\* Every step keeps clients able to follow.
LEMMA StepFollows ==
    ASSUME TypeOK, TypeOK', ClientsCanFollow, [Next]_vars
    PROVE  ClientsCanFollow'
<1>1. ASSUME NEW c \in CallIds, Judge(c), Ask(c)
      PROVE  ClientsCanFollow'
  <2>1. /\ Len(asked') = Len(asked) + 1 /\ waiting' = waiting \cup {Len(asked')}
        /\ wire' = Append(wire, [type |-> "request", id |-> Len(asked')])
        BY <1>1, AskTyped
  <2>2. Len(asked') \in 1..Len(asked')
        BY <2>1, Numbers
  <2>3. open' = open
        BY <1>1 DEF Judge, page
  <2>q. QED BY <2>1, <2>2, <2>3, MessageFollows
<1>2. CASE Respond /\ ~UNCHANGED <<waiting, wire>>
  <2>1. PICK q \in waiting : waiting' = waiting \ {q} /\ wire' = Append(wire, [type |-> "cancel", id |-> q])
        BY <1>2 DEF Respond
  <2>2. open' = open /\ asked' = asked
        BY <1>2 DEF Respond
  <2>3. q \in 1..Len(asked')
        BY <2>2, Numbers DEF TypeOK
  <2>q. QED BY <2>1, <2>2, <2>3, MessageFollows
<1>3. CASE Abort \/ Detach
      BY <1>3, CancelFollows DEF Abort, Detach, page
<1>4. CASE PageReads \/ PageReloads
      BY <1>4, PageFollows
<1>5. CASE UNCHANGED <<asked, waiting, wire, open>>
      BY <1>5 DEF ClientsCanFollow, OpenInTheEnd, Mentions
<1>6. ASSUME NEW c \in CallIds, HostStep(c), ~Ask(c)
      PROVE  UNCHANGED <<asked, waiting, wire, open>>
      BY <1>6 DEF HostStep, Execute, Judge, HooksPass, HooksDeny, Return, ui, page
<1>7. ASSUME NEW c \in CallIds, HostStep(c), Ask(c)
      PROVE  ClientsCanFollow'
  <2>1. CASE Judge(c)
        BY <1>1, <1>7, <2>1
  <2>2. CASE Execute(c) \/ HooksPass(c) \/ HooksDeny(c) \/ Return(c)
        BY <1>5, <2>2 DEF Execute, HooksPass, HooksDeny, Return, ui, page
  <2>q. QED BY <1>7, <2>1, <2>2 DEF HostStep
<1>8. CASE Respond /\ UNCHANGED <<waiting, wire>>
      BY <1>5, <1>8 DEF Respond
<1>9. CASE \/ \E c \in CallIds : Unregister(c)
           \/ Attach
           \/ \E p \in Modes, a \in AgentModes : SetModes(p, a)
           \/ \E yes \in BOOLEAN : PageAnswers(yes)
           \/ UNCHANGED vars
      BY <1>5, <1>9 DEF Unregister, Attach, SetModes, PageAnswers, vars, ui, page
<1>q. QED BY <1>2, <1>3, <1>4, <1>5, <1>6, <1>7, <1>8, <1>9 DEF Next

\* A client that follows the broadcasts knows which questions are open once it has read everything.
THEOREM ClientsFollow == Spec => []ClientsCanFollow
<1>1. Init => ClientsCanFollow
      BY DEF Init, ClientsCanFollow
<1>2. TypeOK /\ TypeOK' /\ ClientsCanFollow /\ [Next]_vars => ClientsCanFollow'
      BY StepFollows
<1>q. QED BY <1>1, <1>2, TypeCorrect, PTL DEF Spec


-----------------------------------------------------------------------------
(* What runs has ground *)

\* Every yes on its way has been said by the user.
Consented == \A i \in 1..Len(answers) : answers[i].value => answers[i].id \in consents

\* Why a call may be past the rules.
HasGround(c) ==
    \/ ground[c] = "user" /\ \E q \in consents : asked[q] = c
    \/ ground[c] \in Modes /\ EvaluateToolPermission(ground[c], Rules, CallFor[c]) = "allow"

\* What the property says of each call.
LEMMA GroundOfAll == RunsOnGround <=> \A c \in CallIds : pc[c] \in {"hooks", "running"} => HasGround(c)
BY DEF RunsOnGround, HasGround

\* The user's yes stays said and questions stay whose they were.
LEMMA GroundKept ==
    ASSUME TypeOK, consents \subseteq consents', \A q \in DOMAIN asked : asked'[q] = asked[q],
           NEW c \in CallIds, ground'[c] = ground[c], HasGround(c)
    PROVE  HasGround(c)'
BY DEF TypeOK, HasGround

\* A step that lets no call past the rules and puts no answer on its way keeps both.
LEMMA QuietGround ==
    ASSUME TypeOK, RunsOnGround, consents \subseteq consents', \A q \in DOMAIN asked : asked'[q] = asked[q],
           ground' = ground,
           \A c \in CallIds : pc'[c] \in {"hooks", "running"} => pc[c] \in {"hooks", "running"}
    PROVE  RunsOnGround'
<1>1. ASSUME NEW c \in CallIds, pc'[c] \in {"hooks", "running"}
      PROVE  HasGround(c)'
  <2>1. HasGround(c)
        BY <1>1, GroundOfAll
  <2>2. ground'[c] = ground[c]
        OBVIOUS
  <2>q. QED BY <2>1, <2>2, GroundKept
<1>q. QED BY <1>1 DEF RunsOnGround, HasGround

\* Every step keeps what the user has said yes to.
LEMMA ConsentKept ==
    ASSUME TypeOK, Consented, [Next]_vars
    PROVE  Consented'
<1>1. Len(asked) \in Nat /\ answers \in Seq(Answers(Len(asked)))
      BY Numbers
<1>2. CASE Respond
  <2>1. /\ Len(answers') = Len(answers) - 1 /\ Len(answers) \in Nat
        /\ \A i \in 1..Len(answers) - 1 : answers'[i] = answers[i + 1]
    <3>1. answers # <<>> /\ answers' = Tail(answers)
          BY <1>2 DEF Respond
    <3>q. QED BY <1>1, <3>1, HeadTailProperties, LenProperties
  <2>2. consents' = consents
        BY <1>2 DEF Respond
  <2>3. ASSUME NEW i \in 1..Len(answers'), answers'[i].value
        PROVE  answers'[i].id \in consents
    <3>1. i + 1 \in 1..Len(answers) /\ answers'[i] = answers[i + 1]
          BY <2>1, <2>3
    <3>q. QED BY <2>3, <3>1 DEF Consented
  <2>q. QED BY <2>2, <2>3 DEF Consented
<1>3. ASSUME NEW yes \in BOOLEAN, PageAnswers(yes)
      PROVE  Consented'
  <2>1. slot \in 1..Len(asked) /\ answers' = Append(answers, [id |-> slot, value |-> yes])
        BY <1>1, <1>3 DEF PageAnswers, TypeOK
  <2>2. [id |-> slot, value |-> yes] \in Answers(Len(asked))
        BY <2>1 DEF Answers
  <2>3. /\ Len(answers') = Len(answers) + 1 /\ Len(answers) \in Nat
        /\ answers'[Len(answers) + 1] = [id |-> slot, value |-> yes]
        /\ \A i \in 1..Len(answers) : answers'[i] = answers[i]
        BY <1>1, <2>1, <2>2, AppendProperties, LenProperties
  <2>4. consents \subseteq consents' /\ (yes => slot \in consents')
        BY <1>3 DEF PageAnswers
  <2>5. ASSUME NEW i \in 1..Len(answers'), answers'[i].value
        PROVE  answers'[i].id \in consents'
    <3>1. CASE i \in 1..Len(answers)
          BY <2>3, <2>4, <2>5, <3>1 DEF Consented
    <3>2. CASE i = Len(answers) + 1
      <4>1. answers'[i].value = yes /\ answers'[i].id = slot
            BY <2>3, <3>2
      <4>q. QED BY <2>4, <2>5, <4>1
    <3>q. QED BY <2>3, <3>1, <3>2
  <2>q. QED BY <2>5 DEF Consented
<1>4. CASE PageReloads
  <2>1. consents' = consents /\ (answers' = answers \/ answers' = <<>>)
        BY <1>4 DEF PageReloads
  <2>2. CASE answers' = <<>>
    <3>1. 1..Len(answers') = {}
          BY <2>2
    <3>q. QED BY <3>1 DEF Consented
  <2>q. QED BY <2>1, <2>2 DEF Consented
<1>5. CASE UNCHANGED <<answers, consents>>
      BY <1>5 DEF Consented
<1>6. CASE \/ \E c \in CallIds : HostStep(c) \/ Unregister(c)
           \/ Abort \/ Detach \/ Attach \/ PageReads
           \/ \E p \in Modes, a \in AgentModes : SetModes(p, a)
           \/ UNCHANGED vars
      BY <1>5, <1>6 DEF HostStep, Execute, Judge, HooksPass, HooksDeny, Return, Unregister, Abort, Detach, Attach,
         PageReads, SetModes, vars, page
<1>q. QED BY <1>2, <1>3, <1>4, <1>6 DEF Next

\* What the Host does with one call.
LEMMA HostStepGround ==
    ASSUME TypeOK, RunsOnGround, NEW c \in CallIds, HostStep(c)
    PROVE  RunsOnGround'
<1>1. consents' = consents
      BY DEF HostStep, Execute, Judge, HooksPass, HooksDeny, Return, page
<1>2. CASE Judge(c)
  <2> DEFINE mode == PermissionForAgentMode(agentMode, permission)
             verdict == EvaluateToolPermission(mode, Rules, CallFor[c])
  <2>1. CASE verdict = "allow" /\ pc' = [pc EXCEPT ![c] = "hooks"] /\ ground' = [ground EXCEPT ![c] = mode] /\ UNCHANGED ui
    <3>1. asked' = asked /\ mode \in Modes
          BY <2>1, ModeInForce DEF ui
    <3>2. ASSUME NEW d \in CallIds, pc'[d] \in {"hooks", "running"}
          PROVE  HasGround(d)'
      <4>1. CASE d = c
        <5>1. ground'[c] = mode
              BY <2>1 DEF TypeOK
        <5>q. QED BY <2>1, <3>1, <4>1, <5>1 DEF HasGround
      <4>2. CASE d # c
        <5>1. pc[d] \in {"hooks", "running"} /\ ground'[d] = ground[d]
              BY <2>1, <3>2, <4>2 DEF TypeOK
        <5>2. HasGround(d)
              BY <5>1, GroundOfAll
        <5>q. QED BY <1>1, <3>1, <5>1, <5>2, GroundKept
      <4>q. QED BY <4>1, <4>2
    <3>q. QED BY <3>2 DEF RunsOnGround, HasGround
  <2>2. CASE pc' = [pc EXCEPT ![c] = "asking"] /\ Ask(c) /\ UNCHANGED ground
    <3>1. \A q \in DOMAIN asked : asked'[q] = asked[q]
          BY <2>2, AskTyped
    <3>2. \A d \in CallIds : pc'[d] \in {"hooks", "running"} => pc[d] \in {"hooks", "running"}
          BY <2>2 DEF TypeOK
    <3>q. QED BY <1>1, <2>2, <3>1, <3>2, QuietGround
  <2>3. CASE pc' = [pc EXCEPT ![c] = "done"] /\ UNCHANGED <<ui, ground>>
    <3>1. asked' = asked /\ \A d \in CallIds : pc'[d] \in {"hooks", "running"} => pc[d] \in {"hooks", "running"}
          BY <2>3 DEF TypeOK, ui
    <3>q. QED BY <1>1, <2>3, <3>1, QuietGround
  <2>q. QED BY <1>2, <2>1, <2>2, <2>3 DEF Judge
<1>3. CASE Execute(c) \/ HooksPass(c) \/ HooksDeny(c) \/ Return(c)
  <2>1. UNCHANGED <<asked, ground>>
        BY <1>3 DEF Execute, HooksPass, HooksDeny, Return, ui
  <2>2. \A d \in CallIds : pc'[d] \in {"hooks", "running"} => pc[d] \in {"hooks", "running"}
        BY <1>3 DEF Execute, HooksPass, HooksDeny, Return, TypeOK
  <2>q. QED BY <1>1, <2>1, <2>2, QuietGround
<1>q. QED BY <1>2, <1>3 DEF HostStep

\* An answer lets the one call past the rules that it was given for.
LEMMA RespondGround ==
    ASSUME TypeOK, Consented, RunsOnGround, Respond
    PROVE  RunsOnGround'
<1>1. UNCHANGED <<asked, consents>>
      BY DEF Respond
<1>2. CASE UNCHANGED <<pc, ground>>
      BY <1>1, <1>2, QuietGround
<1>3. CASE ~UNCHANGED <<pc, ground>>
  <2>1. PICK q \in waiting, yes \in BOOLEAN :
          /\ q = Head(answers).id /\ yes = Head(answers).value
          /\ pc' = [pc EXCEPT ![asked[q]] = IF yes THEN "hooks" ELSE "done"]
          /\ ground' = [ground EXCEPT ![asked[q]] = IF yes THEN "user" ELSE "none"]
    <3>1. Len(asked) \in Nat /\ answers \in Seq(Answers(Len(asked))) /\ answers # <<>>
          BY Numbers DEF Respond
    <3>2. Head(answers) \in Answers(Len(asked))
          BY <3>1, HeadTailProperties
    <3>3. Head(answers).value \in BOOLEAN
          BY <3>2 DEF Answers
    <3>q. QED BY <1>3, <3>3 DEF Respond
  <2>2. yes => q \in consents
    <3>1. answers # <<>> /\ answers \in Seq(Answers(Len(asked)))
          BY Numbers DEF Respond
    <3>2. 1 \in 1..Len(answers) /\ Head(answers) = answers[1]
          BY <3>1, HeadTailProperties, LenProperties, EmptySeq
    <3>q. QED BY <2>1, <3>2 DEF Consented
  <2>3. ASSUME NEW d \in CallIds, pc'[d] \in {"hooks", "running"}
        PROVE  HasGround(d)'
    <3>1. CASE d = asked[q]
      <4>1. yes /\ ground'[d] = "user"
            BY <2>1, <2>3, <3>1 DEF TypeOK
      <4>q. QED BY <1>1, <2>2, <3>1, <4>1 DEF HasGround
    <3>2. CASE d # asked[q]
      <4>1. pc[d] \in {"hooks", "running"} /\ ground'[d] = ground[d]
            BY <2>1, <2>3, <3>2 DEF TypeOK
      <4>2. HasGround(d)
            BY <4>1, GroundOfAll
      <4>q. QED BY <1>1, <4>1, <4>2, GroundKept
    <3>q. QED BY <3>1, <3>2
  <2>q. QED BY <2>3 DEF RunsOnGround, HasGround
<1>q. QED BY <1>2, <1>3

\* Every step keeps what runs on its ground.
LEMMA StepGround ==
    ASSUME TypeOK, QuestionsHaveCallers, Consented, RunsOnGround, [Next]_vars
    PROVE  RunsOnGround'
<1>1. ASSUME NEW c \in CallIds, HostStep(c)
      PROVE  RunsOnGround'
      BY <1>1, HostStepGround
<1>2. CASE Respond
      BY <1>2, RespondGround
<1>3. CASE Abort \/ Detach
  <2>1. UNCHANGED <<asked, consents, ground>> /\ Cancel
        BY <1>3, CancelTells DEF Abort, Detach, page
  <2>2. \A c \in CallIds : pc'[c] \in {"hooks", "running"} => pc[c] \in {"hooks", "running"}
        BY <2>1, CancelEndsAsking
  <2>q. QED BY <2>1, <2>2, QuietGround
<1>4. CASE \/ \E c \in CallIds : Unregister(c)
           \/ Attach \/ PageReads \/ PageReloads
           \/ \E p \in Modes, a \in AgentModes : SetModes(p, a)
           \/ \E yes \in BOOLEAN : PageAnswers(yes)
           \/ UNCHANGED vars
  <2>1. UNCHANGED <<asked, ground, pc>> /\ consents \subseteq consents'
        BY <1>4 DEF Unregister, Attach, PageReads, PageReloads, SetModes, PageAnswers, vars, ui, page
  <2>q. QED BY <2>1, QuietGround
<1>q. QED BY <1>1, <1>2, <1>3, <1>4 DEF Next

\* A call gets past the rules because a mode in force allowed it, or because the user said yes to
\* the question about this very call, whatever is answered late, twice or out of order.
THEOREM GroundOfRunning == Spec => []RunsOnGround
<1>1. Init => Consented /\ RunsOnGround
  <2>s. SUFFICES ASSUME Init
                 PROVE  Consented /\ RunsOnGround
        OBVIOUS
  <2>1. Init
        BY <2>s
  <2>2. \A c \in CallIds : pc[c] = "idle"
        BY <2>1 DEF Init
  <2>3. answers = <<>> /\ 1..Len(<<>>) = {}
        BY <2>1 DEF Init
  <2>q. QED BY <2>2, <2>3 DEF Consented, RunsOnGround
<1>2. TypeOK /\ QuestionsHaveCallers /\ Consented /\ RunsOnGround /\ [Next]_vars => Consented' /\ RunsOnGround'
      BY ConsentKept, StepGround
<1>q. QED BY <1>1, <1>2, TypeCorrect, QuestionsAndCallers, PTL DEF Spec

-----------------------------------------------------------------------------
(* Delegated tasks                                                         *)
\* What a child, a result and a use of a tool are.
KidTyped == [at : {"queued", "starting", "thinking", "asking", "settling", "stuck", "over"}, cut : BOOLEAN,
             limits : SUBSET ToolNames, tools : Nat, outcome : {"done", "error", "aborted", "max-turns"},
             said : {"nothing", "task"} \cup (IF "again" \in Races THEN {"other"} ELSE {}),
             asks : ToolNames \cup {"none"}]
ResultTyped == [of : Nat, ok : BOOLEAN, error : {"none", "no model", "no text", "done", "error", "aborted", "max-turns"}]
UseTyped == [kid : Kids, tool : ToolNames, asked : BOOLEAN]
ChildrenStates ==
    [front : {"page", "headless"}, model : BOOLEAN, unattended : BOOLEAN,
     run : {"running", "done", "error", "aborted"}, aborted : BOOLEAN, call : {"idle", "running", "returned"},
     permission : {"read-only", "workspace-write"}, tasks : 0..N, next : Nat, kids : [Kids -> KidTyped],
     results : [Kids -> ResultTyped], ran : SUBSET UseTyped, exit : {"none", "0", "1"},
     again : SUBSET Kids]
ChildrenTyped == sub \in ChildrenStates

\* A child that is at work does so for a call that waits for it, with what it was delegated with; one that
\* is over has told what became of it.
ChildKept(i) ==
    /\ Kid(i).at \notin {"queued", "over"} => i \in Tasks /\ sub.call = "running" /\ Kid(i).limits \subseteq Toolbox
    /\ Kid(i).at = "asking" => Kid(i).asks \in Kid(i).limits
    /\ Kid(i).at = "queued" => Kid(i).outcome = "error"
    /\ Kid(i).at # "queued" => i < sub.next
    /\ Kid(i).at = "over" => i \in Tasks /\ sub.call # "idle" /\ sub.results[i].of = i
    /\ Kid(i).at = "over" => (sub.results[i].ok <=> Kid(i).outcome = "done" /\ Kid(i).said # "nothing")
    /\ sub.call = "returned" /\ i \in Tasks => Kid(i).at = "over"
    /\ sub.aborted /\ i \in Running => Kid(i).cut
ParentKept ==
    /\ sub.call = "idle" => sub.tasks = 0 /\ ("again" \notin Races => sub.ran = {})
    /\ sub.run # "running" => sub.call # "running"
    /\ sub.run = "done" => ~sub.aborted
    /\ sub.exit # "none" => sub.run # "running" /\ (sub.exit = "0" => sub.run = "done")
ToolsKept == "again" \notin Races => KeepToTheirTools
ChildrenInv == ChildrenTyped /\ ParentKept /\ ToolsKept /\ \A i \in Kids : ChildKept(i)

LEMMA ChildrenStart == ChildrenInit => ChildrenInv
<1> SUFFICES ASSUME ChildrenInit PROVE ChildrenInv
      OBVIOUS
<1>1. PICK front \in {"page", "headless"}, model \in BOOLEAN, alone \in BOOLEAN :
        sub = [front |-> front, model |-> model, unattended |-> alone, run |-> "running", aborted |-> FALSE,
               call |-> "idle", permission |-> "read-only", tasks |-> 0, next |-> 1, kids |-> [i \in Kids |-> NoKid],
               results |-> [i \in Kids |-> NoResult], ran |-> {}, exit |-> "none",
               again |-> {}]
      BY DEF ChildrenInit
<1>2. /\ NoKid \in KidTyped /\ NoKid.at = "queued" /\ NoKid.outcome = "error"
      /\ NoResult \in ResultTyped
      BY DEF NoKid, NoResult, KidTyped, ResultTyped
<1>3. /\ sub.call = "idle" /\ sub.run = "running" /\ sub.exit = "none" /\ sub.ran = {} /\ ~sub.aborted
      /\ sub.tasks = 0
      /\ sub.kids = [i \in Kids |-> NoKid]
      BY <1>1
<1>4. ChildrenTyped
      BY <1>1, <1>2, DelegationAssumption DEF ChildrenTyped, ChildrenStates
<1>5. ParentKept /\ ToolsKept
      BY <1>3 DEF ParentKept, ToolsKept, KeepToTheirTools
<1>6. \A i \in Kids : Kid(i) = NoKid
      BY <1>3 DEF Kid
<1>7. \A i \in Kids : ChildKept(i)
      BY <1>2, <1>3, <1>6 DEF ChildKept
<1>q. QED BY <1>4, <1>5, <1>7 DEF ChildrenInv

\* What of the state is only the parent's.
ParentOf(x) == <<x.front, x.model, x.unattended, x.run, x.aborted, x.call, x.permission, x.tasks, x.exit>>
Parent == ParentOf(sub)

LEMMA NextTyped == (ChildrenTyped => sub.next \in Nat) /\ (ChildrenTyped' => sub'.next \in Nat)
      BY DEF ChildrenTyped, ChildrenStates

LEMMA KidsAreNumbers == \A i \in Kids : i \in Nat
      BY DelegationAssumption DEF Kids

LEMMA NextGrows == \A k, m, n \in Nat : (n >= m /\ k < m => k < n) /\ n >= n
      OBVIOUS

\* A child moves on, and nothing else but what has run and what it has told.
LEMMA ChildMoves ==
    ASSUME ChildrenInv, NEW i \in Kids, i \in Tasks, sub.call = "running", ChildrenTyped', UNCHANGED Parent,
           sub'.next >= sub.next,
           \A k \in Kids : k # i => sub'.kids[k] = sub.kids[k] /\ sub'.results[k] = sub.results[k],
           ChildKept(i)',
           \A use \in sub'.ran : use \in sub.ran \/ (/\ use.tool \in Toolbox
                                                     /\ use.tool = "write outside" => use.asked)
    PROVE  ChildrenInv'
<1>1. /\ sub'.run = sub.run /\ sub'.aborted = sub.aborted /\ sub'.call = sub.call /\ sub'.permission = sub.permission
      /\ sub'.tasks = sub.tasks /\ sub'.exit = sub.exit
      BY DEF Parent, ParentOf
<1>2. Toolbox' = Toolbox /\ Tasks' = Tasks
      BY <1>1 DEF Toolbox, Tasks
<1>3. ParentKept' /\ ToolsKept'
      BY <1>1, <1>2 DEF ChildrenInv, ParentKept, ToolsKept, KeepToTheirTools
<1>4. ASSUME NEW k \in Kids, k # i
      PROVE  ChildKept(k)'
  <2>1. ChildKept(k) /\ Kid(k)' = Kid(k) /\ sub'.results[k] = sub.results[k]
        BY <1>4 DEF ChildrenInv, Kid
  <2>2. k \in Running' <=> k \in Running
        BY <2>1 DEF Running
  <2>3. k < sub.next => k < sub'.next
    <3>1. sub.next \in Nat /\ sub'.next \in Nat
          BY NextTyped DEF ChildrenInv
    <3>2. k \in Nat
          BY KidsAreNumbers
    <3>q. QED BY <3>1, <3>2, NextGrows
  <2>q. QED BY <1>1, <1>2, <2>1, <2>2, <2>3 DEF ChildKept
<1>q. QED BY <1>3, <1>4 DEF ChildrenInv

\* Only a call that runs has children at work.
LEMMA AtWork ==
    ASSUME ChildrenInv, NEW i \in Kids, Kid(i).at \notin {"queued", "over"}
    PROVE  i \in Tasks /\ sub.call = "running" /\ Kid(i).limits \subseteq Toolbox /\ Kid(i) \in KidTyped
      BY DEF ChildrenInv, ChildKept, ChildrenTyped, ChildrenStates, Kid

\* A step of one child's that leaves what it was delegated with and what it has told.
LEMMA ChildSteps ==
    ASSUME ChildrenInv, NEW i \in Kids, Kid(i).at \notin {"queued", "over"}, NEW kid \in KidTyped,
           UNCHANGED Parent, sub'.next = sub.next, sub'.results = sub.results,
           sub'.kids = [sub.kids EXCEPT ![i] = kid], ChildrenTyped',
           kid.at \notin {"queued", "over"}, kid.limits = Kid(i).limits,
           kid.at = "asking" => kid.asks \in Kid(i).limits,
           kid.at \in {"starting", "thinking", "asking"} => i \in Running /\ kid.cut = Kid(i).cut,
           \A use \in sub'.ran : use \in sub.ran \/ (/\ use.tool \in Toolbox
                                                     /\ use.tool = "write outside" => use.asked)
    PROVE  ChildrenInv'
<1>1. /\ sub'.run = sub.run /\ sub'.aborted = sub.aborted /\ sub'.call = sub.call /\ sub'.permission = sub.permission
      /\ sub'.tasks = sub.tasks
      BY DEF Parent, ParentOf
<1>2. Toolbox' = Toolbox /\ Tasks' = Tasks
      BY <1>1 DEF Toolbox, Tasks
<1>3. i \in Tasks /\ sub.call = "running" /\ Kid(i).limits \subseteq Toolbox
      BY AtWork
<1>4. /\ sub.kids \in [Kids -> KidTyped] /\ Kid(i)' = kid
      /\ \A k \in Kids : k # i => sub'.kids[k] = sub.kids[k] /\ sub'.results[k] = sub.results[k]
      BY DEF ChildrenInv, ChildrenTyped, ChildrenStates, Kid
<1>5. i \in Running' => i \in Running /\ kid.cut = Kid(i).cut
      BY <1>4 DEF Running
<1>6. ChildKept(i)
      BY DEF ChildrenInv
<1>7. ChildKept(i)'
      BY <1>1, <1>2, <1>3, <1>4, <1>5, <1>6 DEF ChildKept
<1>8. sub'.next >= sub.next
  <2>1. sub.next \in Nat
        BY NextTyped DEF ChildrenInv
  <2>2. sub.next >= sub.next
        BY <2>1, NextGrows
  <2>q. QED BY <2>2
<1>q. QED BY <1>3, <1>4, <1>7, <1>8, ChildMoves

LEMMA HooksEndKeeps ==
    ASSUME ChildrenInv, NEW i \in Kids, HooksEnd(i)
    PROVE  ChildrenInv'
<1>1. Kid(i).at = "starting" /\ sub' = [sub EXCEPT !.kids[i].at = "thinking"]
      BY DEF HooksEnd
<1>2. ChildrenTyped /\ Kid(i) \in KidTyped
      BY DEF ChildrenInv, ChildrenTyped, ChildrenStates, Kid
<1> DEFINE kid == [Kid(i) EXCEPT !.at = "thinking"]
<1>3. kid \in KidTyped /\ kid.at = "thinking" /\ kid.limits = Kid(i).limits /\ kid.cut = Kid(i).cut
      BY <1>2 DEF KidTyped
<1>4. sub' = [sub EXCEPT !.kids = [sub.kids EXCEPT ![i] = kid]]
      BY <1>1, <1>2 DEF ChildrenTyped, ChildrenStates, Kid
<1> HIDE DEF kid
<1>5. /\ UNCHANGED Parent /\ sub'.next = sub.next /\ sub'.results = sub.results /\ sub'.ran = sub.ran
      /\ sub'.kids = [sub.kids EXCEPT ![i] = kid] /\ ChildrenTyped'
      BY <1>2, <1>3, <1>4 DEF ChildrenTyped, ChildrenStates, Parent, ParentOf
<1>6. i \in Running
      BY <1>1 DEF Running
<1>q. QED BY <1>1, <1>3, <1>5, <1>6, ChildSteps

\* A step that changes one child and adds to what has run.
LEMMA KidChanges ==
    ASSUME ChildrenTyped, NEW i \in Kids, NEW kid \in KidTyped, NEW uses \in SUBSET UseTyped,
           sub' = [sub EXCEPT !.kids = [sub.kids EXCEPT ![i] = kid], !.ran = uses]
    PROVE  /\ UNCHANGED Parent /\ sub'.next = sub.next /\ sub'.results = sub.results /\ sub'.ran = uses
           /\ sub'.kids = [sub.kids EXCEPT ![i] = kid] /\ ChildrenTyped'
      BY DEF ChildrenTyped, ChildrenStates, Parent, ParentOf

\* No rule of a child's lets it write outside of the workspace unasked.
LEMMA OutsideIsAsked ==
    ASSUME NEW mode \in {"read-only", "workspace-write"}
    PROVE  EvaluateToolPermission(mode, Config, CallOf("write outside")) # "allow"
<1> DEFINE call == CallOf("write outside")
<1>1. call.kind = "write" /\ call.target = "outside" /\ ~Config.confine /\ Config.toolRules = <<>>
      BY DEF CallOf, Config, READ_TOOLS, WRITE_TOOLS
<1>2. FirstRule(Config, call) = NoRule
  <2>1. SelectInSeq(<<>>, LAMBDA r : Speaks(r, call)) = 0
        BY DEF SelectInSeq
  <2>q. QED BY <1>1, <2>1 DEF FirstRule
<1> HIDE DEF call
<1>3. NeedsUser(mode, Config, call)
      BY <1>1 DEF NeedsUser, Outside, Writes
<1>4. Verdict(mode, Config, call, NoRule) # "allow"
      BY <1>3 DEF Verdict
<1>q. QED BY <1>2, <1>4 DEF EvaluateToolPermission, call

\* A child that asks, and what its two changes come to.
Asked(x, i, tool) == [x EXCEPT !.kids[i].at = "asking", !.kids[i].asks = tool]
AskedKids(x, i, tool) == [x.kids EXCEPT ![i] = [x.kids[i] EXCEPT !.at = "asking", !.asks = tool]]
LEMMA AskedIs ==
    ASSUME NEW x \in ChildrenStates, NEW i \in Kids, NEW tool \in ToolNames, NEW y, y = Asked(x, i, tool)
    PROVE  /\ y \in ChildrenStates
           /\ ParentOf(y) = ParentOf(x) /\ y.next = x.next /\ y.results = x.results /\ y.ran = x.ran
           /\ y.kids = AskedKids(x, i, tool)
<1> DEFINE kids == AskedKids(x, i, tool)
<1>1. x.kids \in [Kids -> KidTyped] /\ x.kids[i] \in KidTyped
      BY DEF ChildrenStates
<1>2. kids \in [Kids -> KidTyped]
      BY <1>1 DEF KidTyped, AskedKids
<1>3. y = [x EXCEPT !.kids = kids]
      BY <1>1 DEF ChildrenStates, KidTyped, Asked, AskedKids
<1> HIDE DEF kids
<1>4. /\ y \in ChildrenStates /\ y.kids = kids
      /\ ParentOf(y) = ParentOf(x) /\ y.next = x.next /\ y.results = x.results /\ y.ran = x.ran
      BY <1>2, <1>3 DEF ChildrenStates, ParentOf
<1>q. QED BY <1>4 DEF kids

LEMMA UseToolKeeps ==
    ASSUME ChildrenInv, NEW i \in Kids, NEW tool \in ToolNames, UseTool(i, tool)
    PROVE  ChildrenInv'
<1> DEFINE used == [Kid(i) EXCEPT !.tools = @ + 1]
           asks == [used EXCEPT !.at = "asking", !.asks = tool]
           use == [kid |-> i, tool |-> tool, asked |-> FALSE]
           x == [sub EXCEPT !.kids[i].tools = @ + 1]
           verdict == EvaluateToolPermission(sub.permission, Config, CallOf(tool))
<1>1. /\ Kid(i).at = "thinking"
      /\ \/ tool \in Kid(i).limits /\ verdict = "allow" /\ sub' = [x EXCEPT !.ran = @ \cup {use}]
         \/ tool \in Kid(i).limits /\ sub' = [x EXCEPT !.kids[i].at = "asking", !.kids[i].asks = tool]
         \/ sub' = x
      BY DEF UseTool
<1>2. /\ ChildrenTyped /\ Kid(i) \in KidTyped
      /\ sub.ran \in SUBSET UseTyped /\ sub.permission \in {"read-only", "workspace-write"}
      BY DEF ChildrenInv, ChildrenTyped, ChildrenStates, Kid
<1>3. used \in KidTyped /\ used.at = "thinking" /\ used.limits = Kid(i).limits /\ used.cut = Kid(i).cut
      BY <1>1, <1>2 DEF KidTyped
<1>4. x = [sub EXCEPT !.kids = [sub.kids EXCEPT ![i] = used]]
      BY <1>2 DEF ChildrenTyped, ChildrenStates, Kid
<1>5. i \in Running /\ Kid(i).at \notin {"queued", "over"} /\ Kid(i).limits \subseteq Toolbox
      BY <1>1, AtWork DEF Running
<1>6. use \in UseTyped /\ use.tool = tool
      BY DEF UseTyped
<1>7. verdict = "allow" => tool # "write outside"
      BY <1>2, OutsideIsAsked
<1> HIDE DEF used, use, verdict
<1>8. CASE tool \in Kid(i).limits /\ verdict = "allow" /\ sub' = [x EXCEPT !.ran = @ \cup {use}]
  <2>1. sub' = [sub EXCEPT !.kids = [sub.kids EXCEPT ![i] = used], !.ran = sub.ran \cup {use}]
        BY <1>2, <1>4, <1>8 DEF ChildrenTyped, ChildrenStates
  <2> HIDE DEF x
  <2>2. sub.ran \cup {use} \in SUBSET UseTyped
        BY <1>2, <1>6
  <2>3. /\ UNCHANGED Parent /\ sub'.next = sub.next /\ sub'.results = sub.results /\ sub'.ran = sub.ran \cup {use}
        /\ sub'.kids = [sub.kids EXCEPT ![i] = used] /\ ChildrenTyped'
        BY <1>2, <1>3, <2>1, <2>2, KidChanges
  <2>q. QED BY <1>3, <1>5, <1>6, <1>7, <1>8, <2>3, ChildSteps
<1>9. CASE tool \in Kid(i).limits /\ sub' = [x EXCEPT !.kids[i].at = "asking", !.kids[i].asks = tool]
  <2>1. /\ asks \in KidTyped /\ asks.at = "asking" /\ asks.asks = tool
        /\ asks.limits = Kid(i).limits /\ asks.cut = Kid(i).cut
        BY <1>3 DEF KidTyped
  <2>2. /\ x \in ChildrenStates /\ x.kids = [sub.kids EXCEPT ![i] = used] /\ sub.kids \in [Kids -> KidTyped]
        /\ ParentOf(x) = Parent /\ x.next = sub.next /\ x.results = sub.results /\ x.ran = sub.ran
    <3> DEFINE kids == [sub.kids EXCEPT ![i] = used]
    <3>1. sub.kids \in [Kids -> KidTyped] /\ kids \in [Kids -> KidTyped]
          BY <1>2, <1>3 DEF ChildrenTyped, ChildrenStates
    <3> HIDE DEF kids
    <3>2. x = [sub EXCEPT !.kids = kids]
          BY <1>4 DEF kids
    <3> HIDE DEF x
    <3>3. /\ x \in ChildrenStates /\ x.kids = kids
          /\ ParentOf(x) = Parent /\ x.next = sub.next /\ x.results = sub.results /\ x.ran = sub.ran
          BY <1>2, <3>1, <3>2 DEF ChildrenTyped, ChildrenStates, Parent, ParentOf
    <3>q. QED BY <3>1, <3>3 DEF kids
  <2>3. sub' = Asked(x, i, tool)
        BY <1>9 DEF Asked
  <2> HIDE DEF x
  <2>4. /\ sub' \in ChildrenStates
        /\ ParentOf(sub') = ParentOf(x) /\ sub'.next = x.next /\ sub'.results = x.results /\ sub'.ran = x.ran
        /\ sub'.kids = AskedKids(x, i, tool)
        BY <2>2, <2>3, AskedIs
  <2>5. x.kids[i] = used /\ \A kid : [x.kids EXCEPT ![i] = kid] = [sub.kids EXCEPT ![i] = kid]
        BY <2>2
  <2>6. sub'.kids = [sub.kids EXCEPT ![i] = asks]
        BY <2>4, <2>5 DEF AskedKids
  <2> HIDE DEF asks
  <2>7. UNCHANGED Parent /\ ChildrenTyped'
        BY <2>2, <2>4 DEF Parent, ChildrenTyped
  <2>q. QED BY <1>5, <1>9, <2>1, <2>2, <2>4, <2>6, <2>7, ChildSteps
<1>10. CASE sub' = x
  <2>1. sub' = [sub EXCEPT !.kids = [sub.kids EXCEPT ![i] = used], !.ran = sub.ran]
        BY <1>2, <1>4, <1>10 DEF ChildrenTyped, ChildrenStates
  <2> HIDE DEF x
  <2>2. /\ UNCHANGED Parent /\ sub'.next = sub.next /\ sub'.results = sub.results /\ sub'.ran = sub.ran
        /\ sub'.kids = [sub.kids EXCEPT ![i] = used] /\ ChildrenTyped'
        BY <1>2, <1>3, <2>1, KidChanges
  <2>q. QED BY <1>3, <1>5, <2>2, ChildSteps
<1>q. QED BY <1>1, <1>8, <1>9, <1>10

LEMMA AnswerKeeps ==
    ASSUME ChildrenInv, NEW i \in Kids, Answer(i)
    PROVE  ChildrenInv'
<1>1. Kid(i).at = "asking"
      BY DEF Answer
<1> DEFINE use == [kid |-> i, tool |-> Kid(i).asks, asked |-> TRUE]
           kid == [Kid(i) EXCEPT !.at = "thinking"]
<1>2. PICK yes \in BOOLEAN : sub' = [sub EXCEPT !.kids[i].at = "thinking", !.ran = IF yes THEN @ \cup {use} ELSE @]
      BY DEF Answer
<1>3. ChildrenTyped /\ Kid(i) \in KidTyped /\ sub.ran \in SUBSET UseTyped /\ Kid(i).asks \in Kid(i).limits
      BY <1>1 DEF ChildrenInv, ChildrenTyped, ChildrenStates, ChildKept, Kid
<1>4. kid \in KidTyped /\ kid.at = "thinking" /\ kid.limits = Kid(i).limits /\ kid.cut = Kid(i).cut
      BY <1>3 DEF KidTyped
<1>5. use \in UseTyped /\ use.tool = Kid(i).asks /\ use.asked
      BY <1>3 DEF UseTyped, KidTyped
<1> DEFINE uses == IF yes THEN sub.ran \cup {use} ELSE sub.ran
<1>6. sub' = [sub EXCEPT !.kids = [sub.kids EXCEPT ![i] = kid], !.ran = uses]
      BY <1>2, <1>3 DEF ChildrenTyped, ChildrenStates, Kid
<1>7. uses \in SUBSET UseTyped
      BY <1>3, <1>5
<1> HIDE DEF kid
<1>8. /\ UNCHANGED Parent /\ sub'.next = sub.next /\ sub'.results = sub.results /\ sub'.ran = uses
      /\ sub'.kids = [sub.kids EXCEPT ![i] = kid] /\ ChildrenTyped'
  <2> HIDE DEF uses
  <2>q. QED BY <1>3, <1>4, <1>6, <1>7, KidChanges
<1>9. i \in Running /\ Kid(i).at \notin {"queued", "over"} /\ Kid(i).limits \subseteq Toolbox
      BY <1>1, AtWork DEF Running
<1>10. \A u \in sub'.ran : u \in sub.ran \/ (u.tool \in Toolbox /\ u.asked)
      BY <1>3, <1>5, <1>8, <1>9
<1>q. QED BY <1>4, <1>8, <1>9, <1>10, ChildSteps

\* A child whose loop has ended.
LoopEnded(kid, outcome, said) == [kid EXCEPT !.at = "settling", !.outcome = outcome, !.said = said]
LEMMA LoopEndIs ==
    ASSUME NEW kid \in KidTyped, NEW outcome \in {"done", "error", "aborted", "max-turns"},
           NEW said \in {"task", "nothing"}
    PROVE  /\ LoopEnded(kid, outcome, said) \in KidTyped
           /\ LoopEnded(kid, outcome, said).at = "settling" /\ LoopEnded(kid, outcome, said).limits = kid.limits
<1> DEFINE stages == {"queued", "starting", "thinking", "asking", "settling", "stuck", "over"}
           outcomes == {"done", "error", "aborted", "max-turns"}
           sayings == {"nothing", "task"} \cup (IF "again" \in Races THEN {"other"} ELSE {})
           questions == ToolNames \cup {"none"}
<1>1. "settling" \in stages /\ outcome \in outcomes /\ said \in sayings
      OBVIOUS
<1>2. KidTyped = [at : stages, cut : BOOLEAN, limits : SUBSET ToolNames, tools : Nat, outcome : outcomes,
                  said : sayings, asks : questions]
      BY DEF KidTyped
<1> HIDE DEF stages, outcomes, sayings, questions
<1>q. QED BY <1>1, <1>2 DEF LoopEnded

\* The end of a child's loop, and a hook that never ends.
LEMMA LoopKeeps ==
    ASSUME ChildrenInv, NEW i \in Kids, LoopEnds(i) \/ HookSticks(i)
    PROVE  ChildrenInv'
<1>1. Kid(i).at \in {"starting", "thinking", "settling"}
      BY DEF LoopEnds, HookSticks
<1>2. ChildrenTyped /\ Kid(i) \in KidTyped
      BY DEF ChildrenInv, ChildrenTyped, ChildrenStates, Kid
<1>3. PICK kid \in KidTyped :
        /\ sub' = [sub EXCEPT !.kids = [sub.kids EXCEPT ![i] = kid], !.ran = sub.ran]
        /\ kid.at \in {"settling", "stuck"} /\ kid.limits = Kid(i).limits
  <2>1. CASE LoopEnds(i)
    <3>1. PICK outcome \in {"done", "error", "aborted", "max-turns"}, said \in {"task", "nothing"} :
            sub' = [sub EXCEPT !.kids[i].at = "settling", !.kids[i].outcome = outcome, !.kids[i].said = said]
          BY <2>1 DEF LoopEnds
    <3> DEFINE kid == LoopEnded(Kid(i), outcome, said)
    <3>2. kid \in KidTyped /\ kid.at = "settling" /\ kid.limits = Kid(i).limits
          BY <1>2, LoopEndIs
    <3>3. sub' = [sub EXCEPT !.kids = [sub.kids EXCEPT ![i] = kid], !.ran = sub.ran]
          BY <1>2, <3>1 DEF ChildrenTyped, ChildrenStates, Kid, LoopEnded
    <3>q. QED BY <3>2, <3>3
  <2>2. CASE HookSticks(i)
    <3> DEFINE kid == [Kid(i) EXCEPT !.at = "stuck"]
    <3>1. sub' = [sub EXCEPT !.kids[i].at = "stuck"]
          BY <2>2 DEF HookSticks
    <3>2. kid \in KidTyped /\ kid.at = "stuck" /\ kid.limits = Kid(i).limits
          BY <1>2 DEF KidTyped
    <3>3. sub' = [sub EXCEPT !.kids = [sub.kids EXCEPT ![i] = kid], !.ran = sub.ran]
          BY <1>2, <3>1 DEF ChildrenTyped, ChildrenStates, Kid
    <3>q. QED BY <3>2, <3>3
  <2>q. QED BY <2>1, <2>2
<1>4. /\ UNCHANGED Parent /\ sub'.next = sub.next /\ sub'.results = sub.results /\ sub'.ran = sub.ran
      /\ sub'.kids = [sub.kids EXCEPT ![i] = kid] /\ ChildrenTyped'
  <2>1. sub.ran \in SUBSET UseTyped
        BY <1>2 DEF ChildrenTyped, ChildrenStates
  <2>q. QED BY <1>2, <1>3, <2>1, KidChanges
<1>q. QED BY <1>1, <1>3, <1>4, ChildSteps

\* What runSubagent hears of a second run.
LEMMA HeardIs ==
    ASSUME NEW kid \in KidTyped, NEW outcome \in {"done", "error", "aborted", "max-turns"},
           NEW said \in {"other", "nothing"}, "again" \in Races, NEW heard, heard = HeardOf(kid, outcome, said)
    PROVE  /\ heard \in KidTyped /\ heard.at = kid.at /\ heard.cut = kid.cut /\ heard.limits = kid.limits
           /\ heard.tools = kid.tools /\ heard.asks = kid.asks
           /\ kid.at \in {"queued", "over"} => heard.outcome = kid.outcome /\ heard.said = kid.said
<1>1. CASE kid.at \in {"settling", "stuck"}
  <2>1. heard = [kid EXCEPT !.outcome = outcome, !.said = said]
        BY <1>1 DEF HeardOf
  <2>q. QED BY <1>1, <2>1 DEF KidTyped
<1>2. CASE kid.at \notin {"settling", "stuck"}
      BY <1>2 DEF HeardOf
<1>q. QED BY <1>1, <1>2

\* A second run of a child changes neither where its first one is nor what that one has told; what it uses
\* is bound by nothing.
LEMMA SecondRunKeeps ==
    ASSUME ChildrenInv, NEW i \in Kids, SecondRun(i)
    PROVE  ChildrenInv' /\ Kid(i)'.at = Kid(i).at /\ \A k \in Kids : k # i => Kid(k)' = Kid(k)
<1>1. /\ ChildrenTyped /\ ParentKept /\ "again" \in Races /\ Kid(i) \in KidTyped
      /\ sub.again \in SUBSET Kids /\ sub.ran \in SUBSET UseTyped
      BY DEF SecondRun, ChildrenInv, ChildrenTyped, ChildrenStates, Kid
<1>2. PICK kid \in KidTyped, uses \in SUBSET UseTyped, again \in SUBSET Kids :
        /\ sub' = [sub EXCEPT !.kids = [sub.kids EXCEPT ![i] = kid], !.ran = uses, !.again = again]
        /\ kid.at = Kid(i).at /\ kid.cut = Kid(i).cut /\ kid.limits = Kid(i).limits /\ kid.asks = Kid(i).asks
        /\ Kid(i).at \in {"queued", "over"} => kid.outcome = Kid(i).outcome /\ kid.said = Kid(i).said
  <2>1. CASE PromptedAgain(i)
    <3>1. sub' = [sub EXCEPT !.again = sub.again \cup {i}]
          BY <1>1, <2>1 DEF PromptedAgain, ChildrenTyped, ChildrenStates
    <3>2. sub' = [sub EXCEPT !.kids = [sub.kids EXCEPT ![i] = Kid(i)], !.ran = sub.ran, !.again = sub.again \cup {i}]
          BY <1>1, <3>1 DEF ChildrenTyped, ChildrenStates, Kid
    <3>3. sub.again \cup {i} \in SUBSET Kids
          BY <1>1
    <3>q. QED BY <1>1, <3>2, <3>3
  <2>2. CASE EndsAgain(i)
    <3>1. PICK outcome \in {"done", "error", "aborted", "max-turns"}, said \in {"other", "nothing"} :
            sub' = [sub EXCEPT !.again = @ \ {i}, !.kids[i] = HeardOf(@, outcome, said)]
          BY <2>2 DEF EndsAgain
    <3> DEFINE kid == HeardOf(Kid(i), outcome, said)
    <3>2. /\ kid \in KidTyped
          /\ kid.at = Kid(i).at /\ kid.cut = Kid(i).cut /\ kid.limits = Kid(i).limits /\ kid.asks = Kid(i).asks
          /\ Kid(i).at \in {"queued", "over"} => kid.outcome = Kid(i).outcome /\ kid.said = Kid(i).said
          BY <1>1, HeardIs
    <3>3. sub' = [sub EXCEPT !.kids = [sub.kids EXCEPT ![i] = kid], !.ran = sub.ran, !.again = sub.again \ {i}]
          BY <1>1, <3>1 DEF ChildrenTyped, ChildrenStates, Kid
    <3>4. sub.again \ {i} \in SUBSET Kids
          BY <1>1
    <3>q. QED BY <1>1, <3>2, <3>3, <3>4
  <2>3. ASSUME NEW tool \in ToolNames, UseToolAgain(i, tool)
        PROVE  \E kid \in KidTyped, uses \in SUBSET UseTyped, again \in SUBSET Kids :
                 /\ sub' = [sub EXCEPT !.kids = [sub.kids EXCEPT ![i] = kid], !.ran = uses, !.again = again]
                 /\ kid.at = Kid(i).at /\ kid.cut = Kid(i).cut /\ kid.limits = Kid(i).limits /\ kid.asks = Kid(i).asks
                 /\ Kid(i).at \in {"queued", "over"} => kid.outcome = Kid(i).outcome /\ kid.said = Kid(i).said
    <3> DEFINE confirms == EvaluateToolPermission(sub.permission, Config, CallOf(tool)) = "confirm"
               use == [kid |-> i, tool |-> tool, asked |-> confirms]
    <3>1. PICK said \in {"other", "nothing"} :
            sub' = [sub EXCEPT !.kids[i] = [HeardOf(Kid(i), Kid(i).outcome, said) EXCEPT !.tools = @ + 1],
                               !.ran = @ \cup {use}]
          BY <2>3 DEF UseToolAgain
    <3> DEFINE heard == HeardOf(Kid(i), Kid(i).outcome, said)
               kid == [heard EXCEPT !.tools = @ + 1]
               uses == sub.ran \cup {use}
    <3>2. confirms \in BOOLEAN
          OBVIOUS
    <3>3. uses \in SUBSET UseTyped
      <4> HIDE DEF confirms
      <4>q. QED BY <1>1, <3>2 DEF UseTyped
    <3>4. sub' = [sub EXCEPT !.kids[i] = kid, !.ran = uses]
          BY <1>1, <3>1 DEF ChildrenTyped, ChildrenStates
    <3>5. Kid(i).outcome \in {"done", "error", "aborted", "max-turns"}
          BY <1>1 DEF KidTyped
    <3>6. /\ heard \in KidTyped /\ heard.at = Kid(i).at /\ heard.cut = Kid(i).cut
          /\ heard.limits = Kid(i).limits /\ heard.asks = Kid(i).asks
          /\ Kid(i).at \in {"queued", "over"} => heard.outcome = Kid(i).outcome /\ heard.said = Kid(i).said
          BY <1>1, <3>5, HeardIs
    <3> HIDE DEF heard, uses
    <3>7. /\ kid \in KidTyped /\ kid.at = heard.at /\ kid.cut = heard.cut /\ kid.limits = heard.limits
          /\ kid.asks = heard.asks /\ kid.outcome = heard.outcome /\ kid.said = heard.said
          BY <3>6 DEF KidTyped
    <3> HIDE DEF kid
    <3>8. sub' = [sub EXCEPT !.kids = [sub.kids EXCEPT ![i] = kid], !.ran = uses, !.again = sub.again]
          BY <1>1, <3>4 DEF ChildrenTyped, ChildrenStates
    <3>q. QED BY <1>1, <3>3, <3>6, <3>7, <3>8
  <2>q. QED BY <2>1, <2>2, <2>3 DEF SecondRun
<1> DEFINE kids == [sub.kids EXCEPT ![i] = kid]
<1>3. kids \in [Kids -> KidTyped] /\ kids[i] = kid /\ \A k \in Kids : k # i => kids[k] = Kid(k)
      BY <1>1 DEF ChildrenTyped, ChildrenStates, Kid
<1>n. sub' = [sub EXCEPT !.kids = kids, !.ran = uses, !.again = again]
      BY <1>2
<1> HIDE DEF kids
<1>4. /\ sub'.run = sub.run /\ sub'.aborted = sub.aborted /\ sub'.call = sub.call /\ sub'.permission = sub.permission
      /\ sub'.tasks = sub.tasks /\ sub'.exit = sub.exit /\ sub'.next = sub.next /\ sub'.results = sub.results
      /\ sub'.kids = kids
      BY <1>1, <1>n DEF ChildrenTyped, ChildrenStates
<1>5. ChildrenTyped'
      BY <1>1, <1>3, <1>n DEF ChildrenTyped, ChildrenStates
<1>6. ParentKept' /\ ToolsKept'
      BY <1>1, <1>4 DEF ParentKept, ToolsKept
<1>7. Toolbox' = Toolbox /\ Tasks' = Tasks
      BY <1>4 DEF Toolbox, Tasks
<1>8. Kid(i)' = kid /\ \A k \in Kids : k # i => Kid(k)' = Kid(k)
      BY <1>3, <1>4 DEF Kid
<1>9. ASSUME NEW k \in Kids
      PROVE  ChildKept(k)'
  <2>1. ChildKept(k)
        BY DEF ChildrenInv
  <2>2. CASE k = i
    <3>1. k \in Running' <=> k \in Running
          BY <1>2, <1>8, <2>2 DEF Running
    <3>q. QED BY <1>2, <1>4, <1>7, <1>8, <2>1, <2>2, <3>1 DEF ChildKept
  <2>3. CASE k # i
    <3>1. Kid(k)' = Kid(k) /\ (k \in Running' <=> k \in Running)
          BY <1>8, <2>3 DEF Running
    <3>q. QED BY <1>4, <1>7, <2>1, <3>1 DEF ChildKept
  <2>q. QED BY <2>2, <2>3
<1>10. ChildrenInv'
      BY <1>5, <1>6, <1>9 DEF ChildrenInv
<1>11. Kid(i)'.at = Kid(i).at /\ \A k \in Kids : k # i => Kid(k)' = Kid(k)
      BY <1>2, <1>8
<1>q. QED BY <1>10, <1>11

\* What the end of a child comes to.
EndedKids(x, i) == [x.kids EXCEPT ![i] = [x.kids[i] EXCEPT !.at = "over", !.limits = ToolNames]]
LEMMA EndedIs ==
    ASSUME NEW x \in ChildrenStates, NEW i \in Kids, NEW result \in ResultTyped, NEW y, y = Ended(x, i, result)
    PROVE  /\ y \in ChildrenStates
           /\ ParentOf(y) = ParentOf(x) /\ y.next = x.next /\ y.ran = x.ran
           /\ y.kids = EndedKids(x, i) /\ y.results = Put(x.results, i, result)
<1> DEFINE kids == EndedKids(x, i)
           results == Put(x.results, i, result)
<1>1. x.kids \in [Kids -> KidTyped] /\ x.kids[i] \in KidTyped /\ x.results \in [Kids -> ResultTyped]
      BY DEF ChildrenStates
<1>2. kids \in [Kids -> KidTyped] /\ results \in [Kids -> ResultTyped]
      BY <1>1 DEF KidTyped, EndedKids, Put
<1>3. y = [x EXCEPT !.kids = kids, !.results = results]
  <2> DEFINE over == [x EXCEPT !.kids[i].at = "over", !.kids[i].limits = ToolNames]
  <2>1. over = [x EXCEPT !.kids = kids] /\ over.results = x.results
        BY <1>1, ZenonT(60) DEF ChildrenStates, KidTyped, EndedKids
  <2>2. y = [over EXCEPT !.results = Put(@, i, result)]
        BY DEF Ended
  <2> HIDE DEF over, kids
  <2>3. y = [over EXCEPT !.results = results]
        BY <2>1, <2>2
  <2> HIDE DEF results
  <2>q. QED BY <2>1, <2>3
<1> HIDE DEF kids, results
<1>4. /\ y \in ChildrenStates /\ y.kids = kids /\ y.results = results
      /\ ParentOf(y) = ParentOf(x) /\ y.next = x.next /\ y.ran = x.ran
      BY <1>2, <1>3 DEF ChildrenStates, ParentOf
<1>q. QED BY <1>4 DEF kids, results

\* A child that is over has told what became of it.
LEMMA EndedKeeps ==
    ASSUME ChildrenInv, NEW i \in Kids, i \in Tasks, sub.call = "running", NEW next \in Nat, next >= sub.next, i < next,
           NEW result \in ResultTyped, result.of = i, result.ok <=> (Kid(i).outcome = "done" /\ Kid(i).said # "nothing"),
           sub' = Ended([sub EXCEPT !.next = next], i, result)
    PROVE  ChildrenInv'
<1> DEFINE kid == [Kid(i) EXCEPT !.at = "over", !.limits = ToolNames]
           x == [sub EXCEPT !.next = next]
<1>1. ChildrenTyped /\ Kid(i) \in KidTyped
      BY DEF ChildrenInv, ChildrenTyped, ChildrenStates, Kid
<1>2. kid \in KidTyped /\ kid.at = "over" /\ kid.outcome = Kid(i).outcome /\ kid.said = Kid(i).said
      BY <1>1 DEF KidTyped
<1>3. /\ x \in ChildrenStates /\ x.kids = sub.kids /\ x.results = sub.results /\ x.kids[i] = Kid(i)
      /\ ParentOf(x) = Parent /\ x.next = next /\ x.ran = sub.ran
      BY <1>1 DEF ChildrenTyped, ChildrenStates, Kid, Parent, ParentOf
<1>n. sub' = Ended(x, i, result)
      OBVIOUS
<1> HIDE DEF x
<1>4. /\ UNCHANGED Parent /\ sub'.ran = sub.ran /\ sub'.kids = [sub.kids EXCEPT ![i] = kid] /\ sub'.next = next
      /\ sub'.results = [sub.results EXCEPT ![i] = result] /\ ChildrenTyped'
  <2>1. /\ sub' \in ChildrenStates
        /\ ParentOf(sub') = ParentOf(x) /\ sub'.next = x.next /\ sub'.ran = x.ran
        /\ sub'.kids = EndedKids(x, i) /\ sub'.results = Put(x.results, i, result)
        BY <1>3, <1>n, EndedIs
  <2>q. QED BY <1>3, <2>1 DEF ChildrenTyped, Parent, EndedKids, Put
<1> HIDE DEF kid
<1>5. /\ Kid(i)' = kid /\ sub'.results[i] = result
      /\ \A k \in Kids : k # i => sub'.kids[k] = sub.kids[k] /\ sub'.results[k] = sub.results[k]
      BY <1>1, <1>4 DEF ChildrenTyped, ChildrenStates, Kid
<1>6. sub'.call = sub.call /\ sub'.tasks = sub.tasks /\ Tasks' = Tasks
      BY <1>4 DEF Parent, ParentOf, Tasks
<1>7. i \notin Running'
      BY <1>2, <1>5 DEF Running
<1>8. ChildKept(i)'
      BY <1>2, <1>4, <1>5, <1>6, <1>7 DEF ChildKept
<1>9. /\ ChildrenTyped' /\ UNCHANGED Parent /\ sub'.next >= sub.next
      /\ \A use \in sub'.ran : use \in sub.ran
      BY <1>4
<1>10. \A k \in Kids : k # i => sub'.kids[k] = sub.kids[k] /\ sub'.results[k] = sub.results[k]
      BY <1>5
<1>q. QED BY <1>8, <1>9, <1>10, ChildMoves

LEMMA TakeKeeps ==
    ASSUME ChildrenInv, NEW i \in Kids, Take(i)
    PROVE  ChildrenInv'
<1> DEFINE x == [sub EXCEPT !.next = @ + 1]
<1>1. /\ sub.call = "running" /\ i \in Tasks /\ i = sub.next
      /\ \/ sub' = Ended(x, i, [of |-> i, ok |-> FALSE, error |-> "no model"])
         \/ sub' = Ended(x, i, [of |-> i, ok |-> FALSE, error |-> "aborted"])
         \/ ~sub.aborted /\ sub' = [x EXCEPT !.kids[i].at = "starting", !.kids[i].limits = Toolbox]
      BY DEF Take
<1>2. ChildrenTyped /\ Kid(i) \in KidTyped /\ sub.next + 1 \in Nat /\ ChildKept(i)
      BY DEF ChildrenInv, ChildrenTyped, ChildrenStates, Kid
<1>n. sub.next + 1 >= sub.next /\ i < sub.next + 1 /\ Kid(i).at = "queued" /\ Kid(i).outcome = "error"
  <2>1. i = sub.next /\ i \in Nat
        BY <1>1, KidsAreNumbers
  <2>2. ~(i < sub.next)
        BY <2>1
  <2>3. Kid(i).at = "queued"
        BY <1>2, <2>2 DEF ChildKept
  <2>4. Kid(i).outcome = "error"
        BY <1>2, <2>3 DEF ChildKept
  <2>q. QED BY <2>1, <2>3, <2>4
<1>3. CASE sub' = [x EXCEPT !.kids[i].at = "starting", !.kids[i].limits = Toolbox] /\ ~sub.aborted
  <2> DEFINE kid == [Kid(i) EXCEPT !.at = "starting", !.limits = Toolbox]
  <2>1. kid \in KidTyped /\ kid.at = "starting" /\ kid.limits = Toolbox
    <3>1. Toolbox \subseteq ToolNames
          BY DEF Toolbox, ToolNames
    <3>q. QED BY <1>2, <3>1 DEF KidTyped
  <2>2. sub' = [sub EXCEPT !.next = sub.next + 1, !.kids = [sub.kids EXCEPT ![i] = kid]]
        BY <1>2, <1>3 DEF ChildrenTyped, ChildrenStates, Kid
  <2> HIDE DEF kid
  <2>3. /\ UNCHANGED Parent /\ sub'.ran = sub.ran /\ sub'.results = sub.results /\ sub'.next = sub.next + 1
        /\ sub'.kids = [sub.kids EXCEPT ![i] = kid] /\ ChildrenTyped'
        BY <1>2, <2>1, <2>2 DEF ChildrenTyped, ChildrenStates, Parent, ParentOf
  <2>4. Kid(i)' = kid /\ \A k \in Kids : k # i => sub'.kids[k] = sub.kids[k]
        BY <1>2, <2>3 DEF ChildrenTyped, ChildrenStates, Kid
  <2>5. /\ sub'.call = sub.call /\ sub'.tasks = sub.tasks /\ sub'.aborted = sub.aborted
        /\ Tasks' = Tasks /\ Toolbox' = Toolbox
        BY <2>3 DEF Parent, ParentOf, Tasks, Toolbox
  <2>6. ChildKept(i)'
        BY <1>1, <1>3, <1>n, <2>1, <2>3, <2>4, <2>5 DEF ChildKept
  <2>q. QED BY <1>1, <1>n, <2>3, <2>4, <2>6, ChildMoves
<1>4. CASE \E why \in {"no model", "aborted"} : sub' = Ended(x, i, [of |-> i, ok |-> FALSE, error |-> why])
  <2>1. PICK why \in {"no model", "aborted"} : sub' = Ended(x, i, [of |-> i, ok |-> FALSE, error |-> why])
        BY <1>4
  <2> DEFINE result == [of |-> i, ok |-> FALSE, error |-> why]
  <2>2. result \in ResultTyped /\ result.of = i /\ result.ok = FALSE
    <3>1. i \in Nat
          BY KidsAreNumbers
    <3>q. QED BY <3>1 DEF ResultTyped
  <2>3. x = [sub EXCEPT !.next = sub.next + 1]
        OBVIOUS
  <2>4. sub' = Ended([sub EXCEPT !.next = sub.next + 1], i, result)
        BY <2>1, <2>3
  <2> HIDE DEF result, x
  <2>q. QED BY <1>1, <1>2, <1>n, <2>2, <2>4, EndedKeeps
<1>q. QED BY <1>1, <1>3, <1>4

LEMMA SettledKeeps ==
    ASSUME ChildrenInv, NEW i \in Kids, Settled(i)
    PROVE  ChildrenInv'
<1>1. Kid(i).at = "settling" /\ sub' = Ended(sub, i, ResultOf(i))
      BY DEF Settled
<1>2. ChildrenTyped /\ Kid(i) \in KidTyped /\ i \in Tasks /\ sub.call = "running"
      BY <1>1, AtWork DEF ChildrenInv
<1>3. /\ ResultOf(i) \in ResultTyped /\ ResultOf(i).of = i
      /\ ResultOf(i).ok <=> (Kid(i).outcome = "done" /\ Kid(i).said # "nothing")
  <2> DEFINE ok == Kid(i).outcome = "done" /\ Kid(i).said # "nothing"
             error == CASE ok -> "none" [] Kid(i).outcome = "done" -> "no text" [] OTHER -> Kid(i).outcome
  <2>1. error \in {"none", "no text", "done", "error", "aborted", "max-turns"}
        BY <1>2 DEF KidTyped
  <2>2. ResultOf(i) = [of |-> i, ok |-> ok, error |-> error]
        BY DEF ResultOf
  <2>3. ok \in BOOLEAN
        OBVIOUS
  <2> HIDE DEF ok, error
  <2>4. ResultOf(i) \in ResultTyped /\ ResultOf(i).of = i /\ ResultOf(i).ok = ok
    <3>1. i \in Nat
          BY KidsAreNumbers
    <3>2. [of |-> i, ok |-> ok, error |-> error] \in ResultTyped
          BY <2>1, <2>3, <3>1 DEF ResultTyped
    <3>3. [of |-> i, ok |-> ok, error |-> error].of = i /\ [of |-> i, ok |-> ok, error |-> error].ok = ok
          OBVIOUS
    <3>q. QED BY <2>2, <3>2, <3>3
  <2>q. QED BY <2>4 DEF ok
<1>4. sub.next \in Nat /\ sub = [sub EXCEPT !.next = sub.next]
      BY <1>2 DEF ChildrenTyped, ChildrenStates
<1>5. i < sub.next /\ sub.next >= sub.next
      BY <1>1, <1>4 DEF ChildrenInv, ChildKept
<1>q. QED BY <1>1, <1>2, <1>3, <1>4, <1>5, EndedKeeps

\* What becomes of the parent's own run, and the exit of its Host, change nothing of the call's.
LEMMA ParentMoves ==
    ASSUME ChildrenInv, ParentEnds \/ Exit
    PROVE  ChildrenInv'
<1>1. ChildrenTyped /\ ParentKept /\ ToolsKept
      BY DEF ChildrenInv
<1>2. PICK run \in {"running", "done", "error", "aborted"}, exit \in {"none", "0", "1"} :
        /\ sub' = [sub EXCEPT !.run = run, !.exit = exit]
        /\ run # "running" => sub.call # "running"
        /\ run = "done" => ~sub.aborted
        /\ exit # "none" => run # "running" /\ (exit = "0" => run = "done")
  <2>1. CASE ParentEnds
    <3>1. PICK run \in {"done", "error", "aborted"} :
            sub' = [sub EXCEPT !.run = run] /\ (run = "done" => ~sub.aborted)
          BY <2>1 DEF ParentEnds
    <3>2. sub.call # "running" /\ sub.exit = "none"
          BY <1>1, <2>1 DEF ParentEnds, ParentKept
    <3>3. sub' = [sub EXCEPT !.run = run, !.exit = "none"]
          BY <1>1, <3>1, <3>2 DEF ChildrenTyped, ChildrenStates
    <3>q. QED BY <3>1, <3>2, <3>3
  <2>2. CASE Exit
    <3> DEFINE exit == IF sub.run = "done" THEN "0" ELSE "1"
    <3>1. sub.run # "running" /\ sub' = [sub EXCEPT !.exit = exit] /\ sub.run \in {"running", "done", "error", "aborted"}
          BY <1>1, <2>2 DEF Exit, ChildrenTyped, ChildrenStates
    <3>2. sub' = [sub EXCEPT !.run = sub.run, !.exit = exit]
          BY <1>1, <3>1 DEF ChildrenTyped, ChildrenStates
    <3>3. exit \in {"none", "0", "1"} /\ (exit = "0" => sub.run = "done")
          OBVIOUS
    <3>4. (sub.run = "done" => ~sub.aborted) /\ sub.call # "running"
          BY <1>1, <3>1 DEF ParentKept
    <3> HIDE DEF exit
    <3>q. QED BY <3>1, <3>2, <3>3, <3>4
  <2>q. QED BY <2>1, <2>2
<1>3. /\ sub'.run = run /\ sub'.exit = exit /\ sub'.aborted = sub.aborted /\ sub'.call = sub.call
      /\ sub'.permission = sub.permission /\ sub'.tasks = sub.tasks /\ sub'.next = sub.next /\ sub'.kids = sub.kids
      /\ sub'.results = sub.results /\ sub'.ran = sub.ran
      BY <1>1, <1>2 DEF ChildrenTyped, ChildrenStates
<1>4. ChildrenTyped'
      BY <1>1, <1>2 DEF ChildrenTyped, ChildrenStates
<1>5. ParentKept' /\ ToolsKept'
      BY <1>1, <1>2, <1>3 DEF ParentKept, ToolsKept, KeepToTheirTools, Toolbox
<1>6. \A i \in Kids : ChildKept(i)'
  <2>1. TAKE i \in Kids
  <2>2. ChildKept(i) /\ Kid(i)' = Kid(i) /\ Tasks' = Tasks /\ Toolbox' = Toolbox /\ (i \in Running' <=> i \in Running)
        BY <1>3 DEF ChildrenInv, Kid, Tasks, Toolbox, Running
  <2>q. QED BY <1>3, <2>2 DEF ChildKept
<1>q. QED BY <1>4, <1>5, <1>6 DEF ChildrenInv

LEMMA DelegateKeeps ==
    ASSUME ChildrenInv, Delegate
    PROVE  ChildrenInv'
<1>1. ChildrenTyped /\ ParentKept /\ sub.run = "running" /\ sub.call = "idle" /\ ~sub.aborted
      BY DEF ChildrenInv, Delegate
<1>2. sub.tasks = 0 /\ ("again" \notin Races => sub.ran = {})
      BY <1>1 DEF ParentKept
<1>3. PICK call \in {"running", "returned"}, n \in 0..N, mode \in {"read-only", "workspace-write"} :
        /\ sub' = [sub EXCEPT !.call = call, !.tasks = n, !.permission = mode]
        /\ call = "returned" => n = 0
  <2>1. CASE sub' = [sub EXCEPT !.call = "returned"]
    <3>1. sub.permission \in {"read-only", "workspace-write"} /\ sub.tasks \in 0..N
          BY <1>1 DEF ChildrenTyped, ChildrenStates
    <3>2. sub' = [sub EXCEPT !.call = "returned", !.tasks = sub.tasks, !.permission = sub.permission]
          BY <1>1, <2>1 DEF ChildrenTyped, ChildrenStates
    <3>q. QED BY <1>2, <3>1, <3>2
  <2>2. CASE \E n \in Kids, mode \in {"read-only", "workspace-write"} :
                sub' = [sub EXCEPT !.call = "running", !.tasks = n, !.permission = mode]
    <3>1. Kids \subseteq 0..N
          BY DelegationAssumption DEF Kids
    <3>q. QED BY <2>2, <3>1
  <2>q. QED BY <2>1, <2>2 DEF Delegate
<1>4. /\ sub'.call = call /\ sub'.tasks = n /\ sub'.run = sub.run /\ sub'.exit = sub.exit /\ sub'.aborted = sub.aborted
      /\ sub'.next = sub.next /\ sub'.kids = sub.kids /\ sub'.results = sub.results /\ sub'.ran = sub.ran
      BY <1>1, <1>3 DEF ChildrenTyped, ChildrenStates
<1>5. ChildrenTyped'
  <2>1. sub' \in [front : {"page", "headless"}, model : BOOLEAN, unattended : BOOLEAN,
             run : {"running", "done", "error", "aborted"}, aborted : BOOLEAN, call : {"idle", "running", "returned"},
             permission : {"read-only", "workspace-write"}, tasks : 0..N, next : Nat, kids : [Kids -> KidTyped],
             results : [Kids -> ResultTyped], ran : SUBSET UseTyped, exit : {"none", "0", "1"},
             again : SUBSET Kids]
        BY <1>1, <1>3 DEF ChildrenTyped, ChildrenStates
  <2>q. QED BY <2>1 DEF ChildrenTyped, ChildrenStates
<1>6. ParentKept' /\ ToolsKept'
      BY <1>1, <1>2, <1>4 DEF ParentKept, ToolsKept, KeepToTheirTools
<1>7. \A i \in Kids : ChildKept(i)'
  <2>1. TAKE i \in Kids
  <2>2. ChildKept(i) /\ Kid(i)' = Kid(i) /\ i \notin Tasks
    <3>1. i \notin Tasks
          BY <1>2, KidsAreNumbers DEF Tasks
    <3>q. QED BY <1>4, <3>1 DEF ChildrenInv, Kid
  <2>3. Kid(i).at = "queued"
        BY <2>2 DEF ChildKept
  <2>4. i \notin Running'
        BY <2>2, <2>3 DEF Running
  <2>5. call = "returned" => i \notin Tasks'
        BY <1>2, <1>3, <1>4, <2>2 DEF Tasks
  <2>q. QED BY <1>3, <1>4, <2>2, <2>3, <2>4, <2>5 DEF ChildKept
<1>q. QED BY <1>5, <1>6, <1>7 DEF ChildrenInv

LEMMA ReturnResultsKeeps ==
    ASSUME ChildrenInv, ReturnResults
    PROVE  ChildrenInv'
<1>1. /\ ChildrenTyped /\ ParentKept /\ ToolsKept /\ sub.call = "running"
      /\ \A i \in Tasks : Kid(i).at = "over"
      /\ sub' = [sub EXCEPT !.call = "returned"]
      BY DEF ChildrenInv, ReturnResults
<1>2. /\ sub'.call = "returned" /\ sub'.tasks = sub.tasks /\ sub'.run = sub.run /\ sub'.exit = sub.exit
      /\ sub'.aborted = sub.aborted /\ sub'.permission = sub.permission /\ sub'.next = sub.next
      /\ sub'.kids = sub.kids /\ sub'.results = sub.results /\ sub'.ran = sub.ran
      BY <1>1 DEF ChildrenTyped, ChildrenStates
<1>3. ChildrenTyped'
      BY <1>1 DEF ChildrenTyped, ChildrenStates
<1>4. ParentKept' /\ ToolsKept'
      BY <1>1, <1>2 DEF ParentKept, ToolsKept, KeepToTheirTools, Toolbox
<1>5. \A i \in Kids : ChildKept(i)'
  <2>1. TAKE i \in Kids
  <2>2. ChildKept(i) /\ Kid(i)' = Kid(i) /\ Tasks' = Tasks
        BY <1>2 DEF ChildrenInv, Kid, Tasks
  <2>3. Kid(i).at \in {"queued", "over"} /\ (i \in Tasks => Kid(i).at = "over")
        BY <1>1, <2>2 DEF ChildKept
  <2>4. i \notin Running'
        BY <2>2, <2>3 DEF Running
  <2>q. QED BY <1>1, <1>2, <2>2, <2>3, <2>4 DEF ChildKept
<1>q. QED BY <1>3, <1>4, <1>5 DEF ChildrenInv

\* Who is aborted stays where it is, and its question is withdrawn.
LEMMA CutKeeps ==
    ASSUME ChildrenInv, AbortParent \/ \E i \in Kids : AbortKid(i)
    PROVE  ChildrenInv'
<1>1. ChildrenTyped /\ ParentKept /\ ToolsKept
      BY DEF ChildrenInv
<1>2. PICK cut \in BOOLEAN, ids \in SUBSET Kids :
        /\ sub' = Cut([sub EXCEPT !.aborted = cut], ids)
        /\ ids \subseteq Running
        /\ cut # sub.aborted => sub.run = "running" /\ ids = Running
  <2>1. CASE AbortParent
    <3>1. sub.run = "running" /\ sub' = Cut([sub EXCEPT !.aborted = TRUE], Running)
          BY <2>1 DEF AbortParent
    <3>q. QED BY <3>1 DEF Running
  <2>2. CASE \E i \in Kids : AbortKid(i)
    <3>1. PICK i \in Running : sub' = Cut(sub, {i})
          BY <2>2 DEF AbortKid
    <3>2. sub = [sub EXCEPT !.aborted = sub.aborted] /\ sub.aborted \in BOOLEAN
          BY <1>1 DEF ChildrenTyped, ChildrenStates
    <3>q. QED BY <3>1, <3>2 DEF Running
  <2>q. QED BY <2>1, <2>2
<1> DEFINE kids == [k \in Kids |-> IF k \in ids THEN CutKid(Kid(k)) ELSE Kid(k)]
<1>3. sub' = [sub EXCEPT !.aborted = cut, !.kids = kids]
  <2> DEFINE x == [sub EXCEPT !.aborted = cut]
  <2>1. x.kids = sub.kids
        BY <1>1 DEF ChildrenTyped, ChildrenStates
  <2>2. Cut(x, ids) = [x EXCEPT !.kids = kids]
    <3> HIDE DEF x
    <3>q. QED BY <2>1 DEF Cut, Kid
  <2>3. [x EXCEPT !.kids = kids] = [sub EXCEPT !.aborted = cut, !.kids = kids]
    <3> HIDE DEF kids
    <3>q. QED BY <1>1 DEF ChildrenTyped, ChildrenStates
  <2>q. QED BY <1>2, <2>2, <2>3
<1>4. ASSUME NEW k \in Kids
      PROVE  /\ Kid(k) \in KidTyped /\ CutKid(Kid(k)) \in KidTyped /\ CutKid(Kid(k)).cut
             /\ CutKid(Kid(k)).limits = Kid(k).limits
             /\ CutKid(Kid(k)).outcome = Kid(k).outcome /\ CutKid(Kid(k)).said = Kid(k).said
             /\ CutKid(Kid(k)).at = IF Kid(k).at = "asking" THEN "thinking" ELSE Kid(k).at
  <2>1. Kid(k) \in KidTyped
        BY <1>1 DEF ChildrenTyped, ChildrenStates, Kid
  <2>q. QED BY <2>1 DEF KidTyped, CutKid
<1>5. kids \in [Kids -> KidTyped]
      BY <1>4
<1>6. \A k \in Kids : kids[k] = IF k \in ids THEN CutKid(Kid(k)) ELSE Kid(k)
      OBVIOUS
<1> HIDE DEF kids
<1>7. /\ sub'.call = sub.call /\ sub'.tasks = sub.tasks /\ sub'.run = sub.run /\ sub'.exit = sub.exit
      /\ sub'.aborted = cut /\ sub'.permission = sub.permission /\ sub'.next = sub.next
      /\ sub'.kids = kids /\ sub'.results = sub.results /\ sub'.ran = sub.ran
      BY <1>1, <1>3 DEF ChildrenTyped, ChildrenStates
<1>8. ChildrenTyped'
      BY <1>1, <1>3, <1>5 DEF ChildrenTyped, ChildrenStates
<1>9. ParentKept' /\ ToolsKept'
      BY <1>1, <1>2, <1>7 DEF ParentKept, ToolsKept, KeepToTheirTools, Toolbox
<1>10. \A k \in Kids : ChildKept(k)'
  <2>1. TAKE k \in Kids
  <2>2. ChildKept(k) /\ Kid(k)' = (IF k \in ids THEN CutKid(Kid(k)) ELSE Kid(k)) /\ Tasks' = Tasks /\ Toolbox' = Toolbox
        BY <1>6, <1>7 DEF ChildrenInv, Kid, Tasks, Toolbox
  <2>3. CASE k \notin ids
    <3>1. Kid(k)' = Kid(k) /\ (k \in Running' <=> k \in Running)
          BY <2>2, <2>3 DEF Running
    <3>2. cut /\ k \in Running => sub.aborted
          BY <1>2, <2>3
    <3>q. QED BY <1>7, <2>2, <3>1, <3>2 DEF ChildKept
  <2>4. CASE k \in ids
    <3>1. /\ Kid(k)'.cut /\ Kid(k)'.limits = Kid(k).limits /\ Kid(k).at \in {"starting", "thinking", "asking"}
          /\ Kid(k)'.at \in {"starting", "thinking"}
          BY <1>2, <1>4, <2>2, <2>4 DEF Running
    <3>q. QED BY <1>7, <2>2, <3>1 DEF ChildKept
  <2>q. QED BY <2>3, <2>4
<1>q. QED BY <1>8, <1>9, <1>10 DEF ChildrenInv

LEMMA ChildrenKept == ChildrenInv /\ [ChildrenNext]_sub => ChildrenInv'
<1> SUFFICES ASSUME ChildrenInv, [ChildrenNext]_sub PROVE ChildrenInv'
      OBVIOUS
<1>1. CASE Progress
  <2>1. CASE \E i \in Kids : Take(i) \/ HooksEnd(i) \/ LoopEnds(i) \/ Settled(i)
    <3>1. ASSUME NEW i \in Kids, Take(i)
          PROVE  ChildrenInv'
          BY <3>1, TakeKeeps
    <3>2. ASSUME NEW i \in Kids, HooksEnd(i)
          PROVE  ChildrenInv'
          BY <3>2, HooksEndKeeps
    <3>3. ASSUME NEW i \in Kids, LoopEnds(i)
          PROVE  ChildrenInv'
          BY <3>3, LoopKeeps
    <3>4. ASSUME NEW i \in Kids, Settled(i)
          PROVE  ChildrenInv'
          BY <3>4, SettledKeeps
    <3>q. QED BY <2>1, <3>1, <3>2, <3>3, <3>4
  <2>2. CASE ReturnResults \/ ParentEnds \/ Exit
        BY <2>2, ReturnResultsKeeps, ParentMoves
  <2>q. QED BY <1>1, <2>1, <2>2 DEF Progress
<1>2. CASE Delegate \/ AbortParent
      BY <1>2, DelegateKeeps, CutKeeps
<1>3. CASE \E i \in Kids : Answer(i) \/ SecondRun(i) \/ HookSticks(i) \/ AbortKid(i)
  <2>1. ASSUME NEW i \in Kids, Answer(i)
        PROVE  ChildrenInv'
        BY <2>1, AnswerKeeps
  <2>2. ASSUME NEW i \in Kids, SecondRun(i) \/ HookSticks(i)
        PROVE  ChildrenInv'
        BY <2>2, SecondRunKeeps, LoopKeeps
  <2>3. ASSUME NEW i \in Kids, AbortKid(i)
        PROVE  ChildrenInv'
        BY <2>3, CutKeeps
  <2>q. QED BY <1>3, <2>1, <2>2, <2>3
<1>4. CASE \E i \in Kids : \E tool \in ToolNames : UseTool(i, tool)
      BY <1>4, UseToolKeeps
<1>5. CASE UNCHANGED sub
  <2>1. ChildrenTyped' /\ ParentKept' /\ ToolsKept'
        BY <1>5 DEF ChildrenInv, ChildrenTyped, ParentKept, ToolsKept, KeepToTheirTools, Toolbox
  <2>2. Running' = Running /\ Tasks' = Tasks /\ Toolbox' = Toolbox
        BY <1>5 DEF Running, Kid, Tasks, Toolbox
  <2>3. ASSUME NEW i \in Kids
        PROVE  ChildKept(i)'
        BY <1>5, <2>2 DEF ChildrenInv, ChildKept, Kid
  <2>q. QED BY <2>1, <2>3 DEF ChildrenInv
<1>q. QED BY <1>1, <1>2, <1>3, <1>4, <1>5 DEF ChildrenNext

LEMMA ChildrenAlways == ChildrenSpec => []ChildrenInv
      BY ChildrenStart, ChildrenKept, PTL DEF ChildrenSpec

\* A child uses what it was delegated with and nothing else, and changes nothing outside of the workspace that the
\* user has not agreed to: runSubagent's toolbox and the gate of its session.  Were it prompted again while the
\* hooks of its first run go on, that run would have the toolbox to itself once they end.
THEOREM KeptToTheirTools == "again" \notin Races => (ChildrenSpec => []KeepToTheirTools)
<1> SUFFICES ASSUME "again" \notin Races PROVE ChildrenSpec => []KeepToTheirTools
      OBVIOUS
<1>1. ChildrenInv => KeepToTheirTools
      BY DEF ChildrenInv, ToolsKept
<1>q. QED BY <1>1, ChildrenAlways, PTL

\* A headless Host exits when no child is at work, and with 0 only if its run was left to end.
THEOREM ExitsAsItEnded == ChildrenSpec => []ExitsTell
<1>1. ChildrenInv => ExitsTell
  <2> SUFFICES ASSUME ChildrenInv, sub.exit # "none" PROVE Busy = {} /\ (sub.exit = "0" => ~sub.aborted)
        BY DEF ExitsTell
  <2>1. sub.call # "running" /\ (sub.exit = "0" => ~sub.aborted)
        BY DEF ChildrenInv, ParentKept
  <2>2. \A i \in Kids : Kid(i).at \in {"queued", "over"}
        BY <2>1 DEF ChildrenInv, ChildKept
  <2>q. QED BY <2>1, <2>2 DEF Busy
<1>q. QED BY <1>1, ChildrenAlways, PTL

\* What delegate_task returns of a task is that task's, and a success only if its child answered; and what the
\* children have done and how the Host exits is true too.  Were a child prompted again while the hooks of its
\* first run go on, its text would be the other run's.
THEOREM DelegatedIsTrue == "again" \notin Races => (ChildrenSpec => []DelegationIsTrue)
<1> SUFFICES ASSUME "again" \notin Races PROVE ChildrenSpec => []DelegationIsTrue
      OBVIOUS
<1>1. ChildrenInv => ResultsAreTheirs
  <2> SUFFICES ASSUME ChildrenInv, sub.call = "returned", NEW i \in Tasks
               PROVE  /\ sub.results[i].of = i
                      /\ sub.results[i].ok <=> Kid(i).outcome = "done" /\ Kid(i).said = "task"
        BY DEF ResultsAreTheirs
  <2>1. i \in Kids
    <3>1. sub.tasks \in 0..N
          BY DEF ChildrenInv, ChildrenTyped, ChildrenStates
    <3>q. QED BY <3>1, DelegationAssumption DEF Tasks, Kids
  <2>2. ChildKept(i) /\ Kid(i) \in KidTyped
        BY <2>1 DEF ChildrenInv, ChildrenTyped, ChildrenStates, Kid
  <2>3. Kid(i).said \in {"nothing", "task"}
        BY <2>2 DEF KidTyped
  <2>q. QED BY <2>2, <2>3 DEF ChildKept
<1>2. ChildrenSpec => []ResultsAreTheirs
      BY <1>1, ChildrenAlways, PTL
<1>3. ChildrenSpec => []KeepToTheirTools
      BY KeptToTheirTools
<1>q. QED BY <1>2, <1>3, ExitsAsItEnded, PTL DEF DelegationIsTrue

\* Once the parent is aborted no child starts any more, and each that runs is aborted as well: the signal that
\* runSubagent listens to.
THEOREM AbortReachesAll == ChildrenSpec => NoMoreStart
<1>1. ASSUME ChildrenInv, [ChildrenNext]_sub, sub.aborted, NEW k \in Kids, Kid(k).at = "queued"
      PROVE  sub'.kids[k].at \in {"queued", "over"}
  <2>1. ChildrenTyped /\ Kid(k) \in KidTyped
        BY <1>1 DEF ChildrenInv, ChildrenTyped, ChildrenStates, Kid
  <2>2. ASSUME NEW i \in Kids, Take(i) PROVE sub'.kids[k].at \in {"queued", "over"}
    <3>1. PICK result \in ResultTyped : sub' = Ended([sub EXCEPT !.next = @ + 1], i, result)
      <4>1. i \in Nat
            BY KidsAreNumbers
      <4>2. \A why \in {"no model", "aborted"} : [of |-> i, ok |-> FALSE, error |-> why] \in ResultTyped
            BY <4>1 DEF ResultTyped
      <4>q. QED BY <1>1, <2>2, <4>2 DEF Take
    <3>2. sub'.kids[k].at = IF i = k THEN "over" ELSE Kid(k).at
          BY <2>1, <3>1 DEF Ended, ChildrenTyped, ChildrenStates, Kid, KidTyped
    <3>q. QED BY <1>1, <3>2
  <2>3. ASSUME NEW i \in Kids, HooksEnd(i) \/ LoopEnds(i) \/ Answer(i) \/ SecondRun(i) \/ HookSticks(i)
        PROVE  sub'.kids[k].at \in {"queued", "over"}
    <3>1. CASE HooksEnd(i)
          BY <1>1, <2>1, <3>1 DEF HooksEnd, ChildrenTyped, ChildrenStates, Kid
    <3>2. CASE LoopEnds(i)
          BY <1>1, <2>1, <3>2 DEF LoopEnds, ChildrenTyped, ChildrenStates, Kid
    <3>3. CASE Answer(i)
          BY <1>1, <2>1, <3>3 DEF Answer, ChildrenTyped, ChildrenStates, Kid
    <3>4. CASE SecondRun(i)
      <4>1. Kid(k)'.at = Kid(k).at
            BY <1>1, <3>4, SecondRunKeeps
      <4>q. QED BY <1>1, <4>1 DEF Kid
    <3>5. CASE HookSticks(i)
          BY <1>1, <2>1, <3>5 DEF HookSticks, ChildrenTyped, ChildrenStates, Kid
    <3>q. QED BY <2>3, <3>1, <3>2, <3>3, <3>4, <3>5
  <2>4. ASSUME NEW i \in Kids, Settled(i)
        PROVE  sub'.kids[k].at \in {"queued", "over"}
        BY <1>1, <2>1, <2>4 DEF Settled, Ended, ChildrenTyped, ChildrenStates, Kid
  <2>5. ASSUME NEW i \in Kids, NEW tool \in ToolNames, UseTool(i, tool)
        PROVE  sub'.kids[k].at \in {"queued", "over"}
    <3>1. i # k
          BY <1>1, <2>5 DEF UseTool
    <3> DEFINE x == [sub EXCEPT !.kids[i].tools = @ + 1]
    <3>2. x.kids[k] = sub.kids[k]
          BY <2>1, <3>1 DEF ChildrenTyped, ChildrenStates
    <3>3. \/ \E uses : sub' = [x EXCEPT !.ran = uses]
          \/ sub' = [x EXCEPT !.kids[i].at = "asking", !.kids[i].asks = tool]
          \/ sub' = x
          BY <2>5 DEF UseTool
    <3>4. x.kids = [sub.kids EXCEPT ![i].tools = @ + 1] /\ DOMAIN x = DOMAIN sub
          BY <2>1 DEF ChildrenTyped, ChildrenStates
    <3>5. "kids" \in DOMAIN sub /\ "ran" \in DOMAIN sub /\ k \in DOMAIN x.kids
          BY <2>1, <3>4 DEF ChildrenTyped, ChildrenStates
    <3> HIDE DEF x
    <3>6. sub'.kids[k] = x.kids[k]
          BY <3>1, <3>3, <3>4, <3>5
    <3>q. QED BY <1>1, <3>2, <3>6 DEF Kid
  <2>6. CASE ReturnResults \/ ParentEnds \/ Exit \/ Delegate
        BY <1>1, <2>1, <2>6 DEF ReturnResults, ParentEnds, Exit, Delegate, ChildrenTyped, ChildrenStates, Kid
  <2>7. ASSUME NEW i \in Kids, AbortKid(i)
        PROVE  sub'.kids[k].at \in {"queued", "over"}
    <3>1. i # k /\ sub' = Cut(sub, {i})
          BY <1>1, <2>7 DEF AbortKid, Running
    <3>q. QED BY <1>1, <2>1, <3>1 DEF Cut, ChildrenTyped, ChildrenStates, Kid
  <2>8. ~AbortParent
        BY <1>1 DEF AbortParent
  <2>9. CASE UNCHANGED sub
        BY <1>1, <2>9 DEF Kid
  <2>q. QED BY <1>1, <2>2, <2>3, <2>4, <2>5, <2>6, <2>7, <2>8, <2>9 DEF ChildrenNext, Progress
<1>2. ASSUME ChildrenInv, [ChildrenNext]_sub PROVE [StartsNoMore]_sub
  <2>1. sub.aborted => \A i \in Running : Kid(i).cut
        BY <1>2 DEF ChildrenInv, ChildKept, Running
  <2>q. QED BY <1>1, <1>2, <2>1 DEF StartsNoMore
<1>3. ChildrenInv /\ [ChildrenNext]_sub => [StartsNoMore]_sub
      BY <1>2
<1>q. QED BY <1>3, ChildrenAlways, PTL DEF ChildrenSpec, NoMoreStart
=============================================================================
