-------------------------- MODULE AgentLoop_proofs --------------------------
(***************************************************************************)
(* Proofs about AgentLoop, for any number of turns, calls, messages, aborts *)
(* and restarts: the results of a reply's calls are logged in call order,   *)
(* each message is logged at most once, and an aborted run starts nothing.  *)
(*                                                                          *)
(* The inductive invariant says of each reply how many of its calls are     *)
(* answered (Answered) and whether more is to come: nothing more (Settled), *)
(* or, for the last reply while its tools run, exactly what `todo` still    *)
(* holds (Owed).  Of the messages it says that each was accepted and is in  *)
(* one queue, or in the log, once (Queues).  An action enters the proofs by *)
(* what it does to the log and the queues (StepKinds).  What the folds of   *)
(* SessionDerive compute plays no part, so compactions may be anything.     *)
(***************************************************************************)
EXTENDS AgentLoop, TLAPS, SequenceTheorems

\* The log is a sequence, of whatever events.
Logged == \E S : log \in Seq(S)

\* What writing a batch makes of the log: it stays, and the batch's types and data follow.
Grows(batch) ==
    /\ Logged'
    /\ Len(log') = Len(log) + Len(batch)
    /\ \A i \in 1..Len(log) : log'[i] = log[i]
    /\ \A i \in 1..Len(batch) :
         log'[Len(log) + i].type = batch[i].type /\ log'[Len(log) + i].data = batch[i].data

\* A batch of any events is appended as it is, numbered on.
LEMMA WritingGrows ==
    ASSUME Logged, NEW T, NEW batch \in Seq(T), log' = Numbered(log, batch)
    PROVE  Grows(batch)
<1> DEFINE new == [i \in 1..Len(batch) |-> Event(batch[i].type, LastSeq(log) + i, batch[i].data)]
<1>1. PICK S : log \in Seq(S)  BY DEF Logged
<1>2. Len(batch) \in Nat  OBVIOUS
<1> DEFINE N == {new[i] : i \in 1..Len(batch)}
           U == S \cup N
<1>3. new \in Seq(N)
    <2> HIDE DEF new
    <2>1. \A i \in 1..Len(batch) : new[i] \in N  OBVIOUS
    <2>2. new = [i \in 1..Len(batch) |-> new[i]]  BY DEF new
    <2> HIDE DEF N
    <2> QED  BY <1>2, <2>1, <2>2, IsASeq
<1>4. Len(new) = Len(batch)
    <2>1. DOMAIN new = 1..Len(batch)  OBVIOUS
    <2> HIDE DEF new, N
    <2> QED  BY <1>2, <1>3, <2>1, LenProperties
<1>5. log' = log \o new  BY DEF Numbered
<1>6. \A i \in 1..Len(batch) : new[i].type = batch[i].type /\ new[i].data = batch[i].data
    BY DEF Event
<1> HIDE DEF new, N
<1>7. log \in Seq(U) /\ new \in Seq(U)
    BY <1>1, <1>3, SeqMonotonic DEF U
<1> HIDE DEF U
<1>8. /\ log \o new \in Seq(U)
      /\ Len(log \o new) = Len(log) + Len(new)
      /\ \A i \in 1..Len(log) + Len(new) :
           (log \o new)[i] = IF i <= Len(log) THEN log[i] ELSE new[i - Len(log)]
    BY <1>7, ConcatProperties
<1>9. Len(log) \in Nat  BY <1>7
<1>10. Logged'  BY <1>5, <1>8 DEF Logged
<1>11. \A i \in 1..Len(log) : log'[i] = log[i]
    BY <1>2, <1>4, <1>5, <1>8, <1>9
<1>12. \A i \in 1..Len(batch) : log'[Len(log) + i] = new[i]
    <2> TAKE i \in 1..Len(batch)
    <2>1. Len(log) + i \in 1..Len(log) + Len(new) /\ ~(Len(log) + i <= Len(log)) /\ (Len(log) + i) - Len(log) = i
        BY <1>2, <1>4, <1>9
    <2> QED  BY <1>5, <1>8, <2>1
<1> QED  BY <1>2, <1>4, <1>5, <1>6, <1>8, <1>9, <1>10, <1>11, <1>12 DEF Grows

\* The tool events of a reply's n calls.
LEMMA ToolEventsAre ==
    ASSUME NEW type, NEW n \in Nat, NEW t, t = ToolEvents(type, n)
    PROVE  /\ \E T : t \in Seq(T)
           /\ Len(t) = n
           /\ \A i \in 1..n : t[i] = [type |-> type, data |-> [callId |-> i]]
<1>1. t = [i \in 1..n |-> [type |-> type, data |-> [callId |-> i]]]  BY DEF ToolEvents
<1>2. DOMAIN t = 1..n /\ \A i \in 1..n : t[i] = [type |-> type, data |-> [callId |-> i]]  BY <1>1
<1>3. t = [i \in 1..n |-> t[i]]  BY <1>1, <1>2
<1>4. PICK N : N = {t[i] : i \in 1..n}  OBVIOUS
<1>5. \A i \in 1..n : t[i] \in N  BY <1>4
<1>6. t \in [1..n -> N]  BY <1>3, <1>5
<1>7. t \in Seq(N)  BY <1>6, SeqDef
<1>8. Len(t) = n  BY <1>2, <1>7, LenProperties
<1> QED  BY <1>2, <1>7, <1>8

\* What a reply is logged with: the reply, then an event for each of n calls.
ReplyBatch(batch, reply, type, n) ==
    /\ \E T : batch \in Seq(T)
    /\ Len(batch) = n + 1
    /\ batch[1] = reply
    /\ \A i \in 1..n : batch[i + 1] = [type |-> type, data |-> [callId |-> i]]

\* Every batch Reply writes is one of these.
LEMMA Replying ==
    ASSUME NEW a, NEW type, NEW n \in Nat
    PROVE  ReplyBatch(<<a>> \o ToolEvents(type, n), a, type, n)
<1>0. PICK batch : batch = <<a>> \o ToolEvents(type, n)  OBVIOUS
<1>1. PICK t : t = ToolEvents(type, n)  OBVIOUS
<1>2. PICK U : t \in Seq(U)  BY <1>1, ToolEventsAre
<1>3. Len(t) = n /\ \A i \in 1..n : t[i] = [type |-> type, data |-> [callId |-> i]]
    BY <1>1, ToolEventsAre
<1>4. PICK N : N = U \cup {a}  OBVIOUS
<1>5. PICK s : s = <<a>>  OBVIOUS
<1>6. s \in Seq(N) /\ Len(s) = 1 /\ s[1] = a  BY <1>4, <1>5
<1>7. t \in Seq(N)  BY <1>2, <1>4, SeqMonotonic
<1>8. batch = s \o t  BY <1>0, <1>1, <1>5
<1>9. /\ s \o t \in Seq(N)
      /\ Len(s \o t) = Len(s) + Len(t)
      /\ \A i \in 1..(Len(s) + Len(t)) : (s \o t)[i] = IF i <= Len(s) THEN s[i] ELSE t[i - Len(s)]
    BY <1>6, <1>7, ConcatProperties
<1>10. \A i \in 1..n : batch[i + 1] = t[i]
    <2> TAKE i \in 1..n
    <2>1. i + 1 \in 1..(Len(s) + Len(t)) /\ ~(i + 1 <= Len(s)) /\ (i + 1) - Len(s) = i
        BY <1>3, <1>6
    <2> QED  BY <1>8, <1>9, <2>1
<1>11. batch[1] = a
    <2>1. 1 \in 1..(Len(s) + Len(t)) /\ 1 <= Len(s)  BY <1>3, <1>6
    <2> QED  BY <1>6, <1>8, <1>9, <2>1
<1>12. batch \in Seq(N) /\ Len(batch) = n + 1
    <2>1. Len(s) + Len(t) = n + 1  BY <1>3, <1>6
    <2> QED  BY <1>8, <1>9, <2>1
<1>13. \A i \in 1..n : batch[i + 1] = [type |-> type, data |-> [callId |-> i]]  BY <1>3, <1>10
<1>14. ReplyBatch(batch, a, type, n)  BY <1>11, <1>12, <1>13 DEF ReplyBatch
<1> QED  BY <1>0, <1>14

\* A batch of one.
LEMMA OneEvent ==
    ASSUME NEW e
    PROVE  <<e>> \in Seq({e}) /\ Len(<<e>>) = 1 /\ <<e>>[1] = e
OBVIOUS

\* deliver's batch: a user event for each message of the queue.
LEMMA Delivering ==
    ASSUME NEW q \in Seq(Nat)
    PROVE  /\ \E T : Users(q) \in Seq(T)
           /\ Len(Users(q)) = Len(q)
           /\ \A i \in 1..Len(q) : Users(q)[i] = [type |-> "user", data |-> [of |-> q[i]]]
<1> DEFINE u == Users(q)
           N == {u[i] : i \in 1..Len(q)}
<1>1. Len(q) \in Nat  OBVIOUS
<1>2. u = [i \in 1..Len(q) |-> [type |-> "user", data |-> [of |-> q[i]]]]  BY DEF Users, User
<1>3. DOMAIN u = 1..Len(q) /\ u = [i \in 1..Len(q) |-> u[i]]  BY <1>2
<1>4. \A i \in 1..Len(q) : u[i] = [type |-> "user", data |-> [of |-> q[i]]]  BY <1>2
<1>5. \A i \in 1..Len(q) : u[i] \in N  OBVIOUS
<1> HIDE DEF u, N
<1>6. u \in Seq(N)  BY <1>1, <1>3, <1>5, IsASeq
<1>7. Len(u) = Len(q)  BY <1>1, <1>3, <1>6, LenProperties
<1> QED  BY <1>4, <1>6, <1>7 DEF u

-----------------------------------------------------------------------------
\* How many events a log has is a number, also before the next step.
LEMMA LogHasLength ==
    ASSUME Logged
    PROVE  Len(log) \in Nat
BY DEF Logged

\* Nothing of what was appended is a reply or a result.
Quiet(batch) == \A i \in 1..Len(batch) : batch[i].type \notin {"assistant", "tool-result"}

IsReply(i) == i \in 1..Len(log) /\ log[i].type = "assistant"
LastReply(i) == IsReply(i) /\ \A k \in (i + 1)..Len(log) : log[k].type # "assistant"

\* The number of calls of the reply at i.
CallsOf(i) == Len(log[i].data.calls)

\* The reply at i has a result for each of its first n calls and for no other, in call order.
Answered(i, n) ==
    /\ {log[j].data.callId : j \in ResultsOf(i)} = 1..n
    /\ \A j, k \in ResultsOf(i) : j < k => log[j].data.callId < log[k].data.callId

\* Nothing more comes for the reply at i.
Settled(i) ==
    \/ Answered(i, CallsOf(i))
    \/ log[i].data.reason \notin {"stop", "aborted"} /\ Answered(i, 0)
    \/ restarts > 0 /\ \E n \in 0..CallsOf(i) : Answered(i, n)

\* What is owed to the reply at i is what follows its results.
Owed(i) == \E n \in 0..CallsOf(i) : Answered(i, n) /\ todo = [k \in 1..(CallsOf(i) - n) |-> n + k]

\* Every reply is settled, but for the last one while its tools run.
Replies ==
    /\ \A i \in 1..Len(log) : IsReply(i) =>
         /\ \E n \in Nat : log[i].data.calls = [k \in 1..n |-> k]
         /\ IF pc = "tools" /\ LastReply(i) THEN Owed(i) ELSE Settled(i)
    /\ IF pc = "tools" THEN todo # <<>> /\ \E i \in 1..Len(log) : LastReply(i) ELSE todo = <<>>

\* The calls of a reply are numbered from 1.
LEMMA CallsAreNumbered ==
    ASSUME NEW calls, NEW n \in Nat, calls = [k \in 1..n |-> k]
    PROVE  calls \in Seq(Nat) /\ Len(calls) = n
<1>1. calls \in Seq(Nat)
    <2>1. \A k \in 1..n : k \in Nat  OBVIOUS
    <2> QED  BY <2>1, IsASeq
<1>2. DOMAIN calls = 1..n  OBVIOUS
<1> QED  BY <1>1, <1>2, LenProperties

-----------------------------------------------------------------------------
\* A quiet batch changes nothing of what is said of the replies there are.
LEMMA QuietKeeps ==
    ASSUME Logged, NEW T, NEW batch \in Seq(T), Grows(batch), Quiet(batch), NEW i \in 1..Len(log)
    PROVE  /\ IsReply(i)' <=> IsReply(i)
           /\ LastReply(i)' <=> LastReply(i)
           /\ log[i]' = log[i]
           /\ ResultsOf(i)' = ResultsOf(i)
           /\ \A n : Answered(i, n)' <=> Answered(i, n)
<1>1. Len(log) \in Nat /\ Len(batch) \in Nat  BY LogHasLength
<1>2. Len(log') = Len(log) + Len(batch) /\ \A j \in 1..Len(log) : log'[j] = log[j]  BY DEF Grows
<1>3. \A j \in (Len(log) + 1)..Len(log') : log'[j].type \notin {"assistant", "tool-result"}
    <2> TAKE j \in (Len(log) + 1)..Len(log')
    <2>1. j - Len(log) \in 1..Len(batch) /\ Len(log) + (j - Len(log)) = j  BY <1>1, <1>2
    <2> QED  BY <2>1 DEF Grows, Quiet
<1>4. \A j \in 1..Len(log') : j \in 1..Len(log) \/ j \in (Len(log) + 1)..Len(log')  BY <1>1, <1>2
<1>5. \A j \in 1..Len(log) : j \in 1..Len(log')  BY <1>1, <1>2
<1>6. IsReply(i)' <=> IsReply(i)  BY <1>2, <1>5 DEF IsReply
<1>7. (\A k \in (i + 1)..Len(log') : log'[k].type # "assistant") <=> \A k \in (i + 1)..Len(log) : log[k].type # "assistant"
    <2>1. \A k \in (i + 1)..Len(log) : k \in (i + 1)..Len(log') /\ log'[k] = log[k]  BY <1>1, <1>2
    <2>2. \A k \in (i + 1)..Len(log') : k \in (i + 1)..Len(log) \/ k \in (Len(log) + 1)..Len(log')  BY <1>1, <1>2
    <2> QED  BY <1>3, <2>1, <2>2
<1>8. ResultsOf(i)' = ResultsOf(i)
    <2>1. \A j \in (i + 1)..Len(log) : j \in (i + 1)..Len(log') /\ j \in 1..Len(log) /\ log'[j] = log[j]  BY <1>1, <1>2
    <2>2. \A j \in (i + 1)..Len(log) : \A k \in (i + 1)..j : k \in 1..Len(log)  BY <1>1
    <2>3. \A j \in (i + 1)..Len(log') : log'[j].type = "tool-result" => j \in (i + 1)..Len(log)  BY <1>1, <1>2, <1>3
    <2> QED  BY <1>2, <2>1, <2>2, <2>3 DEF ResultsOf
<1>9. \A j \in ResultsOf(i) : log'[j] = log[j]
    <2>1. \A j \in ResultsOf(i) : j \in 1..Len(log)  BY <1>1 DEF ResultsOf
    <2> QED  BY <1>2, <2>1
<1>10. \A n : Answered(i, n)' <=> Answered(i, n)
    <2> TAKE n
    <2>1. {log'[j].data.callId : j \in ResultsOf(i)} = {log[j].data.callId : j \in ResultsOf(i)}  BY <1>9
    <2> QED  BY <1>8, <1>9, <2>1 DEF Answered
<1> QED  BY <1>2, <1>6, <1>7, <1>8, <1>10 DEF LastReply

\* What is said of one reply there was, is said of it after a step that leaves its results alone.
LEMMA SameReply ==
    ASSUME NEW i \in 1..Len(log), log[i]' = log[i], \A n : Answered(i, n)' <=> Answered(i, n),
           todo' = todo, restarts' = restarts
    PROVE  /\ CallsOf(i)' = CallsOf(i)
           /\ Settled(i)' <=> Settled(i)
           /\ Owed(i)' <=> Owed(i)
BY DEF CallsOf, Settled, Owed

\* A quiet batch, which may be empty, keeps Replies.
LEMMA QuietReplies ==
    ASSUME Logged, Replies, NEW T, NEW batch \in Seq(T), Grows(batch), Quiet(batch),
           todo' = todo, restarts' = restarts, (pc' = "tools") <=> (pc = "tools")
    PROVE  Replies'
<1>1. Len(log) \in Nat /\ Len(batch) \in Nat  BY LogHasLength
<1>2. Len(log') = Len(log) + Len(batch)  BY DEF Grows
<1>3. ASSUME NEW i \in 1..Len(log'), IsReply(i)'
      PROVE  i \in 1..Len(log)
    <2>1. CASE i \in 1..Len(log)  BY <2>1
    <2>2. CASE i \notin 1..Len(log)
        <3>1. i - Len(log) \in 1..Len(batch) /\ Len(log) + (i - Len(log)) = i  BY <1>1, <1>2, <2>2
        <3> QED  BY <1>3, <3>1 DEF Grows, Quiet, IsReply
    <2> QED  BY <2>1, <2>2
<1>4. ASSUME NEW i \in 1..Len(log'), IsReply(i)'
      PROVE  /\ \E n \in Nat : log'[i].data.calls = [k \in 1..n |-> k]
             /\ IF pc' = "tools" /\ LastReply(i)' THEN Owed(i)' ELSE Settled(i)'
    <2>1. i \in 1..Len(log)  BY <1>3, <1>4
    <2>2. /\ IsReply(i)
          /\ LastReply(i)' <=> LastReply(i)
          /\ log[i]' = log[i]
          /\ \A n : Answered(i, n)' <=> Answered(i, n)
        BY <1>4, <2>1, QuietKeeps
    <2>3. (Settled(i)' <=> Settled(i)) /\ (Owed(i)' <=> Owed(i))  BY <2>1, <2>2, SameReply
    <2> QED  BY <2>1, <2>2, <2>3 DEF Replies
<1>5. IF pc' = "tools" THEN todo' # <<>> /\ \E i \in 1..Len(log') : LastReply(i)' ELSE todo' = <<>>
    <2>1. \A i \in 1..Len(log) : i \in 1..Len(log') /\ (LastReply(i)' <=> LastReply(i))
        BY <1>1, <1>2, QuietKeeps
    <2> QED  BY <2>1 DEF Replies
<1> QED  BY <1>4, <1>5 DEF Replies

\* Nor does a step that writes nothing.
LEMMA StillReplies ==
    ASSUME Replies, UNCHANGED <<log, todo, restarts>>, (pc' = "tools") <=> (pc = "tools")
    PROVE  Replies'
<1>1. ASSUME NEW i
      PROVE  /\ IsReply(i)' <=> IsReply(i)
             /\ LastReply(i)' <=> LastReply(i)
             /\ Settled(i)' <=> Settled(i)
             /\ Owed(i)' <=> Owed(i)
    <2>1. IsReply(i)' <=> IsReply(i)  BY DEF IsReply
    <2>2. LastReply(i)' <=> LastReply(i)  BY <2>1 DEF LastReply
    <2>3. ResultsOf(i)' = ResultsOf(i)  BY DEF ResultsOf
    <2>4. \A n : Answered(i, n)' <=> Answered(i, n)  BY <2>3 DEF Answered
    <2>5. CallsOf(i)' = CallsOf(i)  BY DEF CallsOf
    <2>6. Settled(i)' <=> Settled(i)  BY <2>4, <2>5 DEF Settled
    <2>7. Owed(i)' <=> Owed(i)  BY <2>4, <2>5 DEF Owed
    <2> QED  BY <2>1, <2>2, <2>6, <2>7
<1> QED  BY <1>1 DEF Replies

\* While no tools run, every reply there was is settled, and stays so when a new one is written.
LEMMA NewReply ==
    ASSUME Logged, Replies, pc # "tools", NEW T, NEW batch \in Seq(T), Grows(batch), Len(batch) > 0,
           batch[1].type = "assistant", \A b \in 2..Len(batch) : batch[b].type # "assistant",
           restarts' = restarts,
           NEW i \in 1..Len(log), IsReply(i)
    PROVE  /\ log'[i] = log[i] /\ ~LastReply(i)' /\ Settled(i)'
<1>1. Len(log) \in Nat /\ Len(batch) \in Nat  BY LogHasLength
<1>2. Len(log') = Len(log) + Len(batch) /\ \A j \in 1..Len(log) : log'[j] = log[j]  BY DEF Grows
<1>3. log'[Len(log) + 1].type = "assistant"  BY <1>1 DEF Grows
<1>4. Len(log) + 1 \in (i + 1)..Len(log')  BY <1>1, <1>2
<1>5. ~LastReply(i)'  BY <1>3, <1>4 DEF LastReply
<1>6. ResultsOf(i)' = ResultsOf(i)
    <2>1. \A j \in (i + 1)..Len(log) : j \in (i + 1)..Len(log') /\ j \in 1..Len(log) /\ log'[j] = log[j]  BY <1>1, <1>2
    <2>2. \A j \in (i + 1)..Len(log) : \A k \in (i + 1)..j : k \in 1..Len(log)  BY <1>1
    <2>3. \A j \in (i + 1)..Len(log') : j \in (i + 1)..Len(log) \/ Len(log) + 1 \in (i + 1)..j  BY <1>1, <1>2
    <2> QED  BY <1>2, <1>3, <2>1, <2>2, <2>3 DEF ResultsOf
<1>7. \A j \in ResultsOf(i) : log'[j] = log[j]
    <2>1. \A j \in ResultsOf(i) : j \in 1..Len(log)  BY <1>1 DEF ResultsOf
    <2> QED  BY <1>2, <2>1
<1>8. \A n : Answered(i, n)' <=> Answered(i, n)
    <2> TAKE n
    <2>1. {log'[j].data.callId : j \in ResultsOf(i)} = {log[j].data.callId : j \in ResultsOf(i)}  BY <1>7
    <2> QED  BY <1>6, <1>7, <2>1 DEF Answered
<1>9. Settled(i)  BY DEF Replies
<1>10. Settled(i)'  BY <1>2, <1>8, <1>9 DEF Settled, CallsOf
<1> QED  BY <1>2, <1>5, <1>10

\* What a reply starts with: no result, or one for each call, logged with it.
LEMMA NewResults ==
    ASSUME Logged, NEW T, NEW batch \in Seq(T), Grows(batch), NEW n \in Nat, Len(batch) = n + 1,
           NEW type \in {"tool-result", "tool-call"},
           \A k \in 1..n : batch[k + 1] = [type |-> type, data |-> [callId |-> k]],
           NEW m, m = Len(log) + 1
    PROVE  Answered(m, IF type = "tool-result" THEN n ELSE 0)'
<1>1. Len(log) \in Nat /\ Len(log') = m + n /\ m \in Nat  BY LogHasLength DEF Grows
<1>2. \A k \in 1..n : log'[m + k].type = type /\ log'[m + k].data.callId = k
    <2> TAKE k \in 1..n
    <2>1. k + 1 \in 1..Len(batch) /\ Len(log) + (k + 1) = m + k  BY <1>1
    <2>2. log'[Len(log) + (k + 1)].type = batch[k + 1].type /\ log'[Len(log) + (k + 1)].data = batch[k + 1].data
        BY <2>1 DEF Grows
    <2>3. batch[k + 1] = [type |-> type, data |-> [callId |-> k]]  OBVIOUS
    <2>4. batch[k + 1].type = type /\ batch[k + 1].data.callId = k  BY <2>3
    <2> QED  BY <2>1, <2>2, <2>4
<1>3. \A j \in (m + 1)..Len(log') : j - m \in 1..n /\ m + (j - m) = j  BY <1>1
<1>4. \A j \in (m + 1)..Len(log') : log'[j].type = type /\ log'[j].data.callId = j - m
    <2> TAKE j \in (m + 1)..Len(log')
    <2>1. j - m \in 1..n /\ m + (j - m) = j  BY <1>3
    <2>2. log'[m + (j - m)].type = type /\ log'[m + (j - m)].data.callId = j - m  BY <1>2, <2>1
    <2> QED  BY <2>1, <2>2
<1>5. CASE type = "tool-result"
    <2>1. ResultsOf(m)' = (m + 1)..Len(log')
        <3>1. \A j \in (m + 1)..Len(log') : \A k \in (m + 1)..j : k \in (m + 1)..Len(log')  BY <1>1
        <3>2. \A j \in (m + 1)..Len(log') : log'[j].type = "tool-result"  BY <1>4, <1>5
        <3>3. "tool-result" # "assistant"  OBVIOUS
        <3>4. ResultsOf(m)' = {j \in (m + 1)..Len(log') :
                 log'[j].type = "tool-result" /\ \A k \in (m + 1)..j : log'[k].type # "assistant"}
            BY DEF ResultsOf
        <3> QED  BY <3>1, <3>2, <3>3, <3>4
    <2>2. {log'[j].data.callId : j \in (m + 1)..Len(log')} = 1..n
        <3>1. \A j \in (m + 1)..Len(log') : log'[j].data.callId \in 1..n  BY <1>3, <1>4
        <3>2. \A k \in 1..n : m + k \in (m + 1)..Len(log') /\ log'[m + k].data.callId = k  BY <1>1, <1>2
        <3> QED  BY <3>1, <3>2
    <2>3. \A j, k \in (m + 1)..Len(log') : j < k => log'[j].data.callId < log'[k].data.callId
        BY <1>1, <1>4
    <2> QED  BY <1>5, <2>1, <2>2, <2>3 DEF Answered
<1>6. CASE type = "tool-call"
    <2>1. ResultsOf(m)' = {}  BY <1>4, <1>6 DEF ResultsOf
    <2>2. 1..0 = {}  OBVIOUS
    <2> QED  BY <1>6, <2>1, <2>2 DEF Answered
<1> QED  BY <1>5, <1>6
\* The parts of a reply that are looked at.
LEMMA PartsOfReply ==
    ASSUME NEW r
    PROVE  /\ Assistant(r).type = "assistant"
           /\ Assistant(r).data.reason = r.reason
           /\ Assistant(r).data.calls = [k \in 1..r.calls |-> k]
           /\ Assistant(r).data.text = r.text
<1>1. Assistant(r).type = "assistant"  BY DEF Assistant
<1>2. Assistant(r).data = [of |-> LastSeq(log) + 1, text |-> r.text, reason |-> r.reason,
                           calls |-> [k \in 1..r.calls |-> k], large |-> r.large]
    BY DEF Assistant
<1> QED  BY <1>1, <1>2

\* The reply r is logged at m, answered for its first k calls; the others are as they were.
ReplyLogged(r, m, k) ==
    /\ Logged'
    /\ m \in 1..Len(log')
    /\ log'[m].data.reason = r.reason
    /\ log'[m].data.calls = [c \in 1..r.calls |-> c]
    /\ CallsOf(m)' = r.calls
    /\ Answered(m, k)'
    /\ LastReply(m)'
    /\ \A i \in 1..Len(log') : IsReply(i)' /\ i # m =>
         i \in 1..Len(log) /\ IsReply(i) /\ log'[i] = log[i] /\ ~LastReply(i)' /\ Settled(i)'

\* Whichever way a reply is written, it is written whole.
LEMMA ReplyWritten ==
    ASSUME Logged, Replies, pc # "tools", restarts' = restarts,
           NEW r, r.calls \in Nat, NEW n \in Nat, NEW type \in {"tool-result", "tool-call"},
           NEW batch, ReplyBatch(batch, Assistant(r), type, n),
           log' = Numbered(log, batch), NEW m, m = Len(log) + 1
    PROVE  ReplyLogged(r, m, IF type = "tool-result" THEN n ELSE 0)
<1>0. /\ Len(batch) = n + 1
      /\ batch[1] = Assistant(r)
      /\ \A k \in 1..n : batch[k + 1] = [type |-> type, data |-> [callId |-> k]]
    BY DEF ReplyBatch
<1> PICK T : batch \in Seq(T)  BY DEF ReplyBatch
<1>1. Grows(batch)  BY WritingGrows
<1>2. Len(log) \in Nat /\ Len(log') = m + n /\ m \in Nat  BY <1>0, <1>1, LogHasLength DEF Grows
<1>3. Logged'  BY <1>1 DEF Grows
<1>4. m \in 1..Len(log')  BY <1>2
<1>5. log'[m].type = "assistant" /\ log'[m].data = Assistant(r).data
    <2>1. 1 \in 1..Len(batch) /\ Len(log) + 1 = m  BY <1>0, <1>2
    <2>2. log'[Len(log) + 1].type = batch[1].type /\ log'[Len(log) + 1].data = batch[1].data
        BY <1>1, <2>1 DEF Grows
    <2>3. Assistant(r).type = "assistant"  BY PartsOfReply
    <2> QED  BY <1>0, <2>1, <2>2, <2>3
<1>6. log'[m].data.reason = r.reason /\ log'[m].data.calls = [k \in 1..r.calls |-> k]
    BY <1>5, PartsOfReply
<1>7. CallsOf(m)' = r.calls  BY <1>6, CallsAreNumbered DEF CallsOf
<1>8. Answered(m, IF type = "tool-result" THEN n ELSE 0)'  BY <1>0, <1>1, NewResults
<1>9. \A b \in 2..Len(batch) : batch[b].type # "assistant"
    <2> TAKE b \in 2..Len(batch)
    <2>1. b - 1 \in 1..n /\ (b - 1) + 1 = b  BY <1>0
    <2>2. batch[(b - 1) + 1] = [type |-> type, data |-> [callId |-> b - 1]]  BY <1>0, <2>1
    <2>3. batch[b] = [type |-> type, data |-> [callId |-> b - 1]]  BY <2>1, <2>2
    <2>4. batch[b].type = type  BY <2>3
    <2> QED  BY <2>4
<1>10. LastReply(m)'
    <2>1. ASSUME NEW k \in (m + 1)..Len(log')
          PROVE  log'[k].type # "assistant"
        <3>1. k - Len(log) \in 2..Len(batch) /\ k - Len(log) \in 1..Len(batch) /\ Len(log) + (k - Len(log)) = k
            BY <1>0, <1>2
        <3>2. log'[Len(log) + (k - Len(log))].type = batch[k - Len(log)].type  BY <1>1, <3>1 DEF Grows
        <3> QED  BY <1>9, <3>1, <3>2
    <2> QED  BY <1>4, <1>5, <2>1 DEF LastReply, IsReply
<1>11. ASSUME NEW i \in 1..Len(log'), IsReply(i)', i # m
       PROVE  i \in 1..Len(log) /\ IsReply(i) /\ log'[i] = log[i] /\ ~LastReply(i)' /\ Settled(i)'
    <2>1. i \in 1..Len(log)
        <3>1. i \in (m + 1)..Len(log') \/ i \in 1..Len(log)  BY <1>2, <1>11
        <3>2. i \notin (m + 1)..Len(log')
            <4> SUFFICES ASSUME i \in (m + 1)..Len(log')
                         PROVE  FALSE
                OBVIOUS
            <4>1. log'[i].type # "assistant"  BY <1>10 DEF LastReply
            <4> QED  BY <1>11, <4>1 DEF IsReply
        <3> QED  BY <3>1, <3>2
    <2>2. log'[i] = log[i]  BY <1>1, <2>1 DEF Grows
    <2>3. IsReply(i)  BY <1>11, <2>1, <2>2 DEF IsReply
    <2>4. Len(batch) > 0 /\ batch[1].type = "assistant"
        <3>1. Assistant(r).type = "assistant"  BY PartsOfReply
        <3> QED  BY <1>0, <3>1
    <2> QED  BY <1>1, <1>9, <2>1, <2>3, <2>4, NewReply
<1> QED  BY <1>3, <1>4, <1>6, <1>7, <1>8, <1>10, <1>11 DEF ReplyLogged

\* A reply is owed the results of its calls if its tools start, and nothing otherwise.
LEMMA ReplyReplies ==
    ASSUME Logged, Replies, pc # "tools", restarts' = restarts,
           NEW r, r.calls \in Nat, r.reason \in {"stop", "error", "context-length", "aborted"}, Reply(r)
    PROVE  Logged' /\ Replies'
<1>0. PICK n \in Nat : n = r.calls  OBVIOUS
<1>1. PICK m : m = Len(log) + 1  OBVIOUS
<1>2. PICK a : a = Assistant(r)  OBVIOUS
<1>3. todo = <<>>  BY DEF Replies
\* The others are settled, so it is the new one that matters.
<1>4. ASSUME NEW k, ReplyLogged(r, m, k),
             IF pc' = "tools" THEN Owed(m)' /\ todo' # <<>> ELSE Settled(m)' /\ todo' = <<>>
      PROVE  Logged' /\ Replies'
    <2>1. ASSUME NEW i \in 1..Len(log'), IsReply(i)'
          PROVE  /\ \E l \in Nat : log'[i].data.calls = [c \in 1..l |-> c]
                 /\ IF pc' = "tools" /\ LastReply(i)' THEN Owed(i)' ELSE Settled(i)'
        <3>1. CASE i = m  BY <1>4, <3>1 DEF ReplyLogged
        <3>2. CASE i # m
            <4>1. i \in 1..Len(log) /\ IsReply(i) /\ log'[i] = log[i] /\ ~LastReply(i)' /\ Settled(i)'
                BY <1>4, <2>1, <3>2 DEF ReplyLogged
            <4> QED  BY <4>1 DEF Replies
        <3> QED  BY <3>1, <3>2
    <2>2. m \in 1..Len(log') /\ LastReply(m)' /\ Logged'  BY <1>4 DEF ReplyLogged
    <2> QED  BY <1>4, <2>1, <2>2 DEF Replies
<1>5. CASE IsCut(r)
    <2>1. PICK batch : batch = <<a>> \o ToolEvents("tool-result", n)  OBVIOUS
    <2>2. ReplyBatch(batch, a, "tool-result", n)  BY <2>1, Replying
    <2>3. log' = Numbered(log, batch) /\ pc' = "turnEnd" /\ todo' = todo
        BY <1>0, <1>2, <1>5, <2>1 DEF Reply
    <2>4. ReplyLogged(r, m, n)  BY <1>1, <1>2, <2>2, <2>3, ReplyWritten
    <2>5. Settled(m)'  BY <1>0, <2>4 DEF Settled, ReplyLogged
    <2> QED  BY <1>3, <1>4, <2>3, <2>4, <2>5
<1>6. CASE ~IsCut(r) /\ r.reason # "stop"
    <2>1. PICK batch : batch = <<a>>  OBVIOUS
    <2>2. ReplyBatch(batch, a, "tool-call", 0)
        <3>1. batch \in Seq({a}) /\ Len(batch) = 1 /\ batch[1] = a  BY <2>1
        <3> QED  BY <3>1 DEF ReplyBatch
    <2>3. log' = Numbered(log, batch) /\ pc' = "turnEnd" /\ todo' = todo
        BY <1>2, <1>6, <2>1 DEF Reply
    <2>4. ReplyLogged(r, m, 0)  BY <1>1, <1>2, <2>2, <2>3, ReplyWritten
    <2>5. r.reason \notin {"stop", "aborted"}  BY <1>6 DEF IsCut
    <2>6. Settled(m)'  BY <2>4, <2>5 DEF Settled, ReplyLogged
    <2> QED  BY <1>3, <1>4, <2>3, <2>4, <2>6
<1>7. CASE ~IsCut(r) /\ r.reason = "stop"
    <2>1. PICK batch : batch = <<a>> \o ToolEvents("tool-call", n)  OBVIOUS
    <2>2. ReplyBatch(batch, a, "tool-call", n)  BY <2>1, Replying
    <2>3. /\ log' = Numbered(log, batch)
          /\ pc' = IF n > 0 THEN "tools" ELSE "turnEnd"
          /\ todo' = [c \in 1..n |-> c]
        BY <1>0, <1>2, <1>7, <2>1 DEF Reply
    <2>4. ReplyLogged(r, m, 0)  BY <1>1, <1>2, <2>2, <2>3, ReplyWritten
    <2>5. todo' \in Seq(Nat) /\ Len(todo') = n  BY <2>3, CallsAreNumbered
    <2>6. CASE n > 0
        <3>1. todo' = [c \in 1..(n - 0) |-> 0 + c]  BY <2>3
        <3>2. 0 \in 0..n  OBVIOUS
        <3>3. Owed(m)'  BY <1>0, <2>4, <3>1, <3>2 DEF Owed, ReplyLogged
        <3> QED  BY <1>4, <2>3, <2>4, <2>5, <2>6, <3>3
    <2>7. CASE ~(n > 0)
        <3>1. n = 0  BY <2>7
        <3>2. Settled(m)'  BY <1>0, <2>4, <3>1 DEF Settled, ReplyLogged
        <3>3. todo' = <<>>  BY <2>5, <3>1, EmptySeq
        <3> QED  BY <1>4, <2>3, <2>4, <2>7, <3>2, <3>3
    <2> QED  BY <2>6, <2>7
<1> QED  BY <1>5, <1>6, <1>7

-----------------------------------------------------------------------------
\* The first of what is owed is the next call's, and the rest what follows it.
LEMMA NextOwed ==
    ASSUME NEW c \in Nat, NEW n \in 0..c, NEW t, t = [k \in 1..(c - n) |-> n + k], t # <<>>
    PROVE  /\ n < c
           /\ Head(t) = n + 1
           /\ Tail(t) = [k \in 1..(c - (n + 1)) |-> (n + 1) + k]
<1>1. c - n \in Nat  OBVIOUS
<1>2. t \in Seq(Nat)
    <2>1. \A k \in 1..(c - n) : n + k \in Nat  OBVIOUS
    <2> QED  BY <1>1, <2>1, IsASeq
<1>3. DOMAIN t = 1..(c - n)  OBVIOUS
<1>4. Len(t) = c - n  BY <1>1, <1>2, <1>3, LenProperties
<1>5. c - n > 0  BY <1>1, <1>2, <1>4, EmptySeq
<1>6. Head(t) = n + 1
    <2>1. Head(t) = t[1]  BY <1>2
    <2> QED  BY <1>5, <2>1
<1> DEFINE u == [k \in 1..(c - (n + 1)) |-> (n + 1) + k]
<1>7. u \in Seq(Nat) /\ Len(u) = c - (n + 1)
    <2>1. c - (n + 1) \in Nat  BY <1>5
    <2>2. \A k \in 1..(c - (n + 1)) : (n + 1) + k \in Nat  OBVIOUS
    <2>3. u \in Seq(Nat)  BY <2>1, <2>2, IsASeq
    <2>4. DOMAIN u = 1..(c - (n + 1))  OBVIOUS
    <2> DEFINE rest == c - (n + 1)
    <2>5. rest \in Nat /\ DOMAIN u = 1..rest  BY <2>1, <2>4
    <2> HIDE DEF u, rest
    <2>6. Len(u) = rest  BY <2>3, <2>5, LenProperties
    <2> QED  BY <2>3, <2>6 DEF rest
<1>8. /\ Tail(t) \in Seq(Nat) /\ Len(Tail(t)) = Len(t) - 1
      /\ \A k \in 1..Len(Tail(t)) : Tail(t)[k] = t[k + 1]
    BY <1>2, HeadTailProperties
<1>9. \A k \in 1..Len(Tail(t)) : Tail(t)[k] = u[k]
    <2> TAKE k \in 1..Len(Tail(t))
    <2>1. k \in 1..(c - (n + 1)) /\ k + 1 \in 1..(c - n)  BY <1>4, <1>8
    <2>2. t[k + 1] = n + (k + 1) /\ u[k] = (n + 1) + k  BY <2>1
    <2> QED  BY <1>8, <2>2
<1>10. Tail(t) = u
    <2> HIDE DEF u
    <2>1. Len(Tail(t)) = Len(u)  BY <1>4, <1>5, <1>7, <1>8
    <2> QED  BY <1>7, <1>8, <1>9, <2>1, SeqEqual
<1>11. n < c  BY <1>5
<1> QED  BY <1>6, <1>10, <1>11
\* One result more for the last reply, and no other reply's results change.
LEMMA ResultWritten ==
    ASSUME Logged, NEW id \in Nat, NEW batch, batch = <<[type |-> "tool-result", data |-> [callId |-> id]]>>,
           log' = Numbered(log, batch), NEW i \in 1..Len(log), LastReply(i)
    PROVE  /\ Logged'
           /\ Len(log') = Len(log) + 1
           /\ \A j \in 1..Len(log) : log'[j] = log[j]
           /\ \A j \in 1..Len(log') : IsReply(j)' => j \in 1..Len(log) /\ IsReply(j)
           /\ \A n \in Nat : Answered(i, n) /\ id = n + 1 => Answered(i, n + 1)'
           /\ \A j \in 1..Len(log) : IsReply(j) /\ j # i =>
                ~LastReply(j) /\ ~LastReply(j)' /\ \A n : Answered(j, n) => Answered(j, n)'
           /\ LastReply(i)'
<1>1. Grows(batch) /\ Len(batch) = 1
    <2>1. batch \in Seq({batch[1]}) /\ Len(batch) = 1  OBVIOUS
    <2> QED  BY <2>1, WritingGrows
<1>2. Len(log) \in Nat  BY LogHasLength
<1>3. PICK m \in Nat : m = Len(log) + 1  BY <1>2
<1>4. Len(log') = m /\ \A j \in 1..Len(log) : log'[j] = log[j]  BY <1>1, <1>3 DEF Grows
<1>5. log'[m].type = "tool-result" /\ log'[m].data.callId = id
    <2>1. 1 \in 1..Len(batch)  BY <1>1
    <2>2. log'[m].type = batch[1].type /\ log'[m].data = batch[1].data  BY <1>1, <1>3, <2>1 DEF Grows
    <2>3. batch[1] = [type |-> "tool-result", data |-> [callId |-> id]]  OBVIOUS
    <2> QED  BY <2>2, <2>3
<1>6. \A j \in 1..Len(log') : j = m \/ j \in 1..Len(log)  BY <1>2, <1>3, <1>4
<1>7. \A j \in 1..Len(log') : IsReply(j)' => j \in 1..Len(log) /\ IsReply(j)
    BY <1>4, <1>5, <1>6 DEF IsReply
<1>8. IsReply(i) /\ \A k \in (i + 1)..Len(log) : log[k].type # "assistant"  BY DEF LastReply
<1>9. LastReply(i)'
    <2>1. i \in 1..Len(log')  BY <1>2, <1>3, <1>4
    <2>2. \A k \in (i + 1)..Len(log') : k = m \/ (k \in (i + 1)..Len(log) /\ k \in 1..Len(log))  BY <1>2, <1>3, <1>4
    <2>3. \A k \in (i + 1)..Len(log') : log'[k].type # "assistant"  BY <1>4, <1>5, <1>8, <2>2
    <2> QED  BY <1>4, <1>8, <2>1, <2>3 DEF LastReply, IsReply
<1>10. ResultsOf(i)' = ResultsOf(i) \cup {m}
    <2>1. \A k \in (i + 1)..Len(log') : log'[k].type # "assistant"  BY <1>9 DEF LastReply
    <2>2. \A j \in (i + 1)..Len(log') : j = m \/ (j \in (i + 1)..Len(log) /\ j \in 1..Len(log))  BY <1>2, <1>3, <1>4
    <2>3. m \in (i + 1)..Len(log')  BY <1>2, <1>3, <1>4
    <2>4. \A j \in (i + 1)..Len(log) : j \in (i + 1)..Len(log') /\ j \in 1..Len(log)  BY <1>2, <1>3, <1>4
    <2>5. \A j \in (i + 1)..Len(log) : \A k \in (i + 1)..j : k \in (i + 1)..Len(log)  BY <1>2
    <2>6. \A j \in (i + 1)..Len(log') : \A k \in (i + 1)..j : k \in (i + 1)..Len(log')  BY <1>2, <1>3, <1>4
    <2>7. ResultsOf(i) = {j \in (i + 1)..Len(log) : log[j].type = "tool-result"}  BY <1>8, <2>5 DEF ResultsOf
    <2>8. ResultsOf(i)' = {j \in (i + 1)..Len(log') : log'[j].type = "tool-result"}  BY <2>1, <2>6 DEF ResultsOf
    <2> QED  BY <1>4, <1>5, <2>2, <2>3, <2>4, <2>7, <2>8
<1>11. \A j \in ResultsOf(i) : j \in 1..Len(log) /\ log'[j] = log[j] /\ j < m
    <2>1. \A j \in ResultsOf(i) : j \in (i + 1)..Len(log)  BY DEF ResultsOf
    <2> QED  BY <1>2, <1>3, <1>4, <2>1
<1>12. ASSUME NEW n \in Nat, Answered(i, n), id = n + 1
       PROVE  Answered(i, n + 1)'
    <2>1. {log[j].data.callId : j \in ResultsOf(i)} = 1..n  BY <1>12 DEF Answered
    <2>2. {log'[j].data.callId : j \in ResultsOf(i)} = 1..n  BY <1>11, <2>1
    <2>3. {log'[j].data.callId : j \in ResultsOf(i) \cup {m}} = 1..n \cup {n + 1}  BY <1>5, <1>12, <2>2
    <2>4. 1..n \cup {n + 1} = 1..(n + 1)  OBVIOUS
    <2>5. \A j \in ResultsOf(i) : log'[j].data.callId \in 1..n  BY <2>2
    <2>6. \A j, k \in ResultsOf(i) : j < k => log'[j].data.callId < log'[k].data.callId
        BY <1>11, <1>12 DEF Answered
    <2>7. \A j, k \in ResultsOf(i) \cup {m} : j < k => log'[j].data.callId < log'[k].data.callId
        <3> SUFFICES ASSUME NEW j \in ResultsOf(i) \cup {m}, NEW k \in ResultsOf(i) \cup {m}, j < k
                     PROVE  log'[j].data.callId < log'[k].data.callId
            OBVIOUS
        <3>1. CASE k = m
            <4>1. j \in ResultsOf(i)  BY <1>2, <1>3, <3>1
            <4>2. log'[j].data.callId \in 1..n  BY <2>5, <4>1
            <4> QED  BY <1>5, <1>12, <3>1, <4>2
        <3>2. CASE k \in ResultsOf(i)
            <4>1. j \in ResultsOf(i)
                <5>1. j \in 1..m /\ k \in 1..m /\ k < m  BY <1>2, <1>3, <1>11, <3>2
                <5> QED  BY <5>1
            <4> QED  BY <2>6, <3>2, <4>1
        <3> QED  BY <3>1, <3>2
    <2> QED  BY <1>10, <2>3, <2>4, <2>7 DEF Answered
<1>13. ASSUME NEW j \in 1..Len(log), IsReply(j), j # i
       PROVE  ~LastReply(j) /\ ~LastReply(j)' /\ \A n : Answered(j, n) => Answered(j, n)'
    <2>1. j < i
        <3>1. ~(j \in (i + 1)..Len(log))  BY <1>8, <1>13 DEF IsReply
        <3> QED  BY <1>2, <1>13, <3>1
    <2>2. i \in (j + 1)..Len(log) /\ i \in (j + 1)..Len(log')  BY <1>2, <1>3, <1>4, <2>1
    <2>3. log[i].type = "assistant" /\ log'[i].type = "assistant"  BY <1>4, <1>8 DEF IsReply
    <2>4. ~LastReply(j) /\ ~LastReply(j)'  BY <2>2, <2>3 DEF LastReply
    <2>5. ResultsOf(j)' = ResultsOf(j)
        <3>1. \A k \in (j + 1)..Len(log) : k \in (j + 1)..Len(log') /\ k \in 1..Len(log)  BY <1>2, <1>3, <1>4
        <3>2. \A k \in (j + 1)..Len(log) : \A l \in (j + 1)..k : l \in 1..Len(log)  BY <1>2
        <3>3. \A k \in (j + 1)..Len(log') : k \in (j + 1)..Len(log) \/ i \in (j + 1)..k
            BY <1>2, <1>3, <1>4, <2>1
        <3>4. ASSUME NEW k \in (j + 1)..Len(log)
              PROVE  k \in ResultsOf(j)' <=> k \in ResultsOf(j)
            <4>1. log'[k] = log[k] /\ \A l \in (j + 1)..k : log'[l] = log[l]  BY <1>4, <3>1, <3>2
            <4> QED  BY <3>1, <4>1 DEF ResultsOf
        <3>5. \A k \in ResultsOf(j)' : k \in (j + 1)..Len(log)  BY <2>3, <3>3 DEF ResultsOf
        <3>6. \A k \in ResultsOf(j) : k \in (j + 1)..Len(log)  BY DEF ResultsOf
        <3> QED  BY <3>4, <3>5, <3>6
    <2>6. \A k \in ResultsOf(j) : log'[k] = log[k]
        <3>1. \A k \in ResultsOf(j) : k \in 1..Len(log)  BY <1>2 DEF ResultsOf
        <3> QED  BY <1>4, <3>1
    <2>7. ASSUME NEW n, Answered(j, n)
          PROVE  Answered(j, n)'
        <3>1. {log'[k].data.callId : k \in ResultsOf(j)} = {log[k].data.callId : k \in ResultsOf(j)}  BY <2>6
        <3> QED  BY <2>5, <2>6, <2>7, <3>1 DEF Answered
    <2> QED  BY <2>4, <2>7
<1> QED  BY <1>1, <1>3, <1>4, <1>7, <1>9, <1>12, <1>13 DEF Grows

\* runTools' second loop: what is owed gets one shorter, or nothing is owed any more.
LEMMA AppendResultReplies ==
    ASSUME Logged, Replies, AppendResult
    PROVE  Logged' /\ Replies'
<1>1. pc = "tools" /\ restarts' = restarts  BY DEF AppendResult
<1>2. PICK i \in 1..Len(log) : LastReply(i)  BY <1>1 DEF Replies
<1>3. IsReply(i)  BY <1>2 DEF LastReply
<1>4. todo # <<>> /\ Owed(i) /\ \E c \in Nat : log[i].data.calls = [k \in 1..c |-> k]
    BY <1>1, <1>2, <1>3 DEF Replies
<1>5. PICK c \in Nat : log[i].data.calls = [k \in 1..c |-> k]  BY <1>4
<1>6. CallsOf(i) = c  BY <1>5, CallsAreNumbered DEF CallsOf
<1>7. PICK n \in 0..c : Answered(i, n) /\ todo = [k \in 1..(c - n) |-> n + k]  BY <1>4, <1>6 DEF Owed
<1>8. n < c /\ Head(todo) = n + 1 /\ Tail(todo) = [k \in 1..(c - (n + 1)) |-> (n + 1) + k]
    BY <1>4, <1>7, NextOwed
<1>9. PICK id \in Nat : id = n + 1  OBVIOUS
<1>10. PICK batch : batch = <<[type |-> "tool-result", data |-> [callId |-> id]]>>  OBVIOUS
<1>11. /\ log' = Numbered(log, batch)
       /\ todo' = Tail(todo)
       /\ pc' = IF Tail(todo) = <<>> THEN "turnEnd" ELSE "tools"
    BY <1>8, <1>9, <1>10 DEF AppendResult
<1>12. /\ Logged'
       /\ Len(log') = Len(log) + 1
       /\ \A j \in 1..Len(log) : log'[j] = log[j]
       /\ \A j \in 1..Len(log') : IsReply(j)' => j \in 1..Len(log) /\ IsReply(j)
       /\ \A k \in Nat : Answered(i, k) /\ id = k + 1 => Answered(i, k + 1)'
       /\ \A j \in 1..Len(log) : IsReply(j) /\ j # i =>
            ~LastReply(j) /\ ~LastReply(j)' /\ \A k : Answered(j, k) => Answered(j, k)'
       /\ LastReply(i)'
    BY <1>2, <1>10, <1>11, ResultWritten
<1>13. CallsOf(i)' = c /\ log'[i].data.calls = [k \in 1..c |-> k]  BY <1>5, <1>6, <1>12 DEF CallsOf
<1>14. Answered(i, n + 1)'  BY <1>7, <1>9, <1>12
<1>15. IF pc' = "tools" THEN Owed(i)' /\ todo' # <<>> ELSE Settled(i)' /\ todo' = <<>>
    <2>1. CASE Tail(todo) = <<>>
        <3>1. c - (n + 1) = 0
            <4>1. \A k \in 1..(c - (n + 1)) : (n + 1) + k \in Nat  BY <1>8
            <4>2. c - (n + 1) \in Nat  BY <1>8
            <4>3. DOMAIN Tail(todo) = 1..(c - (n + 1))  BY <1>8
            <4>4. DOMAIN Tail(todo) = {}  BY <2>1
            <4>5. 1 \notin 1..(c - (n + 1))  BY <4>3, <4>4
            <4> QED  BY <4>2, <4>5
        <3>2. n + 1 = c  BY <3>1, <1>8
        <3> QED  BY <1>11, <1>13, <1>14, <2>1, <3>2 DEF Settled
    <2>2. CASE Tail(todo) # <<>>
        <3>1. n + 1 \in 0..c  BY <1>8
        <3> QED  BY <1>8, <1>11, <1>13, <1>14, <2>2, <3>1 DEF Owed
    <2> QED  BY <2>1, <2>2
<1>16. ASSUME NEW j \in 1..Len(log'), IsReply(j)'
       PROVE  /\ \E l \in Nat : log'[j].data.calls = [k \in 1..l |-> k]
              /\ IF pc' = "tools" /\ LastReply(j)' THEN Owed(j)' ELSE Settled(j)'
    <2>1. CASE j = i  BY <1>12, <1>13, <1>15, <2>1
    <2>2. CASE j # i
        <3>1. j \in 1..Len(log) /\ IsReply(j)  BY <1>12, <1>16
        <3>2. ~LastReply(j) /\ ~LastReply(j)' /\ log'[j] = log[j] /\ \A k : Answered(j, k) => Answered(j, k)'
            BY <1>12, <2>2, <3>1
        <3>3. Settled(j) /\ \E l \in Nat : log[j].data.calls = [k \in 1..l |-> k]  BY <3>1, <3>2 DEF Replies
        <3>4. CallsOf(j)' = CallsOf(j)  BY <3>2 DEF CallsOf
        <3>5. Settled(j)'  BY <1>1, <3>2, <3>3, <3>4 DEF Settled
        <3> QED  BY <3>2, <3>3, <3>5
    <2> QED  BY <2>1, <2>2
<1>17. i \in 1..Len(log')  BY <1>12, LogHasLength
<1> QED  BY <1>12, <1>15, <1>16, <1>17 DEF Replies

\* The host dies: whatever was owed stays unanswered, and the results there are stay in order.
LEMMA RestartReplies ==
    ASSUME Logged, Replies, Restart, restarts \in Nat
    PROVE  Logged' /\ Replies'
<1>1. log' = log /\ todo' = <<>> /\ pc' = "none" /\ restarts' > 0  BY DEF Restart
<1>2. Logged'  BY <1>1 DEF Logged
<1>3. ASSUME NEW i \in 1..Len(log'), IsReply(i)'
      PROVE  (\E l \in Nat : log'[i].data.calls = [k \in 1..l |-> k]) /\ Settled(i)'
    <2>1. i \in 1..Len(log) /\ IsReply(i)  BY <1>1, <1>3 DEF IsReply
    <2>2. PICK c \in Nat : log[i].data.calls = [k \in 1..c |-> k]  BY <2>1 DEF Replies
    <2>3. CallsOf(i) = c /\ CallsOf(i)' = c  BY <1>1, <2>2, CallsAreNumbered DEF CallsOf
    <2>4. ResultsOf(i)' = ResultsOf(i)  BY <1>1 DEF ResultsOf
    <2>5. \A n : Answered(i, n) => Answered(i, n)'  BY <1>1, <2>4 DEF Answered
    <2>6. Owed(i) \/ Settled(i)  BY <2>1 DEF Replies
    <2>7. \E n \in 0..c : Answered(i, n)
        <3>1. 0 \in 0..c /\ c \in 0..c  OBVIOUS
        <3> QED  BY <2>3, <2>6, <3>1 DEF Owed, Settled
    <2>8. Settled(i)'  BY <1>1, <2>3, <2>5, <2>7 DEF Settled
    <2> QED  BY <1>1, <2>2, <2>8
<1> QED  BY <1>1, <1>2, <1>3 DEF Replies

-----------------------------------------------------------------------------
\* What a step does to the log and to what is owed, by kind.  Every action is of one of these kinds.
KeepsTools == (pc' = "tools") <=> (pc = "tools")
QueuesKeptOrDropped == steer' \in {steer, <<>>} /\ followUp' \in {followUp, <<>>} /\ sent' = sent

LogsNothing == UNCHANGED <<log, todo, restarts>> /\ KeepsTools /\ QueuesKeptOrDropped
LogsNote    == /\ \E e : e.type \in {"compaction", "rewind"} /\ log' = Numbered(log, <<e>>)
               /\ UNCHANGED <<todo, restarts, queues, sent>> /\ KeepsTools
Delivers    == /\ \/ DeliverSteer \/ DeliverFollowUp
               /\ ~aborted /\ UNCHANGED <<todo, restarts, sent>> /\ KeepsTools
LogsReply   == /\ pc # "tools"
               /\ \E r : /\ r.calls \in Nat /\ r.reason \in {"stop", "error", "context-length", "aborted"}
                         /\ run.late => ~r.text
                         /\ Reply(r)
               /\ UNCHANGED <<queues, sent, restarts>>

\* The top of the loop ends at one of three awaits.
LEMMA TurnsAreEntered ==
    ASSUME NEW turn, EnterTurn(turn)
    PROVE  pc' \in {"flushing", "compacting", "preparing"}
BY DEF EnterTurn

\* What a model call comes back with has a number of calls and one of four reasons.
LEMMA ResponsesAre ==
    ASSUME NEW r \in Responses
    PROVE  /\ r.calls \in Nat /\ r.reason \in {"stop", "error", "context-length", "aborted"}
           /\ run.late => ~r.text
BY BoundsAssumption DEF Responses

\* A compaction is a note.
LEMMA CompactionIsANote ==
    ASSUME NEW c
    PROVE  Compaction(c).type \in {"compaction", "rewind"}
BY DEF Compaction

\* One case for each action.
LEMMA StepKinds ==
    ASSUME [Next]_vars
    PROVE  LogsNothing \/ LogsNote \/ Delivers \/ LogsReply \/ AppendResult \/ Restart
             \/ StartRun \/ Steer \/ FollowUp
<1> USE DEF KeepsTools, QueuesKeptOrDropped
<1>1. CASE BeginLoop
    <2>1. pc' \in {"flushing", "compacting", "preparing"}  BY <1>1, TurnsAreEntered DEF BeginLoop
    <2> QED  BY <1>1, <2>1 DEF BeginLoop, LogsNothing, queues
<1>2. CASE Compacted
    <2>1. CASE log' = Numbered(log, <<Compaction(summary)>>)
        <3>1. Compaction(summary).type \in {"compaction", "rewind"}  BY CompactionIsANote
        <3> QED  BY <1>2, <2>1, <3>1 DEF Compacted, LogsNote
    <2>2. CASE UNCHANGED log  BY <1>2, <2>2 DEF Compacted, LogsNothing, queues
    <2> QED  BY <1>2, <2>1, <2>2 DEF Compacted
<1>3. CASE CallModel  BY <1>3 DEF CallModel, LogsNothing, queues
<1>4. CASE ModelReplies
    <2>1. PICK r \in Responses :
            \/ /\ r.reason = "context-length" /\ ~run.retried
               /\ pc' = "retrying" /\ UNCHANGED <<log, todo>>
            \/ Reply(r)
        BY <1>4 DEF ModelReplies
    <2>2. CASE pc' = "retrying" /\ UNCHANGED <<log, todo>>
        BY <1>4, <2>2 DEF ModelReplies, LogsNothing, queues
    <2>3. CASE Reply(r)
        <3>1. /\ r.calls \in Nat /\ r.reason \in {"stop", "error", "context-length", "aborted"}
              /\ run.late => ~r.text
            BY ResponsesAre
        <3> QED  BY <1>4, <2>3, <3>1 DEF ModelReplies, LogsReply, queues
    <2> QED  BY <2>1, <2>2, <2>3
<1>5. CASE Retried
    <2>1. CASE log' = Numbered(log, <<Compaction(summary)>>) /\ pc' \in {"flushing", "preparing"} /\ UNCHANGED todo
        <3>1. Compaction(summary).type \in {"compaction", "rewind"}  BY CompactionIsANote
        <3> QED  BY <1>5, <2>1, <3>1 DEF Retried, LogsNote
    <2>2. CASE Reply([reason |-> "error", text |-> FALSE, calls |-> 0, large |-> FALSE])
        <3>1. PICK r : r = [reason |-> "error", text |-> FALSE, calls |-> 0, large |-> FALSE]  OBVIOUS
        <3>2. r.calls \in Nat /\ r.reason \in {"stop", "error", "context-length", "aborted"} /\ ~r.text /\ Reply(r)
            BY <2>2, <3>1
        <3> QED  BY <1>5, <3>2 DEF Retried, LogsReply, queues
    <2> QED  BY <1>5, <2>1, <2>2 DEF Retried
<1>6. CASE EndTurn
    <2>1. CASE UNCHANGED <<log, queues>> /\ pc' \in {"flushing", "compacting", "preparing"}
        BY <1>6, <2>1 DEF EndTurn, LogsNothing, queues
    <2>2. CASE ~aborted /\ (DeliverSteer \/ DeliverFollowUp) /\ pc' \in {"flushing", "compacting", "preparing"}
        BY <1>6, <2>2 DEF EndTurn, Delivers
    <2> QED  BY <1>6, <2>1, <2>2, TurnsAreEntered DEF EndTurn, StopsWith
<1>7. CASE RunThrows  BY <1>7 DEF RunThrows, LogsNothing, queues
<1>8. CASE Settle  BY <1>8 DEF Settle, LogsNothing
<1>9. CASE ToolFinishes  BY <1>9 DEF ToolFinishes, LogsNothing, queues
<1>10. CASE Abort  BY <1>10 DEF Abort, LogsNothing
<1>11. CASE RequestCompaction  BY <1>11 DEF RequestCompaction, LogsNothing, queues
<1>12. CASE FinishCompaction
    <2>1. PICK c : log' = Numbered(log, <<Compaction(c)>>) \/ UNCHANGED log  BY <1>12 DEF FinishCompaction
    <2>2. Compaction(c).type \in {"compaction", "rewind"}  BY CompactionIsANote
    <2>3. CASE log' = Numbered(log, <<Compaction(c)>>)  BY <1>12, <2>2, <2>3 DEF FinishCompaction, LogsNote
    <2>4. CASE UNCHANGED log  BY <1>12, <2>4 DEF FinishCompaction, LogsNothing, queues
    <2> QED  BY <2>1, <2>3, <2>4
<1>13. CASE Rewind
    <2>1. PICK e : e.type = "rewind" /\ log' = Numbered(log, <<e>>)
        <3>1. PICK toSeq : log' = Numbered(log, <<[type |-> "rewind", data |-> [toSeq |-> toSeq]]>>)
            BY <1>13 DEF Rewind
        <3>2. [type |-> "rewind", data |-> [toSeq |-> toSeq]].type = "rewind"  OBVIOUS
        <3> QED  BY <3>1, <3>2
    <2> QED  BY <1>13, <2>1 DEF Rewind, LogsNote
<1>14. CASE UNCHANGED vars  BY <1>14 DEF vars, LogsNothing, queues
<1> QED  BY <1>1, <1>2, <1>3, <1>4, <1>5, <1>6, <1>7, <1>8, <1>9, <1>10, <1>11, <1>12, <1>13, <1>14
         DEF Next, RunStep

-----------------------------------------------------------------------------
\* One event, or the messages of a queue, as a batch.
LEMMA OneWritten ==
    ASSUME Logged, NEW e, log' = Numbered(log, <<e>>)
    PROVE  \E batch : /\ \E T : batch \in Seq(T)
                      /\ Grows(batch)
                      /\ Len(batch) = 1 /\ batch[1] = e
<1>1. PICK batch : batch = <<e>>  OBVIOUS
<1>2. batch \in Seq({e}) /\ Len(batch) = 1 /\ batch[1] = e  BY <1>1
<1>3. Grows(batch)  BY <1>1, <1>2, WritingGrows
<1> QED  BY <1>2, <1>3

\* The same of the messages of a queue.
LEMMA QueueWritten ==
    ASSUME Logged, NEW q \in Seq(Nat), log' = Numbered(log, Users(q))
    PROVE  \E batch : /\ \E T : batch \in Seq(T)
                      /\ Grows(batch)
                      /\ Len(batch) = Len(q)
                      /\ \A i \in 1..Len(q) : batch[i].type = "user" /\ batch[i].data.of = q[i]
<1>1. PICK batch : batch = Users(q)  OBVIOUS
<1>2. /\ \E T : batch \in Seq(T)
      /\ Len(batch) = Len(q)
      /\ \A i \in 1..Len(q) : batch[i] = [type |-> "user", data |-> [of |-> q[i]]]
    BY <1>1, Delivering
<1>3. Grows(batch)  BY <1>1, <1>2, WritingGrows
<1>4. \A i \in 1..Len(q) : batch[i].type = "user" /\ batch[i].data.of = q[i]
    <2> TAKE i \in 1..Len(q)
    <2>1. batch[i] = [type |-> "user", data |-> [of |-> q[i]]]  BY <1>2
    <2> QED  BY <2>1
<1> QED  BY <1>2, <1>3, <1>4

\* And of a reply: with its tools' results, which is all an aborted run adds, or with their calls.
LEMMA ReplyIsWritten ==
    ASSUME Logged, NEW r, r.calls \in Nat, Reply(r)
    PROVE  \E batch : /\ \E T : batch \in Seq(T)
                      /\ Grows(batch)
                      /\ \A i \in 1..Len(batch) : batch[i].type \in {"assistant", "tool-call", "tool-result"}
                      /\ \A i \in 1..Len(batch) : batch[i].type = "assistant" => batch[i].data.text = r.text
                      /\ aborted => \A i \in 1..Len(batch) : batch[i].type \in {"assistant", "tool-result"}
<1>0. PICK n \in Nat : n = r.calls  OBVIOUS
<1>1. PICK a : a = Assistant(r)  OBVIOUS
<1>2. a.type = "assistant" /\ a.data.text = r.text  BY <1>1, PartsOfReply
<1>3. ASSUME NEW batch, NEW type \in {"tool-call", "tool-result"}, NEW k \in Nat,
             ReplyBatch(batch, a, type, k), log' = Numbered(log, batch)
      PROVE  /\ \E T : batch \in Seq(T)
             /\ Grows(batch)
             /\ \A i \in 1..Len(batch) : batch[i].type \in {"assistant", type}
             /\ \A i \in 1..Len(batch) : batch[i].type = "assistant" => batch[i].data.text = r.text
    <2>1. /\ \E T : batch \in Seq(T)
          /\ Len(batch) = k + 1 /\ batch[1] = a
          /\ \A i \in 1..k : batch[i + 1] = [type |-> type, data |-> [callId |-> i]]
        BY <1>3 DEF ReplyBatch
    <2>2. Grows(batch)  BY <1>3, <2>1, WritingGrows
    <2>3. ASSUME NEW i \in 1..Len(batch), i # 1
          PROVE  batch[i].type = type
        <3>1. i - 1 \in 1..k /\ (i - 1) + 1 = i  BY <2>1, <2>3
        <3>2. batch[i] = [type |-> type, data |-> [callId |-> i - 1]]  BY <2>1, <3>1
        <3> QED  BY <3>2
    <2> QED  BY <1>2, <2>1, <2>2, <2>3
<1>4. CASE IsCut(r)
    <2>1. PICK batch : batch = <<a>> \o ToolEvents("tool-result", n)  OBVIOUS
    <2>2. ReplyBatch(batch, a, "tool-result", n)  BY <2>1, Replying
    <2>3. log' = Numbered(log, batch)  BY <1>0, <1>1, <1>4, <2>1 DEF Reply
    <2> QED  BY <1>3, <2>2, <2>3
<1>5. CASE ~IsCut(r) /\ r.reason # "stop"
    <2>1. PICK batch : batch = <<a>>  OBVIOUS
    <2>2. ReplyBatch(batch, a, "tool-result", 0)
        <3>1. batch \in Seq({a}) /\ Len(batch) = 1 /\ batch[1] = a  BY <2>1
        <3> QED  BY <3>1 DEF ReplyBatch
    <2>3. log' = Numbered(log, batch)  BY <1>1, <1>5, <2>1 DEF Reply
    <2> QED  BY <1>3, <2>2, <2>3
<1>6. CASE ~IsCut(r) /\ r.reason = "stop"
    <2>1. PICK batch : batch = <<a>> \o ToolEvents("tool-call", n)  OBVIOUS
    <2>2. ReplyBatch(batch, a, "tool-call", n)  BY <2>1, Replying
    <2>3. log' = Numbered(log, batch)  BY <1>0, <1>1, <1>6, <2>1 DEF Reply
    <2>4. ~aborted  BY <1>6 DEF IsCut
    <2> QED  BY <1>3, <2>2, <2>3, <2>4
<1> QED  BY <1>4, <1>5, <1>6

-----------------------------------------------------------------------------
\* Where the messages are: each was accepted, and is queued once or logged once.
UsersOnce ==
    \A i, j \in 1..Len(log) :
      log[i].type = "user" /\ log[j].type = "user" /\ i # j => log[i].data.of # log[j].data.of
Injective(q) == \A i, j \in 1..Len(q) : q[i] = q[j] => i = j

Queues ==
    /\ sent \in Nat /\ restarts \in Nat
    /\ steer \in Seq(1..sent) /\ Injective(steer)
    /\ followUp \in Seq(1..sent) /\ Injective(followUp)
    /\ Delivered \subseteq 1..sent
    /\ DeliveredOnce

\* The elements of a sequence.
LEMMA ToSetOfSeq ==
    ASSUME NEW S, NEW q \in Seq(S)
    PROVE  ToSet(q) = {q[i] : i \in 1..Len(q)} /\ ToSet(q) \subseteq S
<1>1. DOMAIN q = 1..Len(q)  BY LenProperties
<1>2. \A i \in 1..Len(q) : q[i] \in S  BY ElementOfSeq
<1> QED  BY <1>1, <1>2 DEF ToSet

\* The empty queue has none.
LEMMA ToSetOfEmpty == ToSet(<<>>) = {}
BY DEF ToSet

\* A batch whose messages are new and distinct is logged once, and nothing else becomes delivered.
LEMMA UsersWritten ==
    ASSUME Logged, UsersOnce, NEW T, NEW batch \in Seq(T), Grows(batch), NEW U, Delivered \cap U = {},
           \A b \in 1..Len(batch) : batch[b].type = "user" => batch[b].data.of \in U,
           \A b, c \in 1..Len(batch) :
             batch[b].type = "user" /\ batch[c].type = "user" /\ b # c => batch[b].data.of # batch[c].data.of
    PROVE  UsersOnce' /\ Delivered' \subseteq Delivered \cup U
<1>1. Len(log) \in Nat /\ Len(batch) \in Nat  BY LogHasLength
<1>2. Len(log') = Len(log) + Len(batch) /\ \A j \in 1..Len(log) : log'[j] = log[j]  BY DEF Grows
<1>3. \A j \in 1..Len(log') : j \in 1..Len(log) \/ (j - Len(log) \in 1..Len(batch) /\ Len(log) + (j - Len(log)) = j)
    BY <1>1, <1>2
<1>4. \A j \in 1..Len(log') : j - Len(log) \in 1..Len(batch) =>
        log'[j].type = batch[j - Len(log)].type /\ log'[j].data = batch[j - Len(log)].data
    <2> TAKE j \in 1..Len(log')
    <2> HAVE j - Len(log) \in 1..Len(batch)
    <2>1. Len(log) + (j - Len(log)) = j  BY <1>1
    <2> QED  BY <2>1 DEF Grows
<1>5. \A j \in 1..Len(log) : log[j].type = "user" => log[j].data.of \in Delivered  BY DEF Delivered
<1>6. \A j \in 1..Len(log') : log'[j].type = "user" /\ j \notin 1..Len(log) => log'[j].data.of \in U
    BY <1>3, <1>4
<1>7. ASSUME NEW i \in 1..Len(log'), NEW j \in 1..Len(log'),
             log'[i].type = "user", log'[j].type = "user", i # j
      PROVE  log'[i].data.of # log'[j].data.of
    <2>1. CASE i \in 1..Len(log) /\ j \in 1..Len(log)  BY <1>2, <1>7, <2>1 DEF UsersOnce
    <2>2. CASE i \in 1..Len(log) /\ j \notin 1..Len(log)  BY <1>2, <1>5, <1>6, <1>7, <2>2
    <2>3. CASE i \notin 1..Len(log) /\ j \in 1..Len(log)  BY <1>2, <1>5, <1>6, <1>7, <2>3
    <2>4. CASE i \notin 1..Len(log) /\ j \notin 1..Len(log)
        <3>1. i - Len(log) \in 1..Len(batch) /\ j - Len(log) \in 1..Len(batch)  BY <1>3, <2>4
        <3>2. i - Len(log) # j - Len(log)  BY <1>1, <1>7
        <3>3. batch[i - Len(log)].type = "user" /\ batch[j - Len(log)].type = "user"  BY <1>4, <1>7, <3>1
        <3>4. batch[i - Len(log)].data.of # batch[j - Len(log)].data.of  BY <3>1, <3>2, <3>3
        <3> QED  BY <1>4, <3>1, <3>4
    <2> QED  BY <2>1, <2>2, <2>3, <2>4
<1>8. \A j \in 1..Len(log') : log'[j].type = "user" => log'[j].data.of \in Delivered \cup U
    <2> TAKE j \in 1..Len(log')
    <2>1. CASE j \in 1..Len(log)  BY <1>2, <1>5, <2>1
    <2>2. CASE j \notin 1..Len(log)  BY <1>6, <2>2
    <2> QED  BY <2>1, <2>2
<1>9. Delivered' = {log'[j].data.of : j \in {j \in 1..Len(log') : log'[j].type = "user"}}  BY DEF Delivered
<1>10. UsersOnce'  BY <1>7 DEF UsersOnce
<1> QED  BY <1>8, <1>9, <1>10

\* What a step has to see to: the messages it delivers were accepted, and are queued no longer.
LEMMA MessagesMove ==
    ASSUME Queues, NEW U, UsersOnce', Delivered' \subseteq Delivered \cup U,
           sent' \in {sent, sent + 1}, U \subseteq 1..sent', restarts' \in Nat,
           steer' \in {steer, <<>>}, followUp' \in {followUp, <<>>},
           U \cap (ToSet(steer') \cup ToSet(followUp')) = {}
    PROVE  Queues'
<1>1. sent' \in Nat /\ 1..sent \subseteq 1..sent'  BY DEF Queues
<1>2. /\ steer' \in Seq(1..sent') /\ Injective(steer') /\ ToSet(steer') \subseteq ToSet(steer)
    <2>1. CASE steer' = steer
        <3>1. steer' \in Seq(1..sent)  BY <2>1 DEF Queues
        <3> QED  BY <1>1, <2>1, <3>1, SeqMonotonic DEF Queues
    <2>2. CASE steer' = <<>>  BY <2>2, ToSetOfEmpty DEF Injective
    <2> QED  BY <2>1, <2>2
<1>3. /\ followUp' \in Seq(1..sent') /\ Injective(followUp') /\ ToSet(followUp') \subseteq ToSet(followUp)
    <2>1. CASE followUp' = followUp
        <3>1. followUp' \in Seq(1..sent)  BY <2>1 DEF Queues
        <3> QED  BY <1>1, <2>1, <3>1, SeqMonotonic DEF Queues
    <2>2. CASE followUp' = <<>>  BY <2>2, ToSetOfEmpty DEF Injective
    <2> QED  BY <2>1, <2>2
<1>4. Delivered' \subseteq 1..sent'  BY <1>1 DEF Queues
<1>5. DeliveredOnce'
    <2>1. ToSet(steer') \cap ToSet(followUp') = {}  BY <1>2, <1>3 DEF Queues, DeliveredOnce
    <2>2. Delivered' \cap (ToSet(steer') \cup ToSet(followUp')) = {}
        BY <1>2, <1>3 DEF Queues, DeliveredOnce
    <2> QED  BY <2>1, <2>2 DEF DeliveredOnce, UsersOnce
<1>6. Injective(steer)' /\ Injective(followUp)'  BY <1>2, <1>3 DEF Injective
<1> QED  BY <1>1, <1>2, <1>3, <1>4, <1>5, <1>6 DEF Queues

\* A message accepted goes to the end of its queue, and is in no other place.
LEMMA Accepted ==
    ASSUME NEW n \in Nat, NEW q \in Seq(1..n), Injective(q)
    PROVE  /\ Append(q, n + 1) \in Seq(1..(n + 1))
           /\ Injective(Append(q, n + 1))
           /\ ToSet(Append(q, n + 1)) = ToSet(q) \cup {n + 1}
<1>1. q \in Seq(1..(n + 1)) /\ n + 1 \in 1..(n + 1)
    <2>1. 1..n \subseteq 1..(n + 1)  OBVIOUS
    <2> QED  BY <2>1, SeqMonotonic
<1>2. PICK p : p = Append(q, n + 1)  OBVIOUS
<1>3. /\ p \in Seq(1..(n + 1))
      /\ Len(p) = Len(q) + 1
      /\ \A i \in 1..Len(q) : p[i] = q[i]
      /\ p[Len(q) + 1] = n + 1
    BY <1>1, <1>2, AppendProperties
<1>4. Len(q) \in Nat /\ \A i \in 1..Len(q) : q[i] \in 1..n  BY ElementOfSeq
<1>5. \A i \in 1..Len(p) : i \in 1..Len(q) \/ i = Len(q) + 1  BY <1>3, <1>4
<1>6. Injective(p)
    <2> SUFFICES ASSUME NEW i \in 1..Len(p), NEW j \in 1..Len(p), p[i] = p[j]
                 PROVE  i = j
        BY DEF Injective
    <2>1. n + 1 \notin 1..n  OBVIOUS
    <2>2. CASE i \in 1..Len(q) /\ j \in 1..Len(q)  BY <1>3, <2>2 DEF Injective
    <2>3. CASE i \in 1..Len(q) /\ j = Len(q) + 1  BY <1>3, <1>4, <2>1, <2>3
    <2>4. CASE i = Len(q) + 1 /\ j \in 1..Len(q)  BY <1>3, <1>4, <2>1, <2>4
    <2> QED  BY <1>5, <2>2, <2>3, <2>4
<1>7. ToSet(p) = {p[i] : i \in 1..Len(p)} /\ ToSet(q) = {q[i] : i \in 1..Len(q)}  BY <1>3, ToSetOfSeq
<1>8. \A i \in 1..Len(q) : i \in 1..Len(p)  BY <1>3, <1>4
<1>9. Len(q) + 1 \in 1..Len(p)  BY <1>3, <1>4
<1>10. ToSet(p) = ToSet(q) \cup {n + 1}
    <2>1. ToSet(p) \subseteq ToSet(q) \cup {n + 1}  BY <1>3, <1>5, <1>7
    <2>2. ToSet(q) \cup {n + 1} \subseteq ToSet(p)  BY <1>3, <1>7, <1>8, <1>9
    <2> QED  BY <2>1, <2>2
<1> QED  BY <1>2, <1>3, <1>6, <1>10

-----------------------------------------------------------------------------
\* A model call that was handed a raised signal is the run's last: the run ends once it is over.
RunLocals == [turn : Nat, retried : BOOLEAN, calls : BOOLEAN, stop : Outcomes, late : BOOLEAN]
LateIsLast ==
    /\ run \in RunLocals /\ aborted \in BOOLEAN
    /\ run.late => aborted /\ pc \in {"streaming", "retrying", "turnEnd", "flushing"}

\* The inductive invariant: the log is a sequence, its replies are settled or owed, its messages
\* are in one place, and the signal of a run that is over is down.
IInv ==
    /\ Logged
    /\ Replies
    /\ Queues
    /\ pc = "none" => ~aborted
    /\ LateIsLast

\* The session as session.create leaves it.
LEMMA InitInv == Init => IInv
<1> SUFFICES ASSUME Init PROVE IInv  OBVIOUS
<1>1. PICK e : e = Event("model", 1, [of |-> 1])  OBVIOUS
<1>2. log = <<e>> /\ e.type = "model"  BY <1>1 DEF Init, Event
<1>3. log \in Seq({e}) /\ Len(log) = 1 /\ log[1] = e  BY <1>2
<1>4. Logged  BY <1>3 DEF Logged
<1>5. \A i \in 1..Len(log) : log[i].type = "model"  BY <1>2, <1>3
<1>6. Replies
    <2>1. \A i \in 1..Len(log) : ~IsReply(i)  BY <1>5 DEF IsReply
    <2> QED  BY <2>1 DEF Replies, Init
<1>7. Delivered = {}  BY <1>5 DEF Delivered
<1>8. DeliveredOnce  BY <1>5, <1>7, ToSetOfEmpty DEF DeliveredOnce, Init
<1>9. Queues  BY <1>7, <1>8, EmptySeq DEF Queues, Injective, Init
<1>10. LateIsLast  BY DEF LateIsLast, RunLocals, Outcomes, NoRun, Init
<1> QED  BY <1>4, <1>6, <1>9, <1>10 DEF IInv, Init

\* A note or a delivered message says nothing of the replies.
LEMMA QuietBatchReplies ==
    ASSUME Logged, Replies, NEW batch, \E T : batch \in Seq(T), Grows(batch),
           \A i \in 1..Len(batch) : batch[i].type \in {"user", "compaction", "rewind"},
           UNCHANGED <<todo, restarts>>, KeepsTools
    PROVE  Logged' /\ Replies'
<1>1. PICK T : batch \in Seq(T)  OBVIOUS
<1>2. Quiet(batch)  BY DEF Quiet
<1>3. Replies'  BY <1>1, <1>2, QuietReplies DEF KeepsTools
<1> QED  BY <1>3 DEF Grows

\* Every kind of step keeps the replies settled or owed.
LEMMA RepliesStep == IInv /\ [Next]_vars => Logged' /\ Replies'
<1> SUFFICES ASSUME IInv, [Next]_vars PROVE Logged' /\ Replies'  OBVIOUS
<1>1. Logged /\ Replies /\ Queues  BY DEF IInv
<1>2. CASE UNCHANGED <<log, todo, restarts>> /\ KeepsTools
    <2>1. Logged'  BY <1>1, <1>2 DEF Logged
    <2> QED  BY <1>1, <1>2, <2>1, StillReplies DEF KeepsTools
<1>3. CASE LogsNothing \/ Steer \/ FollowUp  BY <1>2, <1>3 DEF LogsNothing, Steer, FollowUp, KeepsTools
<1>4. CASE LogsNote
    <2>1. PICK e : e.type \in {"compaction", "rewind"} /\ log' = Numbered(log, <<e>>)  BY <1>4 DEF LogsNote
    <2>2. PICK batch : (\E T : batch \in Seq(T)) /\ Grows(batch) /\ Len(batch) = 1 /\ batch[1] = e
        BY <1>1, <2>1, OneWritten
    <2>3. \A i \in 1..Len(batch) : batch[i].type \in {"user", "compaction", "rewind"}  BY <2>1, <2>2
    <2> QED  BY <1>1, <1>4, <2>2, <2>3, QuietBatchReplies DEF LogsNote
<1>5. ASSUME NEW q \in Seq(Nat), log' = Numbered(log, Users(q)), UNCHANGED <<todo, restarts>>, KeepsTools
      PROVE  Logged' /\ Replies'
    <2>1. PICK batch : /\ (\E T : batch \in Seq(T)) /\ Grows(batch) /\ Len(batch) = Len(q)
                       /\ \A i \in 1..Len(q) : batch[i].type = "user" /\ batch[i].data.of = q[i]
        BY <1>1, <1>5, QueueWritten
    <2>2. \A i \in 1..Len(batch) : batch[i].type \in {"user", "compaction", "rewind"}  BY <2>1
    <2> QED  BY <1>1, <1>5, <2>1, <2>2, QuietBatchReplies
<1>6. CASE Delivers
    <2>1. 1..sent \subseteq Nat  BY <1>1 DEF Queues
    <2>2. steer \in Seq(Nat) /\ followUp \in Seq(Nat)  BY <1>1, <2>1, SeqMonotonic DEF Queues
    <2> QED  BY <1>5, <1>6, <2>2 DEF Delivers, DeliverSteer, DeliverFollowUp
<1>7. CASE StartRun
    <2>1. PICK e : e = User(sent + 1)  OBVIOUS
    <2>2. e.type = "user"  BY <2>1 DEF User
    <2>3. log' = Numbered(log, <<e>>)  BY <1>7, <2>1 DEF StartRun
    <2>4. PICK batch : (\E T : batch \in Seq(T)) /\ Grows(batch) /\ Len(batch) = 1 /\ batch[1] = e
        BY <1>1, <2>3, OneWritten
    <2>5. \A i \in 1..Len(batch) : batch[i].type \in {"user", "compaction", "rewind"}  BY <2>2, <2>4
    <2>6. UNCHANGED <<todo, restarts>> /\ KeepsTools  BY <1>7 DEF StartRun, KeepsTools
    <2> QED  BY <1>1, <2>4, <2>5, <2>6, QuietBatchReplies
<1>8. CASE LogsReply  BY <1>1, <1>8, ReplyReplies DEF LogsReply
<1>9. CASE AppendResult  BY <1>1, <1>9, AppendResultReplies
<1>10. CASE Restart  BY <1>1, <1>10, RestartReplies DEF Queues
<1> QED  BY <1>3, <1>4, <1>6, <1>7, <1>8, <1>9, <1>10, StepKinds

\* A batch that brings no message leaves Queues to what becomes of the queues.
LEMMA NoMessages ==
    ASSUME Logged, Queues, NEW batch, \E T : batch \in Seq(T), Grows(batch),
           \A i \in 1..Len(batch) : batch[i].type # "user",
           QueuesKeptOrDropped, restarts' \in Nat
    PROVE  Queues'
<1>1. PICK T : batch \in Seq(T)  OBVIOUS
<1>2. UsersOnce  BY DEF Queues, DeliveredOnce, UsersOnce
<1>3. PICK U : U = {}  OBVIOUS
<1>4. UsersOnce' /\ Delivered' \subseteq Delivered \cup U
    <2>1. Delivered \cap U = {}  BY <1>3
    <2>2. \A b \in 1..Len(batch) : batch[b].type = "user" => batch[b].data.of \in U  OBVIOUS
    <2>3. \A b, c \in 1..Len(batch) :
            batch[b].type = "user" /\ batch[c].type = "user" /\ b # c => batch[b].data.of # batch[c].data.of
        OBVIOUS
    <2> QED  BY <1>1, <1>2, <2>1, <2>2, <2>3, UsersWritten
<1>5. sent' = sent /\ steer' \in {steer, <<>>} /\ followUp' \in {followUp, <<>>}  BY DEF QueuesKeptOrDropped
<1>6. U \subseteq 1..sent' /\ U \cap (ToSet(steer') \cup ToSet(followUp')) = {}  BY <1>3
<1> QED  BY <1>4, <1>5, <1>6, MessagesMove

\* Every kind of step keeps each message in one place.
LEMMA QueuesStep == IInv /\ [Next]_vars => Queues'
<1> SUFFICES ASSUME IInv, [Next]_vars PROVE Queues'  OBVIOUS
<1>1. Logged /\ Queues /\ UsersOnce  BY DEF IInv, Queues, DeliveredOnce, UsersOnce
<1>2. sent \in Nat /\ restarts \in Nat  BY <1>1 DEF Queues
<1>3. ASSUME UNCHANGED log
      PROVE  UsersOnce' /\ Delivered' = Delivered
    <2>1. UsersOnce'  BY <1>1, <1>3 DEF UsersOnce
    <2> QED  BY <1>3, <2>1 DEF Delivered
<1>4. ASSUME UNCHANGED log, QueuesKeptOrDropped, restarts' \in Nat
      PROVE  Queues'
    <2>1. PICK U : U = {}  OBVIOUS
    <2>2. UsersOnce' /\ Delivered' \subseteq Delivered \cup U  BY <1>3, <1>4
    <2>3. sent' = sent /\ steer' \in {steer, <<>>} /\ followUp' \in {followUp, <<>>}
        BY <1>4 DEF QueuesKeptOrDropped
    <2>4. U \subseteq 1..sent' /\ U \cap (ToSet(steer') \cup ToSet(followUp')) = {}  BY <2>1
    <2> QED  BY <1>1, <1>4, <2>2, <2>3, <2>4, MessagesMove
<1>5. CASE LogsNothing  BY <1>2, <1>4, <1>5 DEF LogsNothing
<1>6. CASE Restart  BY <1>2, <1>4, <1>6 DEF Restart, QueuesKeptOrDropped
<1>7. CASE LogsNote \/ AppendResult
    <2>1. PICK e : e.type # "user" /\ log' = Numbered(log, <<e>>)
        <3>1. CASE LogsNote  BY <3>1 DEF LogsNote
        <3>2. CASE AppendResult
            <4>1. PICK e : e = [type |-> "tool-result", data |-> [callId |-> Head(todo)]]  OBVIOUS
            <4>2. e.type # "user"  BY <4>1
            <4> QED  BY <3>2, <4>1, <4>2 DEF AppendResult
        <3> QED  BY <1>7, <3>1, <3>2
    <2>2. PICK batch : (\E T : batch \in Seq(T)) /\ Grows(batch) /\ Len(batch) = 1 /\ batch[1] = e
        BY <1>1, <2>1, OneWritten
    <2>3. \A i \in 1..Len(batch) : batch[i].type # "user"  BY <2>1, <2>2
    <2>4. QueuesKeptOrDropped /\ restarts' \in Nat
        BY <1>2, <1>7 DEF LogsNote, AppendResult, QueuesKeptOrDropped, queues
    <2> QED  BY <1>1, <2>2, <2>3, <2>4, NoMessages
<1>8. CASE LogsReply
    <2>1. PICK r : r.calls \in Nat /\ Reply(r)  BY <1>8 DEF LogsReply
    <2>2. PICK batch : /\ (\E T : batch \in Seq(T)) /\ Grows(batch)
                       /\ \A i \in 1..Len(batch) : batch[i].type \in {"assistant", "tool-call", "tool-result"}
        BY <1>1, <2>1, ReplyIsWritten
    <2>3. \A i \in 1..Len(batch) : batch[i].type # "user"  BY <2>2
    <2>4. QueuesKeptOrDropped /\ restarts' \in Nat  BY <1>2, <1>8 DEF LogsReply, QueuesKeptOrDropped, queues
    <2> QED  BY <1>1, <2>2, <2>3, <2>4, NoMessages
<1>9. ASSUME NEW q \in Seq(1..sent), Injective(q), ToSet(q) \cap Delivered = {},
             log' = Numbered(log, Users(q)), UNCHANGED <<restarts, sent>>,
             steer' \in {steer, <<>>}, followUp' \in {followUp, <<>>},
             ToSet(q) \cap (ToSet(steer') \cup ToSet(followUp')) = {}
      PROVE  Queues'
    <2>1. q \in Seq(Nat)
        <3>1. 1..sent \subseteq Nat  BY <1>2
        <3> QED  BY <3>1, SeqMonotonic
    <2>2. PICK batch : /\ (\E T : batch \in Seq(T)) /\ Grows(batch) /\ Len(batch) = Len(q)
                       /\ \A i \in 1..Len(q) : batch[i].type = "user" /\ batch[i].data.of = q[i]
        BY <1>1, <1>9, <2>1, QueueWritten
    <2>3. PICK T : batch \in Seq(T)  BY <2>2
    <2>4. ToSet(q) = {q[i] : i \in 1..Len(q)} /\ ToSet(q) \subseteq 1..sent  BY ToSetOfSeq
    <2>5. \A b \in 1..Len(batch) : batch[b].data.of \in ToSet(q)  BY <2>2, <2>4
    <2>6. \A b, c \in 1..Len(batch) : b # c => batch[b].data.of # batch[c].data.of
        BY <1>9, <2>2 DEF Injective
    <2>7. UsersOnce' /\ Delivered' \subseteq Delivered \cup ToSet(q)
        BY <1>1, <1>9, <2>2, <2>3, <2>5, <2>6, UsersWritten
    <2>8. PICK U : U = ToSet(q)  OBVIOUS
    <2>9. /\ UsersOnce' /\ Delivered' \subseteq Delivered \cup U /\ U \subseteq 1..sent'
          /\ sent' \in {sent, sent + 1} /\ restarts' \in Nat
          /\ U \cap (ToSet(steer') \cup ToSet(followUp')) = {}
        BY <1>2, <1>9, <2>4, <2>7, <2>8
    <2> QED  BY <1>1, <1>9, <2>9, MessagesMove
<1>10. CASE Delivers
    <2>1. /\ steer \in Seq(1..sent) /\ Injective(steer) /\ ToSet(steer) \cap Delivered = {}
          /\ followUp \in Seq(1..sent) /\ Injective(followUp) /\ ToSet(followUp) \cap Delivered = {}
          /\ ToSet(steer) \cap ToSet(followUp) = {}
        BY <1>1 DEF Queues, DeliveredOnce
    <2>2. CASE DeliverSteer  BY <1>9, <1>10, <2>1, <2>2, ToSetOfEmpty DEF Delivers, DeliverSteer
    <2>3. CASE DeliverFollowUp  BY <1>9, <1>10, <2>1, <2>3, ToSetOfEmpty DEF Delivers, DeliverFollowUp
    <2> QED  BY <1>10, <2>2, <2>3 DEF Delivers
<1>11. CASE StartRun
    <2>1. PICK e : e = User(sent + 1)  OBVIOUS
    <2>2. e.type = "user" /\ e.data.of = sent + 1  BY <2>1 DEF User
    <2>3. log' = Numbered(log, <<e>>)  BY <1>11, <2>1 DEF StartRun
    <2>4. PICK batch : (\E T : batch \in Seq(T)) /\ Grows(batch) /\ Len(batch) = 1 /\ batch[1] = e
        BY <1>1, <2>3, OneWritten
    <2>5. PICK T : batch \in Seq(T)  BY <2>4
    <2>6. sent + 1 \notin 1..sent /\ sent + 1 \in 1..(sent + 1)  BY <1>2
    <2>7. PICK U : U = {sent + 1}  OBVIOUS
    <2>8. UsersOnce' /\ Delivered' \subseteq Delivered \cup U
        <3>1. Delivered \cap U = {}  BY <1>1, <2>6, <2>7 DEF Queues
        <3>2. \A b \in 1..Len(batch) : batch[b].type = "user" => batch[b].data.of \in U  BY <2>2, <2>4, <2>7
        <3>3. \A b, c \in 1..Len(batch) : b = c  BY <2>4
        <3> QED  BY <1>1, <2>4, <2>5, <3>1, <3>2, <3>3, UsersWritten
    <2>9. ToSet(steer) \subseteq 1..sent /\ ToSet(followUp) \subseteq 1..sent
        BY <1>1, ToSetOfSeq DEF Queues
    <2>10. steer' = steer /\ followUp' = followUp /\ sent' = sent + 1 /\ restarts' = restarts
        BY <1>11 DEF StartRun
    <2>11. U \subseteq 1..sent' /\ U \cap (ToSet(steer') \cup ToSet(followUp')) = {}
        BY <2>6, <2>7, <2>9, <2>10
    <2>12. sent' \in {sent, sent + 1} /\ steer' \in {steer, <<>>} /\ followUp' \in {followUp, <<>>} /\ restarts' \in Nat
        BY <1>2, <2>10
    <2> QED  BY <1>1, <2>8, <2>11, <2>12, MessagesMove
<1>12. CASE Steer \/ FollowUp
    <2>1. UsersOnce' /\ Delivered' = Delivered /\ restarts' = restarts /\ sent' = sent + 1
        BY <1>3, <1>12 DEF Steer, FollowUp
    <2>2. sent + 1 \notin 1..sent /\ 1..sent \subseteq 1..(sent + 1)  BY <1>2
    <2>3. sent + 1 \notin Delivered  BY <1>1, <2>2 DEF Queues
    <2>4. ToSet(steer) \subseteq 1..sent /\ ToSet(followUp) \subseteq 1..sent
        BY <1>1, ToSetOfSeq DEF Queues
    <2>5. \A q \in Seq(1..sent) : Injective(q) =>
            /\ Append(q, sent + 1) \in Seq(1..(sent + 1))
            /\ Injective(Append(q, sent + 1))
            /\ ToSet(Append(q, sent + 1)) = ToSet(q) \cup {sent + 1}
            /\ q \in Seq(1..(sent + 1))
        BY <1>2, <2>2, Accepted, SeqMonotonic
    <2>6. \/ steer' = Append(steer, sent + 1) /\ followUp' = followUp
          \/ followUp' = Append(followUp, sent + 1) /\ steer' = steer
        BY <1>12 DEF Steer, FollowUp
    <2>7. /\ steer' \in Seq(1..sent') /\ Injective(steer')
          /\ followUp' \in Seq(1..sent') /\ Injective(followUp')
          /\ ToSet(steer') \cap ToSet(followUp') = {}
          /\ ToSet(steer') \cup ToSet(followUp') = ToSet(steer) \cup ToSet(followUp) \cup {sent + 1}
        BY <1>1, <2>1, <2>2, <2>4, <2>5, <2>6 DEF Queues, DeliveredOnce
    <2>8. DeliveredOnce'
        BY <1>1, <2>1, <2>3, <2>7 DEF Queues, DeliveredOnce, UsersOnce
    <2>9. Delivered' \subseteq 1..sent'  BY <1>1, <2>1, <2>2 DEF Queues
    <2>10. Injective(steer)' /\ Injective(followUp)'  BY <2>7 DEF Injective
    <2> QED  BY <1>2, <2>1, <2>7, <2>8, <2>9, <2>10 DEF Queues
<1> QED  BY <1>5, <1>6, <1>7, <1>8, <1>10, <1>11, <1>12, StepKinds

\* The signal is raised on a run only, and a run that is over takes it with it.
LEMMA SignalStep == IInv /\ [Next]_vars => (pc = "none" => ~aborted)'
<1> SUFFICES ASSUME IInv, [Next]_vars PROVE pc' = "none" => ~aborted'  OBVIOUS
<1>1. pc = "none" => ~aborted  BY DEF IInv
<1>2. CASE RunStep
    <2>1. CASE BeginLoop  BY <2>1, TurnsAreEntered DEF BeginLoop
    <2>2. CASE Compacted \/ CallModel \/ RunThrows  BY <2>2 DEF Compacted, CallModel, RunThrows
    <2>3. CASE ModelReplies  BY <2>3 DEF ModelReplies, Reply
    <2>4. CASE Retried  BY <2>4 DEF Retried, Reply
    <2>5. CASE AppendResult  BY <2>5 DEF AppendResult
    <2>6. CASE EndTurn  BY <2>6, TurnsAreEntered DEF EndTurn, StopsWith
    <2>7. CASE Settle  BY <2>7 DEF Settle
    <2> QED  BY <1>2, <2>1, <2>2, <2>3, <2>4, <2>5, <2>6, <2>7 DEF RunStep
<1>3. CASE ToolFinishes \/ Steer \/ FollowUp \/ RequestCompaction \/ FinishCompaction \/ Rewind
    BY <1>1, <1>3 DEF ToolFinishes, Steer, FollowUp, RequestCompaction, FinishCompaction, Rewind
<1>4. CASE StartRun \/ Abort \/ Restart  BY <1>4 DEF StartRun, Abort, Restart
<1>5. CASE UNCHANGED vars  BY <1>1, <1>5 DEF vars
<1> QED  BY <1>2, <1>3, <1>4, <1>5 DEF Next

\* The top of the loop: a turn is begun if the signal is not raised, and the run ends if it is.
LEMMA TurnIsTyped ==
    ASSUME run \in RunLocals, NEW turn \in Nat, EnterTurn(turn)
    PROVE  /\ run' \in RunLocals /\ run'.late = run.late
           /\ pc' \in {"compacting", "preparing", "flushing"}
           /\ aborted => pc' = "flushing"
BY DEF EnterTurn, RunLocals, Outcomes

\* A reply that is cut has no tools run.
LEMMA ReplyIsTyped ==
    ASSUME run \in RunLocals, NEW r, r.calls \in Nat, Reply(r)
    PROVE  /\ run' \in RunLocals /\ run'.late = run.late
           /\ pc' \in {"turnEnd", "tools"}
           /\ aborted => pc' = "turnEnd"
<1>1. CASE IsCut(r)  BY <1>1 DEF Reply, RunLocals, Outcomes
<1>2. CASE ~IsCut(r)
    <2>1. ~aborted  BY <1>2 DEF IsCut
    <2>2. (r.calls > 0) \in BOOLEAN  OBVIOUS
    <2> QED  BY <1>2, <2>1, <2>2 DEF Reply, RunLocals, Outcomes
<1> QED  BY <1>1, <1>2

\* What a step does to the run's locals, and what it may start once the signal is raised.
LEMMA RunMoves ==
    ASSUME LateIsLast, [Next]_vars
    PROVE  LateIsLast' /\ (aborted => BeginsNoTurn /\ AsksNothing)
<1> USE DEF LateIsLast, BeginsNoTurn, AsksNothing
<1>1. CASE BeginLoop
    <2>1. EnterTurn(1) /\ pc = "starting" /\ aborted' = aborted  BY <1>1 DEF BeginLoop
    <2> QED  BY <2>1, TurnIsTyped
<1>2. CASE Compacted  BY <1>2 DEF Compacted
<1>3. CASE CallModel
    <2>1. pc = "preparing" /\ pc' = "streaming" /\ aborted' = aborted /\ run' = [run EXCEPT !.late = aborted]
        BY <1>3 DEF CallModel
    <2>2. ~run.late  BY <2>1
    <2>3. run' \in RunLocals /\ run'.late = aborted  BY <2>1 DEF RunLocals
    <2> QED  BY <2>1, <2>2, <2>3
<1>4. CASE ModelReplies
    <2>1. pc = "streaming" /\ aborted' = aborted  BY <1>4 DEF ModelReplies
    <2>2. PICK r \in Responses :
            \/ /\ r.reason = "context-length"
               /\ run' = [run EXCEPT !.retried = TRUE, !.late = aborted]
               /\ pc' = "retrying"
            \/ Reply(r)
        BY <1>4 DEF ModelReplies
    <2>3. CASE Reply(r)
        <3>1. r.calls \in Nat  BY ResponsesAre
        <3> QED  BY <2>1, <2>3, <3>1, ReplyIsTyped
    <2>4. CASE r.reason = "context-length" /\ run' = [run EXCEPT !.retried = TRUE, !.late = aborted] /\ pc' = "retrying"
        <3>1. ~run.late  BY <2>4 DEF Responses
        <3>2. run' \in RunLocals /\ run'.late = aborted  BY <2>4 DEF RunLocals
        <3> QED  BY <2>1, <2>4, <3>1, <3>2
    <2> QED  BY <2>2, <2>3, <2>4
<1>5. CASE Retried
    <2>1. pc = "retrying" /\ aborted' = aborted  BY <1>5 DEF Retried
    <2>2. CASE aborted /\ ~run.late /\ pc' = "flushing" /\ run' = [run EXCEPT !.stop = "aborted"]
        <3>1. run' \in RunLocals /\ run'.late = run.late  BY <2>2 DEF RunLocals, Outcomes
        <3> QED  BY <2>1, <2>2, <3>1
    <2>3. CASE ~aborted /\ pc' = "preparing" /\ UNCHANGED run  BY <2>1, <2>3
    <2>4. CASE Reply([reason |-> "error", text |-> FALSE, calls |-> 0, large |-> FALSE])
        <3>1. PICK r : r = [reason |-> "error", text |-> FALSE, calls |-> 0, large |-> FALSE]  OBVIOUS
        <3>2. r.calls \in Nat /\ Reply(r)  BY <2>4, <3>1
        <3> QED  BY <2>1, <3>2, ReplyIsTyped
    <2> QED  BY <1>5, <2>2, <2>3, <2>4 DEF Retried
<1>6. CASE AppendResult  BY <1>6 DEF AppendResult
<1>7. CASE EndTurn
    <2>1. pc = "turnEnd" /\ aborted' = aborted /\ run.turn + 1 \in Nat  BY <1>7 DEF EndTurn, RunLocals
    <2>2. CASE \E outcome \in Outcomes : StopsWith(outcome)
        <3>1. PICK outcome \in Outcomes : pc' = "flushing" /\ run' = [run EXCEPT !.stop = outcome]
            BY <2>2 DEF StopsWith
        <3>2. run' \in RunLocals /\ run'.late = run.late  BY <3>1 DEF RunLocals
        <3> QED  BY <2>1, <3>1, <3>2
    <2>3. CASE ~aborted /\ EnterTurn(run.turn + 1)  BY <2>1, <2>3, TurnIsTyped
    <2>4. run.stop \in Outcomes /\ "aborted" \in Outcomes /\ "done" \in Outcomes  BY DEF RunLocals, Outcomes
    <2> QED  BY <1>7, <2>2, <2>3, <2>4 DEF EndTurn
<1>8. CASE RunThrows
    <2>1. pc' = "flushing" /\ aborted' = aborted /\ run' = [run EXCEPT !.stop = "error"]  BY <1>8 DEF RunThrows
    <2>2. run' \in RunLocals /\ run'.late = run.late  BY <2>1 DEF RunLocals, Outcomes
    <2> QED  BY <2>1, <2>2
<1>9. CASE Settle \/ StartRun \/ Restart
    <2>1. run' = NoRun /\ aborted' = FALSE /\ pc' \in {"none", "starting"}  BY <1>9 DEF Settle, StartRun, Restart
    <2>2. run' \in RunLocals /\ ~run'.late  BY <2>1 DEF NoRun, RunLocals, Outcomes
    <2> QED  BY <2>1, <2>2
<1>10. CASE Abort  BY <1>10 DEF Abort
<1>11. CASE ToolFinishes \/ Steer \/ FollowUp
    BY <1>11 DEF ToolFinishes, Steer, FollowUp
<1>12. CASE RequestCompaction \/ FinishCompaction \/ Rewind \/ UNCHANGED vars
    BY <1>12 DEF RequestCompaction, FinishCompaction, Rewind, vars
<1> QED
    BY <1>1, <1>2, <1>3, <1>4, <1>5, <1>6, <1>7, <1>8, <1>9, <1>10, <1>11, <1>12 DEF Next, RunStep

\* So every step keeps the invariant,
LEMMA InvStep == IInv /\ [Next]_vars => IInv'
BY RepliesStep, QueuesStep, SignalStep, RunMoves DEF IInv

\* and it holds of every state of a run.
LEMMA InvHolds == Spec => []IInv
BY InitInv, InvStep, PTL DEF Spec

-----------------------------------------------------------------------------
\* What the inductive invariant says of the order of results is what the property says.
LEMMA RepliesInOrder == IInv => ResultsInCallOrder
<1> SUFFICES ASSUME IInv, NEW i \in 1..Len(log), log[i].type = "assistant"
             PROVE  LET calls == log[i].data.calls
                    IN  /\ \A j, k \in ResultsOf(i) : j < k => log[j].data.callId < log[k].data.callId
                        /\ \/ Answers(i, Len(calls))
                           \/ log[i].data.reason \notin {"stop", "aborted"} /\ Answers(i, 0)
                           \/ \E n \in 0..Len(calls) :
                                Answers(i, n) /\ (todo = SubSeq(calls, n + 1, Len(calls)) \/ restarts > 0)
    BY DEF ResultsInCallOrder
<1>1. Replies /\ IsReply(i)  BY DEF IInv, IsReply
<1>2. PICK c \in Nat : log[i].data.calls = [k \in 1..c |-> k]  BY <1>1 DEF Replies
<1>3. PICK calls : calls = log[i].data.calls  OBVIOUS
<1>4. calls \in Seq(Nat) /\ Len(calls) = c /\ CallsOf(i) = c /\ \A k \in 1..c : calls[k] = k
    BY <1>2, <1>3, CallsAreNumbered DEF CallsOf
\* The first n calls are 1 to n, and what follows them is what is owed after n results.
<1>5. ASSUME NEW n \in 0..c, Answered(i, n)
      PROVE  Answers(i, n)
    <2>1. \A k \in 1..n : calls[k] \in 1..n  BY <1>4
    <2>2. PICK s : s = SubSeq(calls, 1, n)  OBVIOUS
    <2>3. /\ s \in Seq(1..n)
          /\ Len(s) = IF 1 <= n THEN n - 1 + 1 ELSE 0
          /\ \A k \in 1..(n - 1 + 1) : s[k] = calls[1 + k - 1]
        BY <2>1, <2>2, SubSeqProperties
    <2>4. Len(s) = n /\ \A k \in 1..n : s[k] = k
        <3>1. Len(s) = n  BY <2>3
        <3>2. \A k \in 1..n : 1 + k - 1 = k /\ k \in 1..c /\ k \in 1..(n - 1 + 1)  OBVIOUS
        <3> QED  BY <1>4, <2>3, <3>1, <3>2
    <2>5. ToSet(s) = {s[k] : k \in 1..n}  BY <2>3, <2>4, ToSetOfSeq
    <2>6. {s[k] : k \in 1..n} = 1..n  BY <2>4
    <2> QED  BY <1>3, <1>5, <2>2, <2>5, <2>6 DEF Answers, Answered
<1>6. ASSUME NEW n \in 0..c
      PROVE  SubSeq(calls, n + 1, c) = [k \in 1..(c - n) |-> n + k]
    <2>1. \A k \in (n + 1)..c : calls[k] \in Nat  BY <1>4
    <2>2. PICK s : s = SubSeq(calls, n + 1, c)  OBVIOUS
    <2>3. PICK t : t = [k \in 1..(c - n) |-> n + k]  OBVIOUS
    <2>4. /\ s \in Seq(Nat)
          /\ Len(s) = IF n + 1 <= c THEN c - (n + 1) + 1 ELSE 0
          /\ \A k \in 1..(c - (n + 1) + 1) : s[k] = calls[(n + 1) + k - 1]
        BY <2>1, <2>2, SubSeqProperties
    <2>5. c - n \in Nat /\ c - (n + 1) + 1 = c - n /\ Len(s) = c - n  BY <2>4
    <2>6. t \in Seq(Nat) /\ Len(t) = c - n
        <3>1. \A k \in 1..(c - n) : n + k \in Nat  OBVIOUS
        <3>2. t \in Seq(Nat)  BY <2>3, <2>5, <3>1, IsASeq
        <3>3. DOMAIN t = 1..(c - n)  BY <2>3
        <3> QED  BY <2>5, <3>2, <3>3, LenProperties
    <2>7. \A k \in 1..Len(s) : s[k] = t[k]
        <3> TAKE k \in 1..Len(s)
        <3>1. k \in 1..(c - n) /\ (n + 1) + k - 1 = n + k /\ n + k \in 1..c  BY <2>5
        <3>2. s[k] = n + k  BY <1>4, <2>4, <2>5, <3>1
        <3> QED  BY <2>3, <3>1, <3>2
    <2> QED  BY <2>2, <2>3, <2>4, <2>5, <2>6, <2>7, SeqEqual
<1>7. Settled(i) \/ Owed(i)  BY <1>1 DEF Replies
<1>8. 0 \in 0..c /\ c \in 0..c  OBVIOUS
<1>9. CASE Settled(i)
    <2>1. \A j, k \in ResultsOf(i) : j < k => log[j].data.callId < log[k].data.callId
        BY <1>9 DEF Settled, Answered
    <2>2. \/ Answers(i, c)
          \/ log[i].data.reason \notin {"stop", "aborted"} /\ Answers(i, 0)
          \/ \E n \in 0..c : Answers(i, n) /\ restarts > 0
        BY <1>4, <1>5, <1>8, <1>9 DEF Settled
    <2> QED  BY <1>3, <1>4, <2>1, <2>2
<1>10. CASE Owed(i)
    <2>1. PICK n \in 0..c : Answered(i, n) /\ todo = [k \in 1..(c - n) |-> n + k]  BY <1>4, <1>10 DEF Owed
    <2>2. Answers(i, n) /\ todo = SubSeq(calls, n + 1, c)  BY <1>5, <1>6, <2>1
    <2>3. \A j, k \in ResultsOf(i) : j < k => log[j].data.callId < log[k].data.callId  BY <2>1 DEF Answered
    <2> QED  BY <1>3, <1>4, <2>2, <2>3
<1> QED  BY <1>7, <1>9, <1>10

\* An aborted run: what a step adds is a reply that was on its way, a result or a note.
LEMMA AbortedStep ==
    ASSUME IInv, [Next]_vars, aborted
    PROVE  StartsNoTool /\ ReplyIsEmpty
<1>1. Logged /\ pc # "none" /\ Len(log) \in Nat  BY LogHasLength DEF IInv
<1>2. ASSUME NEW batch, Grows(batch), \E T : batch \in Seq(T),
             \A i \in 1..Len(batch) :
               /\ batch[i].type \notin {"user", "tool-call"}
               /\ run.late /\ batch[i].type = "assistant" => ~batch[i].data.text
      PROVE  StartsNoTool /\ ReplyIsEmpty
    <2>1. ASSUME NEW i \in (Len(log) + 1)..Len(log')
          PROVE  /\ log'[i].type \notin {"user", "tool-call"}
                 /\ run.late /\ log'[i].type = "assistant" => ~log'[i].data.text
        <3>1. Len(batch) \in Nat  BY <1>2
        <3>2. Len(log') = Len(log) + Len(batch)  BY <1>2 DEF Grows
        <3>3. i - Len(log) \in 1..Len(batch) /\ Len(log) + (i - Len(log)) = i  BY <1>1, <2>1, <3>1, <3>2
        <3>4. log'[i].type = batch[i - Len(log)].type /\ log'[i].data = batch[i - Len(log)].data
            BY <1>2, <3>3 DEF Grows
        <3> QED  BY <1>2, <3>3, <3>4
    <2> QED  BY <2>1 DEF StartsNoTool, ReplyIsEmpty
<1>3. CASE UNCHANGED log
    <2>1. (Len(log) + 1)..Len(log') = {}  BY <1>1, <1>3
    <2> QED  BY <2>1 DEF StartsNoTool, ReplyIsEmpty
<1>4. CASE LogsNote \/ AppendResult
    <2>1. PICK e : e.type \notin {"user", "tool-call", "assistant"} /\ log' = Numbered(log, <<e>>)
        <3>1. CASE LogsNote  BY <3>1 DEF LogsNote
        <3>2. CASE AppendResult
            <4>1. PICK e : e = [type |-> "tool-result", data |-> [callId |-> Head(todo)]]  OBVIOUS
            <4>2. e.type = "tool-result"  BY <4>1
            <4> QED  BY <3>2, <4>1, <4>2 DEF AppendResult
        <3> QED  BY <1>4, <3>1, <3>2
    <2>2. PICK batch : (\E T : batch \in Seq(T)) /\ Grows(batch) /\ Len(batch) = 1 /\ batch[1] = e
        BY <1>1, <2>1, OneWritten
    <2>3. \A i \in 1..Len(batch) : batch[i].type \notin {"user", "tool-call", "assistant"}  BY <2>1, <2>2
    <2> QED  BY <1>2, <2>2, <2>3
<1>5. CASE LogsReply
    <2>1. PICK r : r.calls \in Nat /\ (run.late => ~r.text) /\ Reply(r)  BY <1>5 DEF LogsReply
    <2>2. PICK batch : /\ (\E T : batch \in Seq(T)) /\ Grows(batch)
                       /\ \A i \in 1..Len(batch) : batch[i].type \in {"assistant", "tool-result"}
                       /\ \A i \in 1..Len(batch) : batch[i].type = "assistant" => batch[i].data.text = r.text
        BY <1>1, <2>1, ReplyIsWritten
    <2>3. \A i \in 1..Len(batch) :
            /\ batch[i].type \notin {"user", "tool-call"}
            /\ run.late /\ batch[i].type = "assistant" => ~batch[i].data.text
        BY <2>1, <2>2
    <2> QED  BY <1>2, <2>2, <2>3
<1>6. CASE LogsNothing \/ Restart \/ Steer \/ FollowUp
    BY <1>3, <1>6 DEF LogsNothing, Restart, Steer, FollowUp
<1>7. ~Delivers /\ ~StartRun  BY <1>1 DEF Delivers, StartRun
<1> QED  BY <1>4, <1>5, <1>6, <1>7, StepKinds

-----------------------------------------------------------------------------
\* runTools: "a deterministic log".  Whatever order the tools return in, however many calls a
\* reply makes and whenever the host dies, the log holds one result for each call of a reply, in
\* call order, and nothing of a run is left owed when the run goes on or ends.
THEOREM ResultsKeepCallOrder == Spec => []ResultsInCallOrder
BY InvHolds, RepliesInOrder, PTL

\* deliver, steer, followUp, abort and drive: for any number of messages, runs, aborts and
\* restarts, a message is logged at most once and waits in at most one queue, and never both.
THEOREM MessagesAreDeliveredOnce == Spec => []DeliveredOnce
<1>1. IInv => DeliveredOnce  BY DEF IInv, Queues
<1> QED  BY <1>1, InvHolds, PTL

\* loop, call, runTools and deliver: whenever the signal is raised, however many turns, calls and
\* messages there are, the run logs no further user message, starts no tool and begins no turn; at
\* most one model call is made after it, which was handed the raised signal and comes back empty.
THEOREM NothingStartsOnceAborted == Spec => AbortStartsNothing
<1>1. IInv /\ [Next]_vars =>
        [aborted => StartsNoTool /\ BeginsNoTurn /\ AsksNothing /\ ReplyIsEmpty]_vars
    BY AbortedStep, RunMoves DEF IInv
<1> QED  BY <1>1, InvHolds, PTL DEF Spec, AbortStartsNothing

=============================================================================
