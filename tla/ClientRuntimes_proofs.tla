------------------------ MODULE ClientRuntimes_proofs ------------------------
(***************************************************************************)
(* Proofs about ClientRuntimes, for any number of runtimes, sessions,      *)
(* events and crashes, and any number of messages under way:               *)
(*   - it is well-typed;                                                   *)
(*   - a lost connection is noticed, unless the Host dies while the page   *)
(*     resumes or reconnectNow comes after another call has connected;     *)
(*   - no logged event is skipped or shown twice, unless two runtimes      *)
(*     follow one session or one starts while the page reconnects.         *)
(* TLC violates the last two without any one of their exceptions.          *)
(*                                                                         *)
(* The inductive invariant of the last one, Gapless, is a conjunction of   *)
(* parts, each with a lemma of its own for a step: Wired says where        *)
(* messages can be, NoneWaits and Attaching who waits for an attachment,   *)
(* Followers that a session has one runtime, Counted that the messages     *)
(* under way bring it every event in turn, Covered that it has shown what  *)
(* it has counted, and OpenedPast that what was past stays past.           *)
(***************************************************************************)
EXTENDS ClientRuntimes, TLAPS, SequenceTheorems, WellFoundedInduction

\* Before its start.
Untried(r) == rt[r].stage = "new"

\* Who is in the map, or named by a call, a request or an answer, has been started.
Known ==
    /\ \A r \in Runtimes : rt[r].session = None => Untried(r)
    /\ \A i \in 1..Len(map) : ~Untried(map[i])
    /\ \A i \in 1..Len(queue) : ~Untried(queue[i].of)
    /\ \A i \in 1..Len(toHost) : ~Untried(toHost[i].of)
    /\ \A i \in 1..Len(toPage) : toPage[i].op \in {"attach", "resume"} => ~Untried(toPage[i].of)

TInv == TypeOK /\ Known

RtRecord == [session: Sessions \cup {None}, lastSeq: 0..MaxSeq, streaming: BOOLEAN, stage: Stages]
Call == [op: {"attach", "unsubscribe"}, of: Runtimes]

-----------------------------------------------------------------------------
\* What the members of the page's sequences are.
LEMMA Members ==
    ASSUME TypeOK
    PROVE  /\ map \in Seq(Runtimes) /\ \A i \in 1..Len(map) : map[i] \in Runtimes
           /\ toHost \in Seq(Request) /\ \A i \in 1..Len(toHost) : toHost[i] \in Request
           /\ toPage \in Seq(Message) /\ \A i \in 1..Len(toPage) : toPage[i] \in Message
           /\ queue \in Seq(Call) /\ \A i \in 1..Len(queue) : queue[i] \in Call
           /\ rt \in [Runtimes -> RtRecord]
BY ElementOfSeq DEF TypeOK, Call, RtRecord

\* A set of numbers with a member has a least one.
LEMMA LeastNumber ==
    ASSUME NEW T \in SUBSET Nat, T # {}
    PROVE  \E n \in T : \A m \in T : n <= m
<1>1. PICK x \in T : \A y \in T : ~(<<y, x>> \in OpToRel(<, Nat))
    BY NatLessThanWellFounded, WFMin
<1>2. \A y \in T : <<y, x>> \in Nat \X Nat /\ (y < x => <<y, x>> \in OpToRel(<, Nat))
    BY DEF OpToRel
<1>3. \A y \in T : ~(y < x) /\ y \in Nat /\ x \in Nat
    BY <1>1, <1>2
<1>4. QED
    BY <1>3

\* What is asked for next is in the map and not done, or nothing is left.
LEMMA NextIsLeft ==
    ASSUME TypeOK, NEW done
    PROVE  \/ NextToResume(done) = None
           \/ \E i \in 1..Len(map) : NextToResume(done) = map[i] /\ map[i] \in Runtimes
<1> DEFINE left == {i \in 1..Len(map) : map[i] \notin done}
<1>1. CASE left = {}
    BY <1>1 DEF NextToResume
<1>2. CASE left # {}
  <2>1. left \in SUBSET Nat
    BY DEF TypeOK
  <2>2. \E n \in left : \A m \in left : n <= m
    BY <1>2, <2>1, LeastNumber
  <2>3. (CHOOSE i \in left : \A j \in left : i <= j) \in left
    BY <2>2
  <2>4. NextToResume(done) = map[CHOOSE i \in left : \A j \in left : i <= j]
    BY <1>2 DEF NextToResume
  <2> HIDE DEF left
  <2>5. left \subseteq 1..Len(map)
    BY DEF left
  <2>6. QED
    BY <2>3, <2>4, <2>5, Members
<1>3. QED
    BY <1>1, <1>2

\* The fields of each kind of message.
LEMMA MessageFields ==
    ASSUME TypeOK, NEW i \in 1..Len(toPage)
    PROVE  /\ toPage[i] \in Message
           /\ toPage[i].op \in {"event", "delta", "attach", "resume"}
           /\ toPage[i].op = "event" => toPage[i].session \in Sessions /\ toPage[i].seq \in 1..MaxSeq
           /\ toPage[i].op = "delta" => toPage[i].session \in Sessions /\ toPage[i].running \in BOOLEAN
           /\ toPage[i].op \in {"attach", "resume"} =>
                 /\ toPage[i].of \in Runtimes /\ toPage[i].after \in 0..MaxSeq
                 /\ toPage[i].last \in 0..MaxSeq /\ toPage[i].running \in BOOLEAN
<1>1. toPage[i] \in Message
    BY DEF TypeOK
<1>2. QED
    BY <1>1 DEF Message

\* Taking the first message leaves the others.
LEMMA TakingFirst ==
    ASSUME TypeOK, toPage # <<>>
    PROVE  /\ Head(toPage) = toPage[1] /\ 1 \in 1..Len(toPage)
           /\ Tail(toPage) \in Seq(Message) /\ Len(Tail(toPage)) = Len(toPage) - 1
           /\ \A i \in 1..Len(Tail(toPage)) : i + 1 \in 1..Len(toPage) /\ Tail(toPage)[i] = toPage[i + 1]
BY DEF TypeOK

\* A message that is sent comes last.
LEMMA SentLast ==
    ASSUME TypeOK, NEW message, toPage' = Append(toPage, message)
    PROVE  /\ Len(toPage) \in Nat /\ Len(toPage') = Len(toPage) + 1
           /\ toPage'[Len(toPage) + 1] = message
           /\ \A i \in 1..Len(toPage) : toPage'[i] = toPage[i]
BY Members

\* A call that names a runtime that was started makes a well-typed request.
LEMMA RequestIsTyped ==
    ASSUME NEW runtimes \in [Runtimes -> RtRecord], NEW call, call.op \in {"attach", "resume", "unsubscribe"},
           call.of \in Runtimes, runtimes[call.of].session # None
    PROVE  /\ RequestOf(call, runtimes) \in Request
           /\ RequestOf(call, runtimes).of = call.of /\ RequestOf(call, runtimes).op = call.op
           /\ RequestOf(call, runtimes).session = runtimes[call.of].session
           /\ RequestOf(call, runtimes).after = runtimes[call.of].lastSeq
BY DEF RequestOf, Request, RtRecord

\* What every step of the page that changes `rt` keeps.
Grown ==
    /\ rt' \in [Runtimes -> RtRecord]
    /\ \A r \in Runtimes : rt'[r].session = None => rt'[r].stage = "new"
    /\ \A r \in Runtimes : ~Untried(r) => rt'[r].stage # "new"

\* Opening the connection sends well-typed requests.
LEMMA OpensIsTyped ==
    ASSUME TInv, Grown, NEW requests \in Seq(Request),
           \A i \in 1..Len(requests) : ~Untried(requests[i].of), Opens(requests)
    PROVE  /\ conn' = "open" /\ before' = TRUE /\ hostStatus' = "connected" /\ loop' \in {"off", "delay", "waiting"}
           /\ toHost' \in Seq(Request) /\ queue' = <<>>
           /\ \A i \in 1..Len(toHost') : rt'[toHost'[i].of].stage # "new"
<1> DEFINE calls == [i \in 1..Len(queue) |-> RequestOf(queue[i], rt')]
<1>1. queue \in Seq(Call) /\ \A i \in 1..Len(queue) : queue[i] \in Call /\ ~Untried(queue[i].of)
    BY Members DEF TInv, Known
<1>r. \A i \in 1..Len(requests) : requests[i] \in Request
    BY ElementOfSeq
<1>2. \A i \in 1..Len(queue) : RequestOf(queue[i], rt') \in Request /\ RequestOf(queue[i], rt').of = queue[i].of
  <2> TAKE i \in 1..Len(queue)
  <2>1. queue[i].of \in Runtimes /\ rt'[queue[i].of].session # None
    BY <1>1 DEF Call, Grown
  <2>2. queue[i].op \in {"attach", "resume", "unsubscribe"}
    BY <1>1 DEF Call
  <2>3. QED
    BY <2>1, <2>2, RequestIsTyped DEF Grown
<1>3. calls \in Seq(Request) /\ Len(calls) = Len(queue) /\ \A i \in 1..Len(calls) : calls[i].of = queue[i].of
    BY <1>1, <1>2
<1>4. toHost' = requests \o calls
    BY DEF Opens
<1>5. \A i \in 1..Len(queue) : rt'[queue[i].of].stage # "new"
    BY <1>1 DEF Grown, Call
<1>6. \A i \in 1..Len(requests) : rt'[requests[i].of].stage # "new"
    BY <1>r DEF Grown, Request
<1> HIDE DEF calls
<1>7. toHost' \in Seq(Request) /\ \A i \in 1..Len(toHost') : rt'[toHost'[i].of].stage # "new"
  <2>1. requests \o calls \in Seq(Request) /\ Len(requests \o calls) = Len(requests) + Len(calls)
    BY <1>3, ConcatProperties
  <2>2. ASSUME NEW i \in 1..Len(requests \o calls)
        PROVE  rt'[(requests \o calls)[i].of].stage # "new"
    <3>1. CASE i <= Len(requests)
        BY <1>3, <1>6, <2>1, <3>1, ConcatProperties
    <3>2. CASE i > Len(requests)
        <4>1. i - Len(requests) \in 1..Len(calls) /\ (requests \o calls)[i] = calls[i - Len(requests)]
            BY <1>3, <2>1, <3>2, ConcatProperties
        <4>2. QED
            BY <1>3, <1>5, <4>1
    <3>3. QED
        BY <3>1, <3>2, <1>3
  <2>3. QED
    BY <1>4, <2>1, <2>2
<1>8. QED
    BY <1>7 DEF Opens, TInv, TypeOK

\* Asking the next runtime for its backlog, or opening.
LEMMA ResumeIsTyped ==
    ASSUME TInv, Grown, NEW done, NEW requests \in Seq(Request),
           \A i \in 1..Len(requests) : ~Untried(requests[i].of),
           ResumeWith(NextToResume(done), requests)
    PROVE  /\ asking' \in Runtimes \cup {None}
           /\ conn' \in {"resuming", "open"} /\ before' \in BOOLEAN
           /\ hostStatus' \in {"connected", "reconnecting", "failed"} /\ loop' \in {"off", "delay", "waiting"}
           /\ toHost' \in Seq(Request) /\ queue' \in Seq(Call)
           /\ \A i \in 1..Len(toHost') : rt'[toHost'[i].of].stage # "new"
           /\ \A i \in 1..Len(queue') : rt'[queue'[i].of].stage # "new"
<1> DEFINE r == NextToResume(done)
           q == RequestOf([op |-> "resume", of |-> r], rt')
<1>1. CASE r = None
  <2>1. Opens(requests) /\ asking' = None
    BY <1>1 DEF ResumeWith
  <2>2. Len(<<>>) = 0 /\ <<>> \in Seq(Call)
    OBVIOUS
  <2>3. queue' = <<>> /\ queue' \in Seq(Call) /\ Len(queue') = 0
    BY <2>1, <2>2, OpensIsTyped
  <2>4. /\ conn' = "open" /\ before' = TRUE /\ hostStatus' = "connected" /\ loop' \in {"off", "delay", "waiting"}
        /\ toHost' \in Seq(Request) /\ \A i \in 1..Len(toHost') : rt'[toHost'[i].of].stage # "new"
    BY <2>1, OpensIsTyped
  <2>5. \A i \in 1..Len(queue') : rt'[queue'[i].of].stage # "new"
    BY <2>3
  <2>6. QED
    BY <2>1, <2>3, <2>4, <2>5
<1>2. CASE r # None
  <2>1. r \in Runtimes /\ ~Untried(r)
    BY <1>2, NextIsLeft DEF TInv, Known
  <2>2. rt'[r].session # None /\ rt'[r].stage # "new"
    BY <2>1 DEF Grown
  <2>3. q \in Request /\ q.of = r
    BY <2>1, <2>2, RequestIsTyped DEF Grown
  <2>4. toHost' = Append(requests, q) /\ queue' = queue /\ asking' = r /\ conn' = "resuming"
        /\ before' = before /\ hostStatus' = hostStatus /\ loop' = loop
    BY <1>2 DEF ResumeWith
  <2>5. \A i \in 1..Len(requests) : rt'[requests[i].of].stage # "new"
    <3>1. \A i \in 1..Len(requests) : requests[i] \in Request
        BY ElementOfSeq
    <3>2. QED
        BY <3>1 DEF Grown, Request
  <2>6. \A i \in 1..Len(queue) : rt'[queue[i].of].stage # "new"
    BY Members DEF Grown, TInv, Known, Call
  <2> HIDE DEF r, q
  <2>7. toHost' \in Seq(Request) /\ \A i \in 1..Len(toHost') : rt'[toHost'[i].of].stage # "new"
    BY <2>2, <2>3, <2>4, <2>5
  <2>8. queue \in Seq(Call)
    BY Members DEF TInv
  <2>10. conn \in {"none", "connecting", "resuming", "open"} /\ before \in BOOLEAN
        /\ hostStatus \in {"connected", "reconnecting", "failed"} /\ loop \in {"off", "delay", "waiting"}
    BY DEF TInv, TypeOK
  <2>11. QED
    BY <2>1, <2>4, <2>6, <2>7, <2>8, <2>10
<1>3. QED
    BY <1>1, <1>2

-----------------------------------------------------------------------------
\* What the Host does leaves a well-typed state.
LEMMA HostTypes ==
    ASSUME TInv, HostNext
    PROVE  TInv'
<1> USE DEF host, link, page, seen
<1>1. CASE Serve
  <2> DEFINE request == Head(toHost)
  <2>1. request \in Request /\ request.session \in Sessions /\ ~Untried(request.of) /\ request.of \in Runtimes
    BY <1>1, Members DEF Serve, TInv, Known, Request
  <2>2. toHost' \in Seq(Request) /\ \A i \in 1..Len(toHost') : toHost'[i] = toHost[i + 1] /\ i + 1 \in 1..Len(toHost)
    BY <1>1, Members, HeadTailProperties DEF Serve, TInv
  <2>3. watched' \subseteq Sessions
    BY <1>1, <2>1 DEF Serve, TInv, TypeOK
  <2>4. /\ toPage' \in Seq(Message)
        /\ \A i \in 1..Len(toPage') : toPage'[i].op \in {"attach", "resume"} => ~Untried(toPage'[i].of)
    <3>1. CASE request.op = "unsubscribe"
        BY <1>1, <3>1, Members DEF Serve, TInv, Known
    <3>2. CASE request.op # "unsubscribe"
      <4> DEFINE answer == [op |-> request.op, of |-> request.of, after |-> request.after,
                            last |-> log[request.session], running |-> running[request.session]]
      <4>1. answer \in Message /\ answer.of = request.of
        BY <2>1, <3>2 DEF Message, Request, TInv, TypeOK
      <4>2. toPage' = Append(toPage, answer)
        BY <1>1, <3>2 DEF Serve
      <4> HIDE DEF answer
      <4>3. QED
        BY <2>1, <4>1, <4>2, Members DEF TInv, Known
    <3>3. QED
        BY <3>1, <3>2
  <2>5. UNCHANGED <<log, running, crashes, socket, page, seen>>
    BY <1>1 DEF Serve
  <2>6. TypeOK'
    BY <2>2, <2>3, <2>4, <2>5 DEF TInv, TypeOK
  <2>7. Known'
    BY <2>2, <2>4, <2>5 DEF TInv, Known, Untried
  <2>8. QED
    BY <2>6, <2>7 DEF TInv
<1>2. CASE Dies
  <2>1. running' \in [Sessions -> BOOLEAN] /\ crashes' \in 0..MaxCrashes /\ toHost' = <<>> /\ watched' = {}
        /\ socket' \in {"none", "live", "dead"} /\ Len(toHost') = 0 /\ toHost' \in Seq(Request)
    BY <1>2, ConstantsAssumption DEF Dies, TInv, TypeOK
  <2>2. UNCHANGED <<log, toPage, page, seen>>
    BY <1>2 DEF Dies
  <2>3. TypeOK'
    BY <2>1, <2>2 DEF TInv, TypeOK
  <2>4. Known'
    BY <2>1, <2>2 DEF TInv, Known, Untried
  <2>5. QED
    BY <2>3, <2>4 DEF TInv
<1>3. ASSUME NEW s \in Sessions, Logs(s)
      PROVE  TInv'
  <2> DEFINE event == [op |-> "event", session |-> s, seq |-> log[s] + 1]
  <2>1. log[s] \in 0..MaxSeq /\ log[s] < MaxSeq /\ log' = [log EXCEPT ![s] = @ + 1]
    BY <1>3 DEF Logs, TInv, TypeOK
  <2>2. log' \in [Sessions -> 0..MaxSeq] /\ event \in Message /\ event.op = "event"
    BY <2>1, ConstantsAssumption DEF TInv, TypeOK, Message
  <2>3. toPage' = IF s \in watched THEN Append(toPage, event) ELSE toPage
    BY <1>3 DEF Logs, Notify
  <2> HIDE DEF event
  <2>4. /\ toPage' \in Seq(Message)
        /\ \A i \in 1..Len(toPage') : toPage'[i].op \in {"attach", "resume"} => ~Untried(toPage'[i].of)
    BY <2>2, <2>3, Members DEF TInv, Known
  <2>5. UNCHANGED <<running, watched, crashes, toHost, socket, page, seen>>
    BY <1>3 DEF Logs
  <2>6. TypeOK'
    BY <2>2, <2>4, <2>5 DEF TInv, TypeOK
  <2>7. Known'
    BY <2>4, <2>5 DEF TInv, Known, Untried
  <2>8. QED
    BY <2>6, <2>7 DEF TInv
<1>4. ASSUME NEW s \in Sessions, RunStartsOrEnds(s)
      PROVE  TInv'
  <2> DEFINE delta == [op |-> "delta", session |-> s, running |-> ~running[s]]
  <2>1. running' \in [Sessions -> BOOLEAN] /\ delta \in Message /\ delta.op = "delta"
    BY <1>4 DEF RunStartsOrEnds, TInv, TypeOK, Message
  <2>2. toPage' = IF s \in watched THEN Append(toPage, delta) ELSE toPage
    BY <1>4 DEF RunStartsOrEnds, Notify
  <2> HIDE DEF delta
  <2>3. /\ toPage' \in Seq(Message)
        /\ \A i \in 1..Len(toPage') : toPage'[i].op \in {"attach", "resume"} => ~Untried(toPage'[i].of)
    BY <2>1, <2>2, Members DEF TInv, Known
  <2>4. UNCHANGED <<log, watched, crashes, toHost, socket, page, seen>>
    BY <1>4 DEF RunStartsOrEnds
  <2>5. TypeOK'
    BY <2>1, <2>3, <2>4 DEF TInv, TypeOK
  <2>6. Known'
    BY <2>3, <2>4 DEF TInv, Known, Untried
  <2>7. QED
    BY <2>5, <2>6 DEF TInv
<1>5. QED
    BY <1>1, <1>2, <1>3, <1>4 DEF HostNext

\* `rt` as it is counts as grown.
LEMMA SameIsGrown ==
    ASSUME TInv, rt' = rt
    PROVE  Grown
BY Members DEF TInv, Known, Grown, Untried

\* A type-correct page whose other parts are the same.
LEMMA GrownKnown ==
    ASSUME TInv, Grown
    PROVE  /\ \A r \in Runtimes : rt'[r].session = None => rt'[r].stage = "new"
           /\ \A i \in 1..Len(map) : rt'[map[i]].stage # "new"
           /\ \A i \in 1..Len(queue) : rt'[queue[i].of].stage # "new"
           /\ \A i \in 1..Len(toHost) : rt'[toHost[i].of].stage # "new"
           /\ \A i \in 1..Len(toPage) : toPage[i].op \in {"attach", "resume"} => rt'[toPage[i].of].stage # "new"
BY Members, MessageFields DEF TInv, Known, Grown, Call, Request

\* A message that is taken leaves well-typed ones.
LEMMA TailTypes ==
    ASSUME TInv, Grown, toPage # <<>>
    PROVE  /\ Tail(toPage) \in Seq(Message)
           /\ \A i \in 1..Len(Tail(toPage)) :
                Tail(toPage)[i].op \in {"attach", "resume"} => rt'[Tail(toPage)[i].of].stage # "new"
BY GrownKnown, TakingFirst DEF TInv

\* What an event that arrives does to the runtimes.
LEMMA EventIsGrown ==
    ASSUME TInv, EventArrives
    PROVE  /\ toPage # <<>> /\ toPage[1].op = "event" /\ toPage' = Tail(toPage)
           /\ toPage[1].session \in Sessions /\ toPage[1].seq \in 1..MaxSeq
           /\ Grown
           /\ \A r \in Runtimes : rt'[r].session = rt[r].session /\ rt'[r].stage = rt[r].stage
           /\ \A r \in Runtimes :
                IF r \in Following(toPage[1].session) /\ toPage[1].seq > rt[r].lastSeq
                THEN rt'[r].lastSeq = toPage[1].seq /\ shown'[r] = shown[r] \cup {toPage[1].seq}
                ELSE rt'[r].lastSeq = rt[r].lastSeq /\ shown'[r] = shown[r]
           /\ shown' \in [Runtimes -> SUBSET (1..MaxSeq)]
<1> DEFINE m == toPage[1]
<1>1. toPage # <<>> /\ m.op = "event" /\ toPage' = Tail(toPage) /\ Head(toPage) = m
    BY TakingFirst DEF EventArrives, FirstMessage, TInv
<1>2. m.session \in Sessions /\ m.seq \in 1..MaxSeq /\ rt \in [Runtimes -> RtRecord]
    BY <1>1, TakingFirst, MessageFields, Members DEF TInv
<1>3. Deliver(Following(m.session), m.seq)
    BY <1>1 DEF EventArrives
<1> HIDE DEF m
<1>4. ASSUME NEW r \in Runtimes
      PROVE  /\ [rt[r] EXCEPT !.lastSeq = m.seq] \in RtRecord
             /\ Taken(r, {m.seq}) = IF m.seq > rt[r].lastSeq THEN {m.seq} ELSE {}
    BY <1>2, ConstantsAssumption DEF RtRecord, Taken
<1>5. ASSUME NEW r \in Runtimes
      PROVE  /\ rt'[r] = IF r \in Following(m.session) /\ m.seq > rt[r].lastSeq
                         THEN [rt[r] EXCEPT !.lastSeq = m.seq] ELSE rt[r]
             /\ shown'[r] = IF r \in Following(m.session) /\ m.seq > rt[r].lastSeq
                            THEN shown[r] \cup {m.seq} ELSE shown[r]
    BY <1>3, <1>4 DEF Deliver
<1>6. rt' \in [Runtimes -> RtRecord] /\ \A r \in Runtimes : rt'[r].session = rt[r].session /\ rt'[r].stage = rt[r].stage
    BY <1>2, <1>3, <1>4 DEF Deliver, RtRecord
<1>7. \A r \in Runtimes :
        IF r \in Following(m.session) /\ m.seq > rt[r].lastSeq
        THEN rt'[r].lastSeq = m.seq /\ shown'[r] = shown[r] \cup {m.seq}
        ELSE rt'[r].lastSeq = rt[r].lastSeq /\ shown'[r] = shown[r]
    BY <1>2, <1>5 DEF RtRecord
<1>8. shown' \in [Runtimes -> SUBSET (1..MaxSeq)]
    BY <1>2, <1>3 DEF Deliver, Taken, TInv, TypeOK
<1>9. Grown
    BY <1>6 DEF Grown, Untried, TInv, Known
<1>10. QED
    BY <1>1, <1>2, <1>6, <1>7, <1>8, <1>9 DEF m

\* What the answer to an attachment does to its runtime.
LEMMA AttachedIsGrown ==
    ASSUME TInv, Attached
    PROVE  LET m == toPage[1] IN
           /\ toPage # <<>> /\ m.op = "attach" /\ toPage' = Tail(toPage) /\ m.of \in Runtimes /\ ~Untried(m.of)
           /\ Grown
           /\ \A r \in Runtimes : rt'[r].session = rt[r].session
           /\ \A r \in Runtimes : r # m.of => rt'[r] = rt[r] /\ base'[r] = base[r]
           /\ rt'[m.of].stage = "live" /\ base'[m.of] = rt'[m.of].lastSeq
           /\ rt[m.of].lastSeq <= rt'[m.of].lastSeq
           /\ m.after <= rt[m.of].lastSeq => m.last <= rt'[m.of].lastSeq
           /\ base' \in [Runtimes -> 0..MaxSeq]
<1> DEFINE m == toPage[1]
           last == Bigger(rt[m.of].lastSeq, IF m.last > m.after THEN m.last ELSE 0)
<1>1. toPage # <<>> /\ m.op = "attach" /\ toPage' = Tail(toPage) /\ Head(toPage) = m /\ 1 \in 1..Len(toPage)
    BY TakingFirst DEF Attached, FirstMessage, TInv
<1>2. m.of \in Runtimes /\ m.after \in 0..MaxSeq /\ m.last \in 0..MaxSeq /\ m.running \in BOOLEAN /\ ~Untried(m.of)
      /\ rt \in [Runtimes -> RtRecord]
    BY <1>1, MessageFields, Members DEF TInv, Known
<1>3. rt' = [rt EXCEPT ![m.of].lastSeq = last, ![m.of].streaming = m.running, ![m.of].stage = "live"]
      /\ base' = [base EXCEPT ![m.of] = last]
    BY <1>1 DEF Attached
<1>4. last \in 0..MaxSeq /\ rt[m.of].lastSeq <= last /\ (m.after <= rt[m.of].lastSeq => m.last <= last)
    BY <1>2, ConstantsAssumption DEF Bigger, RtRecord
<1> HIDE DEF m, last
<1>5. /\ rt' \in [Runtimes -> RtRecord]
      /\ \A r \in Runtimes : rt'[r].session = rt[r].session
      /\ \A r \in Runtimes : r # m.of => rt'[r] = rt[r]
      /\ rt'[m.of].stage = "live" /\ rt'[m.of].lastSeq = last
    BY <1>2, <1>3, <1>4 DEF RtRecord, Stages
<1>6. base' \in [Runtimes -> 0..MaxSeq] /\ base'[m.of] = last /\ \A r \in Runtimes : r # m.of => base'[r] = base[r]
    BY <1>2, <1>3, <1>4 DEF TInv, TypeOK
<1>7. Grown
    BY <1>2, <1>5 DEF Grown, Untried, TInv, Known
<1>8. QED
    BY <1>1, <1>2, <1>4, <1>5, <1>6, <1>7 DEF m

\* What a backlog does to its runtime.
LEMMA BacklogIsGrown ==
    ASSUME TInv, BacklogArrives
    PROVE  LET m == toPage[1]
               new == {n \in (m.after + 1)..m.last : n > rt[m.of].lastSeq} IN
           /\ toPage # <<>> /\ m.op = "resume" /\ toPage' = Tail(toPage) /\ m.of \in Runtimes /\ ~Untried(m.of)
           /\ Grown
           /\ \A r \in Runtimes : rt'[r].session = rt[r].session /\ rt'[r].stage = rt[r].stage
           /\ \A r \in Runtimes : r # m.of => rt'[r] = rt[r] /\ shown'[r] = shown[r]
           /\ shown'[m.of] = shown[m.of] \cup new
           /\ rt[m.of].lastSeq <= rt'[m.of].lastSeq /\ rt'[m.of].lastSeq \in {m.last, rt[m.of].lastSeq}
           /\ m.after <= rt[m.of].lastSeq => m.last <= rt'[m.of].lastSeq
           /\ shown' \in [Runtimes -> SUBSET (1..MaxSeq)]
<1> DEFINE m == toPage[1]
           seqs == (m.after + 1)..m.last
           last == Bigger(rt[m.of].lastSeq, IF seqs = {} THEN 0 ELSE m.last)
<1>1. toPage # <<>> /\ m.op = "resume" /\ toPage' = Tail(toPage) /\ Head(toPage) = m /\ 1 \in 1..Len(toPage)
    BY TakingFirst DEF BacklogArrives, FirstMessage, TInv
<1>2. m.of \in Runtimes /\ m.after \in 0..MaxSeq /\ m.last \in 0..MaxSeq /\ m.running \in BOOLEAN /\ ~Untried(m.of)
      /\ rt \in [Runtimes -> RtRecord]
    BY <1>1, MessageFields, Members DEF TInv, Known
<1>3. rt' = [rt EXCEPT ![m.of] = Resumed(m.of, seqs, m)]
      /\ Resumed(m.of, seqs, m) = [rt[m.of] EXCEPT !.lastSeq = last, !.streaming = m.running]
      /\ shown' = IF Taken(m.of, seqs) = {} THEN shown ELSE [shown EXCEPT ![m.of] = @ \cup Taken(m.of, seqs)]
    BY <1>1 DEF BacklogArrives, Resumed
<1>4. seqs \subseteq 1..MaxSeq /\ (seqs = {} <=> m.last <= m.after)
    BY <1>2, ConstantsAssumption
<1>5. last \in {m.last, rt[m.of].lastSeq} /\ last \in 0..MaxSeq /\ rt[m.of].lastSeq <= last
      /\ (m.after <= rt[m.of].lastSeq => m.last <= last)
  <2>1. rt[m.of].lastSeq \in 0..MaxSeq
    BY <1>2 DEF RtRecord
  <2>2. CASE m.last <= m.after
    BY <1>2, <1>4, <2>1, <2>2, ConstantsAssumption DEF Bigger
  <2>3. CASE ~(m.last <= m.after)
    BY <1>2, <1>4, <2>1, <2>3, ConstantsAssumption DEF Bigger
  <2>4. QED
    BY <2>2, <2>3
<1>6. Taken(m.of, seqs) = {n \in (m.after + 1)..m.last : n > rt[m.of].lastSeq}
    BY DEF Taken
<1> HIDE DEF m, seqs, last
<1>7. /\ rt' \in [Runtimes -> RtRecord]
      /\ \A r \in Runtimes : rt'[r].session = rt[r].session /\ rt'[r].stage = rt[r].stage
      /\ \A r \in Runtimes : r # m.of => rt'[r] = rt[r]
      /\ rt'[m.of].lastSeq = last
  <2> DEFINE new == [rt[m.of] EXCEPT !.lastSeq = last, !.streaming = m.running]
  <2>1. /\ rt[m.of] \in RtRecord /\ new \in RtRecord
        /\ new.session = rt[m.of].session /\ new.stage = rt[m.of].stage /\ new.lastSeq = last
    BY <1>2, <1>5 DEF RtRecord
  <2>2. rt' = [rt EXCEPT ![m.of] = new]
    BY <1>3
  <2> HIDE DEF new
  <2>3. rt' \in [Runtimes -> RtRecord] /\ rt'[m.of] = new /\ \A r \in Runtimes : r # m.of => rt'[r] = rt[r]
    BY <1>2, <2>1, <2>2
  <2>4. QED
    BY <2>1, <2>3
<1>8. /\ shown' \in [Runtimes -> SUBSET (1..MaxSeq)] /\ shown'[m.of] = shown[m.of] \cup Taken(m.of, seqs)
      /\ \A r \in Runtimes : r # m.of => shown'[r] = shown[r]
    BY <1>2, <1>3, <1>4 DEF Taken, TInv, TypeOK
<1>9. Grown
    BY <1>7 DEF Grown, Untried, TInv, Known
<1>10. QED
    BY <1>1, <1>2, <1>5, <1>6, <1>7, <1>8, <1>9 DEF m

\* The start or end of a run changes `streaming` only.
LEMMA DeltaIsGrown ==
    ASSUME TInv, DeltaArrives
    PROVE  /\ toPage # <<>> /\ toPage[1].op = "delta" /\ toPage' = Tail(toPage)
           /\ Grown
           /\ \A r \in Runtimes : rt'[r].session = rt[r].session /\ rt'[r].stage = rt[r].stage /\ rt'[r].lastSeq = rt[r].lastSeq
<1> DEFINE m == toPage[1]
<1>1. toPage # <<>> /\ m.op = "delta" /\ toPage' = Tail(toPage) /\ Head(toPage) = m /\ 1 \in 1..Len(toPage)
    BY TakingFirst DEF DeltaArrives, FirstMessage, TInv
<1>2. m.running \in BOOLEAN /\ rt \in [Runtimes -> RtRecord]
    BY <1>1, MessageFields, Members DEF TInv
<1>3. rt' = [r \in Runtimes |-> IF r \in Following(m.session) THEN [rt[r] EXCEPT !.streaming = m.running] ELSE rt[r]]
    BY <1>1 DEF DeltaArrives
<1> HIDE DEF m
<1>4. rt' \in [Runtimes -> RtRecord]
      /\ \A r \in Runtimes : rt'[r].session = rt[r].session /\ rt'[r].stage = rt[r].stage /\ rt'[r].lastSeq = rt[r].lastSeq
    BY <1>2, <1>3 DEF RtRecord
<1>5. QED
    BY <1>1, <1>4 DEF Grown, Untried, TInv, Known, m

\* Starting a runtime changes that runtime only, and calls for its attachment.
LEMMA StartIsGrown ==
    ASSUME TInv, NEW r \in Runtimes, NEW s \in Sessions, Start(r, s)
    PROVE  /\ Untried(r) /\ Grown
           /\ rt'[r].session = s /\ rt'[r].lastSeq = 0 /\ rt'[r].stage = "attaching"
           /\ \A q \in Runtimes : q # r => rt'[q] = rt[q]
           /\ Calls([op |-> "attach", of |-> r], rt') /\ [op |-> "attach", of |-> r] \in Call
           /\ s # None
<1> DEFINE new == [session |-> s, lastSeq |-> 0, streaming |-> FALSE, stage |-> "attaching"]
<1>1. rt' = [rt EXCEPT ![r] = new] /\ Untried(r) /\ s # None /\ rt \in [Runtimes -> RtRecord]
    BY Members, ConstantsAssumption DEF Start, Untried, TInv
<1>2. new \in RtRecord /\ new.session = s /\ new.stage = "attaching" /\ new.lastSeq = 0
    BY ConstantsAssumption DEF RtRecord, Stages
<1> HIDE DEF new
<1>3. rt' \in [Runtimes -> RtRecord] /\ rt'[r] = new /\ \A q \in Runtimes : q # r => rt'[q] = rt[q]
    BY <1>1, <1>2
<1>4. Grown
    BY <1>1, <1>2, <1>3 DEF Grown, Untried, TInv, Known
<1>5. QED
    BY <1>1, <1>2, <1>3, <1>4 DEF Start, Call

\* Stopping changes a runtime's stage only.
LEMMA StopIsGrown ==
    ASSUME TInv, NEW r \in Runtimes, Stop(r)
    PROVE  /\ Grown
           /\ \A q \in Runtimes : rt'[q].session = rt[q].session /\ rt'[q].lastSeq = rt[q].lastSeq
           /\ \A q \in Runtimes : rt'[q].stage = IF q = r THEN "stopped" ELSE rt[q].stage
<1>1. rt \in [Runtimes -> RtRecord] /\ rt' = [rt EXCEPT ![r].stage = "stopped"] /\ rt[r].stage = "live"
    BY Members DEF Stop, TInv
<1>2. rt' \in [Runtimes -> RtRecord] /\ (\A q \in Runtimes : rt'[q].session = rt[q].session /\ rt'[q].lastSeq = rt[q].lastSeq)
      /\ \A q \in Runtimes : rt'[q].stage = IF q = r THEN "stopped" ELSE rt[q].stage
    BY <1>1 DEF RtRecord, Stages
<1>3. QED
    BY <1>1, <1>2 DEF Grown, Untried, TInv, Known

\* What the page does with a message leaves a well-typed state.
LEMMA ArrivesTypes ==
    ASSUME TInv, Arrives
    PROVE  TInv'
<1> USE DEF host, link, page, seen
<1>1. CASE EventArrives
  <2>1. Grown /\ toPage # <<>> /\ toPage' = Tail(toPage) /\ shown' \in [Runtimes -> SUBSET (1..MaxSeq)]
    BY <1>1, EventIsGrown
  <2>2. UNCHANGED <<host, toHost, socket, conn, loop, hostStatus, restarting, before, map, asking, resumed, queue, opened, base>>
    BY <1>1 DEF EventArrives
  <2>3. TypeOK'
    <3>1. toPage' \in Seq(Message) /\ rt' \in [Runtimes -> RtRecord] /\ TypeOK
      BY <2>1, TailTypes DEF Grown, TInv
    <3>2. QED
      BY <2>1, <2>2, <3>1 DEF TypeOK, RtRecord
  <2>4. Known'
    BY <2>1, <2>2, TailTypes, GrownKnown DEF Known, Untried
  <2>5. QED
    BY <2>3, <2>4 DEF TInv
<1>2. CASE DeltaArrives
  <2>1. Grown /\ toPage # <<>> /\ toPage' = Tail(toPage)
    BY <1>2, DeltaIsGrown
  <2>2. UNCHANGED <<host, toHost, socket, conn, loop, hostStatus, restarting, before, map, asking, resumed, queue, seen>>
    BY <1>2 DEF DeltaArrives
  <2>3. TypeOK'
    <3>1. toPage' \in Seq(Message) /\ rt' \in [Runtimes -> RtRecord] /\ TypeOK
      BY <2>1, TailTypes DEF Grown, TInv
    <3>2. QED
      BY <2>1, <2>2, <3>1 DEF TypeOK, RtRecord
  <2>4. Known'
    BY <2>1, <2>2, TailTypes, GrownKnown DEF Known, Untried
  <2>5. QED
    BY <2>3, <2>4 DEF TInv
<1>3. CASE Attached
  <2>1. Grown /\ toPage # <<>> /\ toPage' = Tail(toPage) /\ base' \in [Runtimes -> 0..MaxSeq]
    BY <1>3, AttachedIsGrown
  <2>2. UNCHANGED <<host, toHost, socket, conn, loop, hostStatus, restarting, before, map, asking, resumed, queue, shown, opened>>
    BY <1>3 DEF Attached
  <2>3. TypeOK'
    <3>1. toPage' \in Seq(Message) /\ rt' \in [Runtimes -> RtRecord] /\ TypeOK
      BY <2>1, TailTypes DEF Grown, TInv
    <3>2. QED
      BY <2>1, <2>2, <3>1 DEF TypeOK, RtRecord
  <2>4. Known'
    BY <2>1, <2>2, TailTypes, GrownKnown DEF Known, Untried
  <2>5. QED
    BY <2>3, <2>4 DEF TInv
<1>4. CASE BacklogArrives
  <2> DEFINE done == resumed \cup {Head(toPage).of}
  <2>1. Grown /\ toPage # <<>> /\ toPage' = Tail(toPage) /\ shown' \in [Runtimes -> SUBSET (1..MaxSeq)] /\ toPage[1].of \in Runtimes
    BY <1>4, BacklogIsGrown
  <2>2. resumed' = done /\ ResumeWith(NextToResume(done), toHost)
    BY <1>4 DEF BacklogArrives
  <2>3. resumed' \subseteq Runtimes
    BY <2>1, <2>2, TakingFirst DEF TInv, TypeOK
  <2> HIDE DEF done
  <2>4. /\ asking' \in Runtimes \cup {None}
        /\ conn' \in {"none", "connecting", "resuming", "open"} /\ before' \in BOOLEAN
        /\ hostStatus' \in {"connected", "reconnecting", "failed"} /\ loop' \in {"off", "delay", "waiting"}
        /\ toHost' \in Seq(Request) /\ queue' \in Seq(Call)
        /\ \A i \in 1..Len(toHost') : rt'[toHost'[i].of].stage # "new"
        /\ \A i \in 1..Len(queue') : rt'[queue'[i].of].stage # "new"
    BY <2>1, <2>2, ResumeIsTyped, Members DEF TInv, Known
  <2>5. UNCHANGED <<host, socket, restarting, map, opened, base>>
    BY <1>4 DEF BacklogArrives
  <2>6. TypeOK'
    <3>1. toPage' \in Seq(Message) /\ rt' \in [Runtimes -> RtRecord] /\ TypeOK
      BY <2>1, TailTypes DEF Grown, TInv
    <3>2. QED
      BY <2>1, <2>3, <2>4, <2>5, <3>1 DEF TypeOK, RtRecord, Call
  <2>7. Known'
    BY <2>1, <2>4, <2>5, TailTypes, GrownKnown DEF Known, Untried
  <2>8. QED
    BY <2>6, <2>7 DEF TInv
<1>5. QED
    BY <1>1, <1>2, <1>3, <1>4 DEF Arrives

\* The starts that wait fail.
LEMMA FailedIsGrown ==
    ASSUME TInv, StartsFail
    PROVE  /\ Grown /\ queue' = <<>> /\ queue' \in Seq(Call) /\ Len(queue') = 0
           /\ \A r \in Runtimes : rt'[r].session = rt[r].session /\ rt'[r].lastSeq = rt[r].lastSeq
           /\ \A r \in Runtimes : rt'[r].stage = IF rt[r].stage = "attaching" THEN "failed" ELSE rt[r].stage
<1> DEFINE failed(x) == IF x.stage = "attaching" THEN [x EXCEPT !.stage = "failed"] ELSE x
<1>t. rt \in [Runtimes -> RtRecord]
    BY Members DEF TInv
<1>f. \A x \in RtRecord :
        /\ failed(x) \in RtRecord /\ failed(x).session = x.session /\ failed(x).lastSeq = x.lastSeq
        /\ failed(x).stage = IF x.stage = "attaching" THEN "failed" ELSE x.stage
    BY DEF RtRecord, Stages
<1>d. rt' = [r \in Runtimes |-> failed(rt[r])]
    BY DEF StartsFail
<1> HIDE DEF failed
<1>1. rt' \in [Runtimes -> RtRecord]
      /\ (\A r \in Runtimes : rt'[r].session = rt[r].session /\ rt'[r].lastSeq = rt[r].lastSeq)
      /\ \A r \in Runtimes : rt'[r].stage = IF rt[r].stage = "attaching" THEN "failed" ELSE rt[r].stage
    BY <1>t, <1>f, <1>d
<1>2. Grown
    BY <1>1 DEF Grown, Untried, TInv, Known
<1>3. queue' = <<>> /\ queue' \in Seq(Call) /\ Len(queue') = 0
    BY DEF StartsFail
<1>4. QED
    BY <1>1, <1>2, <1>3

\* Opening, losing and opening again the connection leaves a well-typed state.
LEMMA LinkTypes ==
    ASSUME TInv, LinkNext
    PROVE  TInv'
<1> USE DEF host, link, page, seen
<1>1. CASE Connects
  <2>1. rt' = rt /\ Grown
    BY <1>1, SameIsGrown DEF Connects
  <2>2. /\ <<>> \in Seq(Request) /\ Len(<<>>) = 0 /\ <<>> \in Seq(Message)
        /\ \A i \in 1..Len(<<>>) : ~Untried(<<>>[i].of)
    OBVIOUS
  <2>3. /\ asking' \in Runtimes \cup {None}
        /\ conn' \in {"none", "connecting", "resuming", "open"} /\ before' \in BOOLEAN
        /\ hostStatus' \in {"connected", "reconnecting", "failed"} /\ loop' \in {"off", "delay", "waiting"}
        /\ toHost' \in Seq(Request) /\ queue' \in Seq(Call)
        /\ \A i \in 1..Len(toHost') : rt'[toHost'[i].of].stage # "new"
        /\ \A i \in 1..Len(queue') : rt'[queue'[i].of].stage # "new"
    <3>1. CASE before
      <4>1. ResumeWith(NextToResume({}), <<>>)
        BY <1>1, <3>1 DEF Connects
      <4>2. QED
        BY <2>1, <2>2, <4>1, ResumeIsTyped
    <3>2. CASE ~before
      <4>1. Opens(<<>>) /\ asking' = None
        BY <1>1, <3>2 DEF Connects
      <4>2. queue' = <<>> /\ Len(queue') = 0
        BY <4>1 DEF Opens
      <4>3. queue' \in Seq(Call) /\ \A i \in 1..Len(queue') : rt'[queue'[i].of].stage # "new"
        BY <4>2
      <4>4. QED
        BY <2>1, <2>2, <4>1, <4>3, OpensIsTyped
    <3>3. QED
        BY <3>1, <3>2
  <2>4. socket' = "live" /\ toPage' = <<>> /\ resumed' = {} /\ UNCHANGED <<host, restarting, map, rt, seen>>
    BY <1>1 DEF Connects
  <2>5. TypeOK'
    BY <2>2, <2>3, <2>4 DEF TInv, TypeOK, Call
  <2>6. Known'
    BY <2>1, <2>2, <2>3, <2>4, GrownKnown DEF Known, Untried
  <2>7. QED
    BY <2>5, <2>6 DEF TInv
<1>2. ASSUME NEW keepsCrashing \in BOOLEAN, ConnectFails(keepsCrashing)
      PROVE  TInv'
  <2>1. Grown /\ queue' \in Seq(Call) /\ Len(queue') = 0
    BY <1>2, FailedIsGrown DEF ConnectFails
  <2>2. conn' = "none" /\ loop' \in {"off", "delay", "waiting"} /\ hostStatus' \in {"connected", "reconnecting", "failed"}
        /\ UNCHANGED <<host, link, restarting, before, map, asking, resumed, seen>>
    BY <1>2 DEF ConnectFails, TInv, TypeOK
  <2>3. TypeOK'
    BY <2>1, <2>2 DEF TInv, TypeOK, Grown, RtRecord, Call
  <2>4. Known'
    BY <2>1, <2>2, GrownKnown DEF Known, Untried
  <2>5. QED
    BY <2>3, <2>4 DEF TInv
<1>3. CASE Lost
  <2>1. Grown /\ queue' \in Seq(Call) /\ Len(queue') = 0
    BY <1>3, FailedIsGrown DEF Lost
  <2>2. conn' = "none" /\ loop' \in {"off", "delay", "waiting"} /\ hostStatus' \in {"connected", "reconnecting", "failed"}
        /\ socket' = "none" /\ toPage' = <<>> /\ toHost' = <<>> /\ asking' = None
        /\ UNCHANGED <<host, restarting, before, map, resumed, seen>>
    BY <1>3 DEF Lost, TInv, TypeOK
  <2>3. <<>> \in Seq(Request) /\ Len(<<>>) = 0 /\ <<>> \in Seq(Message)
    OBVIOUS
  <2>4. TypeOK'
    BY <2>1, <2>2, <2>3 DEF TInv, TypeOK, Grown, RtRecord, Call
  <2>5. Known'
    BY <2>1, <2>2, <2>3, GrownKnown DEF Known, Untried
  <2>6. QED
    BY <2>4, <2>5 DEF TInv
<1>4. CASE Retries \/ RestartHost \/ ReconnectNow \/ UserCalls
  <2>1. conn' \in {"none", "connecting", "resuming", "open"} /\ loop' \in {"off", "delay", "waiting"}
        /\ hostStatus' \in {"connected", "reconnecting", "failed"} /\ restarting' \in BOOLEAN
        /\ UNCHANGED <<host, link, before, map, rt, asking, resumed, queue, seen>>
    BY <1>4 DEF Retries, RestartHost, ReconnectNow, UserCalls, Connecting, TInv, TypeOK
  <2>2. TypeOK'
    BY <2>1 DEF TInv, TypeOK
  <2>3. Known'
    BY <2>1 DEF TInv, Known, Untried
  <2>4. QED
    BY <2>2, <2>3 DEF TInv
<1>5. QED
    BY <1>1, <1>2, <1>3, <1>4 DEF LinkNext

\* A call of the page is typed, sent or waiting.
LEMMA CallsIsTyped ==
    ASSUME TInv, Grown, NEW call \in Call, rt'[call.of].stage # "new",
           NEW runtimes \in [Runtimes -> RtRecord], runtimes[call.of].session # None, Calls(call, runtimes)
    PROVE  /\ toHost' \in Seq(Request) /\ queue' \in Seq(Call)
           /\ \A i \in 1..Len(toHost') : rt'[toHost'[i].of].stage # "new"
           /\ \A i \in 1..Len(queue') : rt'[queue'[i].of].stage # "new"
<1> DEFINE request == RequestOf(call, runtimes)
<1>1. request \in Request /\ request.of = call.of
    BY RequestIsTyped DEF Call
<1>2. CASE conn = "open"
  <2>1. toHost' = Append(toHost, request) /\ queue' = queue
    BY <1>2 DEF Calls
  <2> HIDE DEF request
  <2>2. QED
    BY <1>1, <2>1, Members, GrownKnown DEF TInv
<1>3. CASE conn # "open"
  <2>1. toHost' = toHost /\ queue' = Append(queue, call)
    BY <1>3 DEF Calls
  <2>2. QED
    BY <2>1, Members, GrownKnown DEF TInv
<1>4. QED
    BY <1>2, <1>3

\* A sequence without its kth member is what came before it, then what came behind.
LEMMA RemovedExactly ==
    ASSUME NEW S, NEW s \in Seq(S), NEW k \in 1..Len(s)
    PROVE  /\ RemoveAt(s, k) \in Seq(S) /\ Len(RemoveAt(s, k)) = Len(s) - 1
           /\ \A j \in 1..Len(RemoveAt(s, k)) : RemoveAt(s, k)[j] = IF j <= k - 1 THEN s[j] ELSE s[j + 1]
<1> DEFINE front == SubSeq(s, 1, k - 1)
           back == SubSeq(s, k + 1, Len(s))
           t == RemoveAt(s, k)
<1>1. k \in Nat /\ Len(s) \in Nat /\ 1 <= k /\ k <= Len(s) /\ \A i \in 1..Len(s) : s[i] \in S
    BY ElementOfSeq
<1>2. front \in Seq(S) /\ Len(front) = k - 1 /\ \A i \in 1..(k - 1) : front[i] = s[i]
  <2>1. \A i \in 1..(k - 1) : s[i] \in S
    BY <1>1
  <2>2. front \in Seq(S) /\ Len(front) = (IF 1 <= k - 1 THEN k - 1 - 1 + 1 ELSE 0)
        /\ \A i \in 1..(k - 1 - 1 + 1) : front[i] = s[1 + i - 1]
    BY <1>1, <2>1, SubSeqProperties
  <2>3. QED
    BY <1>1, <2>2
<1>3. back \in Seq(S) /\ Len(back) = Len(s) - k /\ \A i \in 1..(Len(s) - k) : back[i] = s[k + i]
  <2>1. \A i \in (k + 1)..Len(s) : s[i] \in S
    BY <1>1
  <2>2. back \in Seq(S) /\ Len(back) = (IF k + 1 <= Len(s) THEN Len(s) - (k + 1) + 1 ELSE 0)
        /\ \A i \in 1..(Len(s) - (k + 1) + 1) : back[i] = s[(k + 1) + i - 1]
    BY <1>1, <2>1, SubSeqProperties
  <2>3. QED
    BY <1>1, <2>2
<1>4. t = front \o back
    BY DEF RemoveAt
<1> HIDE DEF front, back, t
<1>5. t \in Seq(S) /\ Len(t) = Len(s) - 1
      /\ \A i \in 1..(Len(s) - 1) : t[i] = IF i <= k - 1 THEN front[i] ELSE back[i - (k - 1)]
  <2>1. Len(front) + Len(back) = Len(s) - 1
    BY <1>1, <1>2, <1>3
  <2>2. /\ t \in Seq(S) /\ Len(t) = Len(front) + Len(back)
        /\ \A i \in 1..(Len(front) + Len(back)) : t[i] = IF i <= Len(front) THEN front[i] ELSE back[i - Len(front)]
    BY <1>2, <1>3, <1>4, ConcatProperties
  <2>3. QED
    BY <1>2, <2>1, <2>2
<1>6. ASSUME NEW j \in 1..Len(t)
      PROVE  t[j] = IF j <= k - 1 THEN s[j] ELSE s[j + 1]
  <2>1. CASE j <= k - 1
    <3>1. j \in 1..(k - 1)
        BY <1>1, <2>1
    <3>2. QED
        BY <1>2, <1>5, <2>1, <3>1
  <2>2. CASE ~(j <= k - 1)
    <3>1. j - (k - 1) \in 1..(Len(s) - k) /\ k + (j - (k - 1)) = j + 1
        BY <1>1, <1>5, <2>2
    <3>2. QED
        BY <1>3, <1>5, <2>2, <3>1
  <2>3. QED
    BY <2>1, <2>2
<1>7. QED
    BY <1>5, <1>6 DEF t

\* It has the others, and only them.
LEMMA RemovedAt ==
    ASSUME NEW S, NEW s \in Seq(S), NEW k \in 1..Len(s)
    PROVE  /\ RemoveAt(s, k) \in Seq(S)
           /\ \A j \in 1..Len(RemoveAt(s, k)) : \E i \in 1..Len(s) : RemoveAt(s, k)[j] = s[i]
           /\ \A i \in 1..Len(s) : i # k => \E j \in 1..Len(RemoveAt(s, k)) : RemoveAt(s, k)[j] = s[i]
<1>1. k \in Nat /\ Len(s) \in Nat /\ 1 <= k /\ k <= Len(s)
    OBVIOUS
<1> DEFINE t == RemoveAt(s, k)
<1>5. t \in Seq(S) /\ Len(t) = Len(s) - 1
    BY RemovedExactly
<1>6. \A j \in 1..Len(t) : t[j] = IF j <= k - 1 THEN s[j] ELSE s[j + 1]
    BY RemovedExactly
<1> HIDE DEF t
<1>7. ASSUME NEW j \in 1..Len(t)
      PROVE  \E i \in 1..Len(s) : t[j] = s[i]
  <2>1. j \in 1..Len(s) /\ j + 1 \in 1..Len(s)
    BY <1>1, <1>5
  <2>2. QED
    BY <1>6, <2>1
<1>8. ASSUME NEW i \in 1..Len(s), i # k
      PROVE  \E j \in 1..Len(t) : t[j] = s[i]
  <2>1. CASE i < k
    <3>1. i \in 1..Len(t) /\ i <= k - 1
        BY <1>1, <1>5, <2>1
    <3>2. QED
        BY <1>6, <3>1
  <2>2. CASE ~(i < k)
    <3>1. i - 1 \in 1..Len(t) /\ ~(i - 1 <= k - 1) /\ (i - 1) + 1 = i
        BY <1>1, <1>5, <1>8, <2>2
    <3>2. QED
        BY <1>6, <3>1
  <2>3. QED
    BY <2>1, <2>2
<1>9. QED
    BY <1>5, <1>7, <1>8 DEF t

\* Taking a runtime out of the map takes nobody else out.
LEMMA TakenOut ==
    ASSUME TypeOK, NEW r \in Runtimes, map' = Without(r)
    PROVE  /\ map' \in Seq(Runtimes)
           /\ \A j \in 1..Len(map') : \E i \in 1..Len(map) : map'[j] = map[i]
           /\ \A q \in Runtimes : InMap(q) /\ q # r => \E j \in 1..Len(map') : map'[j] = q
<1>1. CASE ~InMap(r)
    BY <1>1, Members DEF Without, InMap
<1>2. CASE InMap(r)
  <2> DEFINE k == CHOOSE i \in 1..Len(map) : map[i] = r
  <2>1. k \in 1..Len(map) /\ map[k] = r /\ map \in Seq(Runtimes)
    BY <1>2, Members DEF InMap
  <2>2. map' = RemoveAt(map, k)
    BY <1>2 DEF Without
  <2> HIDE DEF k
  <2>3. /\ RemoveAt(map, k) \in Seq(Runtimes)
        /\ \A j \in 1..Len(RemoveAt(map, k)) : \E i \in 1..Len(map) : RemoveAt(map, k)[j] = map[i]
        /\ \A i \in 1..Len(map) : i # k => \E j \in 1..Len(RemoveAt(map, k)) : RemoveAt(map, k)[j] = map[i]
    BY <2>1, RemovedAt
  <2> DEFINE left == RemoveAt(map, k)
  <2> HIDE DEF left
  <2>4. /\ map' = left /\ left \in Seq(Runtimes)
        /\ \A j \in 1..Len(left) : \E i \in 1..Len(map) : left[j] = map[i]
        /\ \A i \in 1..Len(map) : i # k => \E j \in 1..Len(left) : left[j] = map[i]
    BY <2>2, <2>3 DEF left
  <2>5. ASSUME NEW q \in Runtimes, InMap(q), q # r
        PROVE  \E j \in 1..Len(map') : map'[j] = q
    <3>1. PICK i \in 1..Len(map) : map[i] = q
        BY <2>5 DEF InMap
    <3>2. i # k
        BY <2>1, <2>5, <3>1
    <3>3. QED
        BY <2>4, <3>1, <3>2
  <2>6. QED
    BY <2>4, <2>5
<1>3. QED
    BY <1>1, <1>2

\* Starting and stopping a runtime leaves a well-typed state.
LEMMA RuntimeTypes ==
    ASSUME TInv, RuntimeNext
    PROVE  TInv'
<1> USE DEF host, link, page, seen
<1>r. rt \in [Runtimes -> RtRecord]
    BY Members DEF TInv
<1>1. ASSUME NEW r \in Runtimes, NEW s \in Sessions, Start(r, s)
      PROVE  TInv'
  <2> DEFINE call == [op |-> "attach", of |-> r]
  <2>1. Calls(call, rt') /\ call \in Call /\ call.of = r /\ map' = Append(map, r)
    BY <1>1, StartIsGrown DEF Start
  <2> HIDE DEF call
  <2>3. Grown /\ rt' \in [Runtimes -> RtRecord] /\ rt'[r].session # None /\ rt'[r].stage # "new"
    BY <1>1, StartIsGrown DEF Grown
  <2>5. /\ toHost' \in Seq(Request) /\ queue' \in Seq(Call)
        /\ \A i \in 1..Len(toHost') : rt'[toHost'[i].of].stage # "new"
        /\ \A i \in 1..Len(queue') : rt'[queue'[i].of].stage # "new"
    BY <2>1, <2>3, CallsIsTyped
  <2>6. map' \in Seq(Runtimes) /\ \A i \in 1..Len(map') : rt'[map'[i]].stage # "new"
    BY <2>1, <2>3, Members, GrownKnown DEF TInv
  <2>7. opened' \in [Runtimes -> SUBSET (1..MaxSeq)]
    <3>1. opened' = [opened EXCEPT ![r] = Past(s)] /\ log[s] \in 0..MaxSeq
        BY <1>1 DEF Start, TInv, TypeOK
    <3>2. Past(s) \subseteq 1..MaxSeq
        BY <3>1, ConstantsAssumption DEF Past
    <3>3. QED
        BY <3>1, <3>2 DEF TInv, TypeOK
  <2>8. conn' \in {"none", "connecting", "resuming", "open"}
    BY <1>1 DEF Start, Connecting, TInv, TypeOK
  <2>9. UNCHANGED <<host, toPage, socket, loop, hostStatus, restarting, before, asking, resumed, shown, base>>
    BY <1>1 DEF Start
  <2>10. TypeOK'
    BY <2>3, <2>5, <2>6, <2>7, <2>8, <2>9 DEF TInv, TypeOK, RtRecord, Call
  <2>11. Known'
    BY <2>3, <2>5, <2>6, <2>9, GrownKnown DEF Known, Untried
  <2>12. QED
    BY <2>10, <2>11 DEF TInv
<1>2. ASSUME NEW r \in Runtimes, Stop(r)
      PROVE  TInv'
  <2> DEFINE call == [op |-> "unsubscribe", of |-> r]
  <2>1. rt[r].stage = "live" /\ rt' = [rt EXCEPT ![r].stage = "stopped"] /\ call \in Call /\ call.of = r
    BY <1>2 DEF Stop, Call
  <2>2. \/ UNCHANGED <<toHost, queue>>
        \/ Calls(call, rt)
    BY <1>2 DEF Stop
  <2> HIDE DEF call
  <2>3. rt' \in [Runtimes -> RtRecord] /\ (\A q \in Runtimes : rt'[q].session = rt[q].session)
        /\ \A q \in Runtimes : rt'[q].stage = IF q = r THEN "stopped" ELSE rt[q].stage
    BY <1>r, <2>1 DEF RtRecord, Stages
  <2>4. Grown
    BY <2>1, <2>3 DEF Grown, Untried, TInv, Known
  <2>5. /\ toHost' \in Seq(Request) /\ queue' \in Seq(Call)
        /\ \A i \in 1..Len(toHost') : rt'[toHost'[i].of].stage # "new"
        /\ \A i \in 1..Len(queue') : rt'[queue'[i].of].stage # "new"
    <3>1. CASE UNCHANGED <<toHost, queue>>
        BY <2>4, <3>1, Members, GrownKnown DEF TInv
    <3>2. CASE Calls(call, rt)
      <4>1. rt[r].session # None
        BY <2>1 DEF TInv, Known, Untried
      <4>2. QED
        BY <1>r, <2>1, <2>3, <2>4, <3>2, <4>1, CallsIsTyped
    <3>3. QED
        BY <2>2, <3>1, <3>2
  <2>6. map' \in Seq(Runtimes) /\ \A i \in 1..Len(map') : rt'[map'[i]].stage # "new"
    <3>1. map' = Without(r)
        BY <1>2 DEF Stop
    <3>2. map' \in Seq(Runtimes) /\ \A j \in 1..Len(map') : \E i \in 1..Len(map) : map'[j] = map[i]
        BY <3>1, TakenOut DEF TInv
    <3>3. \A i \in 1..Len(map) : rt'[map[i]].stage # "new"
        BY <2>4, GrownKnown
    <3>4. QED
        BY <3>2, <3>3
  <2>7. UNCHANGED <<host, toPage, socket, conn, loop, hostStatus, restarting, before, asking, resumed, seen>>
    BY <1>2 DEF Stop
  <2>8. TypeOK'
    BY <2>3, <2>5, <2>6, <2>7 DEF TInv, TypeOK, RtRecord, Call
  <2>9. Known'
    BY <2>4, <2>5, <2>6, <2>7, GrownKnown DEF Known, Untried
  <2>10. QED
    BY <2>8, <2>9 DEF TInv
<1>3. QED
    BY <1>1, <1>2 DEF RuntimeNext

\* Any step leaves a well-typed state.
LEMMA TypeStep ==
    ASSUME TInv, [Next]_vars
    PROVE  TInv'
<1>1. CASE Next
    BY <1>1, HostTypes, ArrivesTypes, LinkTypes, RuntimeTypes DEF Next
<1>2. CASE UNCHANGED vars
    BY <1>2 DEF vars, host, link, page, seen, TInv, TypeOK, Known, Untried
<1>3. QED
    BY <1>1, <1>2

\* The page starts well-typed.
LEMMA TypeInit == Init => TInv
<1> SUFFICES ASSUME Init PROVE TInv
    OBVIOUS
<1>1. <<>> \in Seq(Request) /\ <<>> \in Seq(Message) /\ <<>> \in Seq(Runtimes) /\ <<>> \in Seq(Call) /\ Len(<<>>) = 0
    OBVIOUS
<1>2. rt \in [Runtimes -> RtRecord] /\ \A r \in Runtimes : rt[r].stage = "new"
    BY ConstantsAssumption DEF Init, RtRecord, Stages
<1>3. TypeOK
  <2>1. /\ log \in [Sessions -> 0..MaxSeq] /\ running \in [Sessions -> BOOLEAN]
        /\ watched \subseteq Sessions /\ crashes \in 0..MaxCrashes /\ resumed \subseteq Runtimes
        /\ shown \in [Runtimes -> SUBSET (1..MaxSeq)] /\ opened \in [Runtimes -> SUBSET (1..MaxSeq)]
        /\ base \in [Runtimes -> 0..MaxSeq]
    BY ConstantsAssumption DEF Init
  <2>2. /\ socket = "none" /\ conn = "none" /\ loop = "off" /\ hostStatus = "connected"
        /\ restarting = FALSE /\ before = FALSE /\ asking = None
        /\ toHost = <<>> /\ toPage = <<>> /\ map = <<>> /\ queue = <<>>
    BY DEF Init
  <2>3. QED
    BY <1>1, <1>2, <2>1, <2>2 DEF TypeOK, RtRecord, Call
<1>4. Known
    BY <1>1, <1>2 DEF Init, Known, Untried
<1>5. QED
    BY <1>3, <1>4 DEF TInv

\* Whatever the Host and the user do, the page's fields and the messages under way are well-typed.
THEOREM TypeCorrect == Spec => []TypeOK
<1>1. TInv => TypeOK
    BY DEF TInv
<1>2. QED
    BY <1>1, TypeInit, TypeStep, PTL DEF Spec

-----------------------------------------------------------------------------
(* Where messages can be *)

\* There is a socket, and something on it, only while there is a connection; while the page resumes,
\* one backlog at a time is asked for; an open connection has nobody waiting for it.
Wired ==
    /\ socket # "live" => watched = {}
    /\ conn \in {"none", "connecting"} => socket = "none" /\ toHost = <<>> /\ toPage = <<>>
    /\ conn \in {"resuming", "open"} => before
    /\ conn = "open" =>
          /\ queue = <<>>
          /\ \A i \in 1..Len(toHost) : toHost[i].op # "resume"
          /\ \A i \in 1..Len(toPage) : toPage[i].op # "resume"
    /\ conn = "resuming" =>
          /\ Len(toHost) <= 1
          /\ \A i \in 1..Len(toHost) : toHost[i].op = "resume"
          /\ \A i \in 1..Len(toPage) : toPage[i].op # "attach"
          /\ \A i \in 1..Len(toPage) : toPage[i].op = "resume" =>
                 toHost = <<>> /\ \A j \in 1..Len(toPage) : toPage[j].op = "resume" => j = i

\* The first message answers a resume only while the page resumes, and nothing is asked for then.
LEMMA ResumeMeansResuming ==
    ASSUME TInv, Wired, FirstMessage("resume")
    PROVE  /\ conn = "resuming" /\ toHost = <<>>
           /\ \A i \in 1..Len(Tail(toPage)) : Tail(toPage)[i].op \notin {"resume", "attach"}
<1>1. toPage # <<>> /\ toPage[1].op = "resume" /\ 1 \in 1..Len(toPage)
    BY TakingFirst DEF FirstMessage, TInv
<1>2. Len(toPage) # 0
    BY <1>1
<1>3. conn = "resuming"
    BY <1>1, <1>2 DEF Wired, TInv, TypeOK
<1>4. toHost = <<>> /\ \A j \in 1..Len(toPage) : toPage[j].op = "resume" => j = 1
    BY <1>1, <1>3 DEF Wired
<1>5. ASSUME NEW i \in 1..Len(Tail(toPage))
      PROVE  Tail(toPage)[i].op \notin {"resume", "attach"}
  <2>1. i + 1 \in 1..Len(toPage) /\ Tail(toPage)[i] = toPage[i + 1] /\ i + 1 # 1
    BY <1>1, TakingFirst DEF TInv
  <2>2. QED
    BY <1>3, <1>4, <2>1 DEF Wired
<1>6. QED
    BY <1>3, <1>4, <1>5

\* What goes out when the connection opens: the calls that waited, in order.
LEMMA OpensSends ==
    ASSUME TInv, Grown, Opens(<<>>)
    PROVE  /\ Len(toHost') = Len(queue)
           /\ \A i \in 1..Len(toHost') :
                /\ queue[i] \in Call /\ ~Untried(queue[i].of)
                /\ toHost'[i].op = queue[i].op /\ toHost'[i].of = queue[i].of
                /\ toHost'[i].session = rt'[queue[i].of].session /\ toHost'[i].after = rt'[queue[i].of].lastSeq
<1> DEFINE calls == [i \in 1..Len(queue) |-> RequestOf(queue[i], rt')]
<1>1. queue \in Seq(Call) /\ \A i \in 1..Len(queue) : queue[i] \in Call /\ ~Untried(queue[i].of)
    BY Members DEF TInv, Known
<1>2. ASSUME NEW i \in 1..Len(queue)
      PROVE  /\ RequestOf(queue[i], rt') \in Request
             /\ RequestOf(queue[i], rt').of = queue[i].of /\ RequestOf(queue[i], rt').op = queue[i].op
             /\ RequestOf(queue[i], rt').session = rt'[queue[i].of].session
             /\ RequestOf(queue[i], rt').after = rt'[queue[i].of].lastSeq
  <2>1. queue[i].of \in Runtimes /\ rt'[queue[i].of].session # None
    BY <1>1 DEF Call, Grown
  <2>2. queue[i].op \in {"attach", "resume", "unsubscribe"}
    BY <1>1 DEF Call
  <2>3. QED
    BY <2>1, <2>2, RequestIsTyped DEF Grown
<1>3. calls \in Seq(Request) /\ Len(calls) = Len(queue) /\ \A i \in 1..Len(calls) : calls[i] = RequestOf(queue[i], rt')
    BY <1>1, <1>2
<1>4. toHost' = <<>> \o calls
    BY DEF Opens
<1> HIDE DEF calls
<1>5. toHost' = calls
    BY <1>3, <1>4, ConcatEmptySeq
<1>6. QED
    BY <1>1, <1>2, <1>3, <1>5

\* Resuming the next runtime, or opening, with nothing under way to the Host.
LEMMA ResumeSends ==
    ASSUME TInv, Grown, NEW done, ResumeWith(NextToResume(done), <<>>)
    PROVE  \/ /\ Opens(<<>>) /\ asking' = None
           \/ \E i \in 1..Len(map) :
                /\ conn' = "resuming" /\ before' = before /\ queue' = queue /\ loop' = loop /\ hostStatus' = hostStatus
                /\ map[i] \in Runtimes /\ ~Untried(map[i])
                /\ Len(toHost') = 1
                /\ toHost'[1].op = "resume" /\ toHost'[1].of = map[i]
                /\ toHost'[1].session = rt'[map[i]].session /\ toHost'[1].after = rt'[map[i]].lastSeq
<1> DEFINE r == NextToResume(done)
           q == RequestOf([op |-> "resume", of |-> r], rt')
<1>1. CASE r = None
    BY <1>1 DEF ResumeWith
<1>2. CASE r # None
  <2>1. PICK i \in 1..Len(map) : r = map[i] /\ map[i] \in Runtimes /\ ~Untried(map[i])
    BY <1>2, NextIsLeft DEF TInv, Known
  <2>2. rt'[r].session # None
    BY <2>1 DEF Grown
  <2>3. q.of = r /\ q.op = "resume" /\ q.session = rt'[r].session /\ q.after = rt'[r].lastSeq
    BY DEF RequestOf
  <2>4. toHost' = Append(<<>>, q) /\ queue' = queue /\ conn' = "resuming" /\ before' = before
        /\ loop' = loop /\ hostStatus' = hostStatus
    BY <1>2 DEF ResumeWith
  <2> HIDE DEF q, r
  <2>5. Len(toHost') = 1 /\ toHost'[1] = q
    BY <2>4
  <2>6. QED
    BY <2>1, <2>3, <2>4, <2>5
<1>3. QED
    BY <1>1, <1>2

\* A page call while the connection is not open waits; on an open one it goes out.
LEMMA WiredCalls ==
    ASSUME TInv, Grown, Wired, NEW call \in Call, NEW runtimes \in [Runtimes -> RtRecord],
           runtimes[call.of].session # None, Calls(call, runtimes),
           conn' = conn \/ (conn = "none" /\ conn' = "connecting"),
           UNCHANGED <<watched, socket, toPage, before>>
    PROVE  Wired'
<1> DEFINE request == RequestOf(call, runtimes)
<1>1. request \in Request /\ request.op = call.op /\ call.op # "resume"
    BY RequestIsTyped DEF Call
<1>2. CASE conn = "open"
  <2>1. toHost' = Append(toHost, request) /\ queue' = queue
    BY <1>2 DEF Calls
  <2> HIDE DEF request
  <2>2. \A i \in 1..Len(toHost') : toHost'[i].op # "resume"
    BY <1>1, <1>2, <2>1, Members DEF Wired, TInv
  <2>3. QED
    BY <1>2, <2>1, <2>2 DEF Wired
<1>3. CASE conn # "open"
  <2>1. toHost' = toHost
    BY <1>3 DEF Calls
  <2>2. QED
    BY <1>3, <2>1 DEF Wired
<1>4. QED
    BY <1>2, <1>3

\* What the Host's answer to a subscription, or to its end, does to the socket.
LEMMA ServeSends ==
    ASSUME TInv, Wired, Serve
    PROVE  LET request == toHost[1] IN
           /\ conn \in {"resuming", "open"} /\ 1 \in 1..Len(toHost) /\ Len(toHost') = Len(toHost) - 1
           /\ \A i \in 1..Len(toHost') : i + 1 \in 1..Len(toHost) /\ toHost'[i] = toHost[i + 1] /\ i + 1 # 1
           /\ request.session \in Sessions /\ request.of \in Runtimes /\ ~Untried(request.of)
           /\ UNCHANGED <<log, running, crashes, socket, page, seen>>
           /\ \/ /\ request.op = "unsubscribe" /\ toPage' = toPage /\ watched' = watched \ {request.session}
              \/ /\ request.op \in {"attach", "resume"} /\ watched' = watched \cup {request.session}
                 /\ Len(toPage) \in Nat /\ Len(toPage') = Len(toPage) + 1
                 /\ \A i \in 1..Len(toPage) : toPage'[i] = toPage[i]
                 /\ LET answer == toPage'[Len(toPage) + 1] IN
                      /\ answer.op = request.op /\ answer.of = request.of
                      /\ answer.after = request.after /\ answer.last = log[request.session]
<1>1. conn \in {"resuming", "open"}
    BY DEF Serve, Wired, TInv, TypeOK
<1>2. toHost # <<>> /\ Head(toHost) = toHost[1] /\ 1 \in 1..Len(toHost)
      /\ toHost' = Tail(toHost) /\ Len(toHost') = Len(toHost) - 1
      /\ \A i \in 1..Len(toHost') : i + 1 \in 1..Len(toHost) /\ toHost'[i] = toHost[i + 1] /\ i + 1 # 1
    BY Members DEF Serve, TInv
<1>3. toHost[1] \in Request /\ ~Untried(toHost[1].of)
    BY <1>2, Members DEF TInv, Known
<1>4. toHost[1].session \in Sessions /\ toHost[1].of \in Runtimes /\ toHost[1].op \in {"attach", "resume", "unsubscribe"}
    BY <1>3 DEF Request
<1> DEFINE answer == [op |-> toHost[1].op, of |-> toHost[1].of, after |-> toHost[1].after,
                      last |-> log[toHost[1].session], running |-> running[toHost[1].session]]
<1>5. CASE toHost[1].op = "unsubscribe"
    BY <1>1, <1>2, <1>3, <1>4, <1>5 DEF Serve
<1>6. CASE toHost[1].op # "unsubscribe"
  <2>1. toPage' = Append(toPage, answer) /\ watched' = watched \cup {toHost[1].session}
    BY <1>2, <1>6 DEF Serve
  <2>2. answer.op = toHost[1].op /\ answer.of = toHost[1].of
        /\ answer.after = toHost[1].after /\ answer.last = log[toHost[1].session]
    OBVIOUS
  <2> HIDE DEF answer
  <2>3. Len(toPage) \in Nat /\ Len(toPage') = Len(toPage) + 1 /\ toPage'[Len(toPage) + 1] = answer
        /\ \A i \in 1..Len(toPage) : toPage'[i] = toPage[i]
    BY <2>1, SentLast DEF TInv
  <2>4. UNCHANGED <<log, running, crashes, socket, page, seen>>
    BY DEF Serve
  <2>5. QED
    BY <1>1, <1>2, <1>3, <1>4, <1>6, <2>1, <2>2, <2>3, <2>4
<1>7. QED
    BY <1>5, <1>6

\* What the Host notifies the page of.
LEMMA NotifySends ==
    ASSUME TInv, NEW s \in Sessions, Logs(s) \/ RunStartsOrEnds(s)
    PROVE  /\ UNCHANGED <<watched, crashes, toHost, socket, page, seen>>
           /\ \/ /\ toPage' = toPage /\ (log' = log \/ s \notin watched)
              \/ /\ s \in watched /\ Len(toPage) \in Nat /\ Len(toPage') = Len(toPage) + 1
                 /\ \A i \in 1..Len(toPage) : toPage'[i] = toPage[i]
                 /\ LET m == toPage'[Len(toPage) + 1] IN
                      \/ m.op = "delta" /\ log' = log
                      \/ m.op = "event" /\ m.session = s /\ m.seq = log[s] + 1 /\ log'[s] = log[s] + 1
           /\ log' \in [Sessions -> Nat] /\ log \in [Sessions -> Nat]
           /\ \A q \in Sessions : log[q] <= log'[q] /\ (q # s => log'[q] = log[q])
<1> DEFINE event == [op |-> "event", session |-> s, seq |-> log[s] + 1]
           delta == [op |-> "delta", session |-> s, running |-> ~running[s]]
<1>1. log \in [Sessions -> 0..MaxSeq] /\ log \in [Sessions -> Nat]
    BY DEF TInv, TypeOK
<1>2. /\ UNCHANGED <<watched, crashes, toHost, socket, page, seen>>
      /\ \/ log' = log
         \/ log' = [log EXCEPT ![s] = @ + 1]
    BY DEF Logs, RunStartsOrEnds
<1>3. /\ log' \in [Sessions -> Nat] /\ \A q \in Sessions : log[q] <= log'[q] /\ (q # s => log'[q] = log[q])
    BY <1>1, <1>2
<1>4. \/ toPage' = toPage /\ (log' = log \/ s \notin watched)
      \/ s \in watched /\ toPage' = Append(toPage, delta) /\ log' = log
      \/ s \in watched /\ toPage' = Append(toPage, event) /\ log' = [log EXCEPT ![s] = @ + 1]
    BY DEF Logs, RunStartsOrEnds, Notify
<1>5. delta.op = "delta" /\ event.op = "event" /\ event.session = s /\ event.seq = log[s] + 1
    OBVIOUS
<1> HIDE DEF event, delta
<1>6. CASE toPage' = toPage
    BY <1>1, <1>2, <1>3, <1>4, <1>6, SentLast DEF TInv
<1>7. CASE s \in watched /\ toPage' = Append(toPage, delta) /\ log' = log
    BY <1>1, <1>2, <1>3, <1>5, <1>7, SentLast DEF TInv
<1>8. CASE s \in watched /\ toPage' = Append(toPage, event) /\ log' = [log EXCEPT ![s] = @ + 1]
  <2>1. log'[s] = log[s] + 1
    BY <1>1, <1>8
  <2>2. QED
    BY <1>1, <1>2, <1>3, <1>5, <1>8, <2>1, SentLast DEF TInv
<1>9. QED
    BY <1>4, <1>6, <1>7, <1>8

\* Every step leaves the wires so.
LEMMA WiredStep ==
    ASSUME TInv, Wired, [Next]_vars
    PROVE  Wired'
<1> USE DEF host, link, page, seen
<1>c. conn \in {"none", "connecting", "resuming", "open"}
    BY DEF TInv, TypeOK
<1>1. CASE Serve
  <2>1. conn \in {"resuming", "open"} /\ socket = "live" /\ socket' = "live" /\ UNCHANGED <<conn, before, queue>>
    BY <1>1, <1>c DEF Serve, Wired
  <2>2. /\ Len(toPage) \in Nat /\ Len(toHost) \in Nat /\ 1 \in 1..Len(toHost) /\ Len(toHost') = Len(toHost) - 1
        /\ \A i \in 1..Len(toHost') : i + 1 \in 1..Len(toHost) /\ toHost'[i] = toHost[i + 1]
    BY <1>1, ServeSends, Members DEF TInv
  <2>3. \/ toHost[1].op = "unsubscribe" /\ toPage' = toPage
        \/ /\ Len(toPage') = Len(toPage) + 1 /\ toPage'[Len(toPage) + 1].op = toHost[1].op
           /\ \A i \in 1..Len(toPage) : toPage'[i] = toPage[i]
    BY <1>1, ServeSends
  <2>4. CASE conn = "open"
    <3>1. \A i \in 1..Len(toPage') : toPage'[i].op # "resume"
      <4>1. toHost[1].op # "resume" /\ \A i \in 1..Len(toPage) : toPage[i].op # "resume"
        BY <2>2, <2>4 DEF Wired
      <4>2. CASE toPage' = toPage
        BY <4>1, <4>2
      <4>3. CASE toPage' # toPage
        BY <2>2, <2>3, <4>1, <4>3
      <4>4. QED
        BY <4>2, <4>3
    <3>2. QED
        BY <2>1, <2>2, <2>4, <3>1 DEF Wired
  <2>5. CASE conn = "resuming"
    <3>1. Len(toHost') = 0 /\ toHost' = <<>> /\ toHost[1].op = "resume"
      <4>1. Len(toHost') = 0 /\ toHost[1].op = "resume"
        BY <2>2, <2>5 DEF Wired
      <4>2. TInv'
        BY TypeStep
      <4>3. toHost' \in Seq(Request)
        BY <4>2 DEF TInv, TypeOK
      <4>4. QED
        BY <4>1, <4>3
    <3>2. \A i \in 1..Len(toPage) : toPage[i].op \notin {"resume", "attach"}
        BY <2>2, <2>5 DEF Wired
    <3>3. Len(toPage) \in Nat
        BY Members DEF TInv
    <3>4. \A i \in 1..Len(toPage') : toPage'[i].op # "attach" /\ (toPage'[i].op = "resume" => i = Len(toPage) + 1)
        BY <2>3, <3>1, <3>2, <3>3
    <3>5. QED
        BY <2>1, <2>5, <3>1, <3>4 DEF Wired
  <2>6. QED
    BY <2>1, <2>4, <2>5
<1>2. CASE Dies
  <2>1. watched' = {} /\ toHost' = <<>> /\ UNCHANGED <<toPage, conn, before, queue>> /\ Len(toHost') = 0
        /\ socket' = IF socket = "live" THEN "dead" ELSE socket
    BY <1>2 DEF Dies
  <2>2. QED
    BY <2>1 DEF Wired
<1>3. ASSUME NEW s \in Sessions, Logs(s) \/ RunStartsOrEnds(s)
      PROVE  Wired'
  <2>1. UNCHANGED <<watched, toHost, socket, conn, before, queue>>
    BY <1>3, NotifySends
  <2>2. CASE toPage' = toPage
    BY <2>1, <2>2 DEF Wired
  <2>3. CASE toPage' # toPage
    <3>1. s \in watched /\ \A i \in 1..Len(toPage') : toPage'[i].op \in {"attach", "resume"} =>
                              i \in 1..Len(toPage) /\ toPage'[i] = toPage[i]
        BY <1>3, <2>3, NotifySends
    <3>2. conn \in {"resuming", "open"}
        BY <1>c, <3>1 DEF Wired
    <3>3. QED
        BY <2>1, <3>1, <3>2 DEF Wired
  <2>4. QED
    BY <2>2, <2>3
<1>4. CASE EventArrives \/ DeltaArrives \/ Attached
  <2>1. toPage # <<>> /\ toPage' = Tail(toPage) /\ UNCHANGED <<watched, toHost, socket, conn, before, queue>>
    BY <1>4 DEF EventArrives, DeltaArrives, Attached, FirstMessage
  <2>2. \A i \in 1..Len(toPage') : i + 1 \in 1..Len(toPage) /\ toPage'[i] = toPage[i + 1] /\ i \in Int
    BY <2>1, TakingFirst DEF TInv
  <2>3. conn \in {"resuming", "open"}
    BY <1>c, <2>1 DEF Wired
  <2>4. CASE conn = "open"
    BY <2>1, <2>2, <2>4 DEF Wired
  <2>5. CASE conn = "resuming"
    <3>1. \A i \in 1..Len(toPage') : toPage'[i].op = "resume" => \A j \in 1..Len(toPage') : toPage'[j].op = "resume" => j = i
      <4> TAKE i \in 1..Len(toPage')
      <4> HAVE toPage'[i].op = "resume"
      <4> TAKE j \in 1..Len(toPage')
      <4> HAVE toPage'[j].op = "resume"
      <4>1. i + 1 = j + 1
        BY <2>2, <2>5 DEF Wired
      <4>2. QED
        BY <2>2, <4>1
    <3>2. QED
        BY <2>1, <2>2, <2>5, <3>1 DEF Wired
  <2>6. QED
    BY <2>3, <2>4, <2>5
<1>5. CASE BacklogArrives
  <2> DEFINE done == resumed \cup {Head(toPage).of}
  <2>1. FirstMessage("resume") /\ toPage' = Tail(toPage) /\ UNCHANGED <<watched, socket>>
    BY <1>5 DEF BacklogArrives
  <2>2. /\ conn = "resuming" /\ toHost = <<>>
        /\ \A i \in 1..Len(toPage') : toPage'[i].op \notin {"resume", "attach"}
    BY <2>1, ResumeMeansResuming
  <2>3. Grown
    BY <1>5, BacklogIsGrown
  <2>4. ResumeWith(NextToResume(done), <<>>)
    BY <1>5, <2>2 DEF BacklogArrives
  <2>5. before /\ (socket' # "live" => watched' = {})
    BY <2>1, <2>2 DEF Wired
  <2> HIDE DEF done
  <2>6. CASE Opens(<<>>)
    <3>1. \A i \in 1..Len(toHost') : toHost'[i].op # "resume"
        BY <2>3, <2>6, OpensSends DEF Call
    <3>2. conn' = "open" /\ before' /\ queue' = <<>>
        BY <2>6 DEF Opens
    <3>3. QED
        BY <2>2, <2>5, <3>1, <3>2 DEF Wired
  <2>7. CASE ~Opens(<<>>)
    <3>1. conn' = "resuming" /\ before' = before /\ Len(toHost') = 1 /\ toHost'[1].op = "resume"
        BY <2>3, <2>4, <2>7, ResumeSends
    <3>2. \A i \in 1..Len(toHost') : toHost'[i].op = "resume"
        BY <3>1
    <3>3. QED
        BY <2>2, <2>5, <3>1, <3>2 DEF Wired
  <2>8. QED
    BY <2>6, <2>7
<1>6. CASE Connects
  <2>1. Grown /\ conn = "connecting" /\ toPage' = <<>> /\ Len(toPage') = 0 /\ socket' = "live"
    BY <1>6, SameIsGrown DEF Connects
  <2>2. \/ Opens(<<>>)
        \/ before /\ ~Opens(<<>>) /\ ResumeWith(NextToResume({}), <<>>)
    BY <1>6 DEF Connects
  <2>3. CASE Opens(<<>>)
    <3>1. \A i \in 1..Len(toHost') : toHost'[i].op # "resume"
        BY <2>1, <2>3, OpensSends DEF Call
    <3>2. conn' = "open" /\ before' /\ queue' = <<>>
        BY <2>3 DEF Opens
    <3>3. QED
        BY <2>1, <3>1, <3>2 DEF Wired
  <2>4. CASE before /\ ~Opens(<<>>) /\ ResumeWith(NextToResume({}), <<>>)
    <3>1. conn' = "resuming" /\ before' = before /\ Len(toHost') = 1 /\ toHost'[1].op = "resume"
        BY <2>1, <2>4, ResumeSends
    <3>2. \A i \in 1..Len(toHost') : toHost'[i].op = "resume"
        BY <3>1
    <3>3. QED
        BY <2>1, <2>4, <3>1, <3>2 DEF Wired
  <2>5. QED
    BY <2>2, <2>3, <2>4
<1>7. ASSUME NEW k \in BOOLEAN, ConnectFails(k)
      PROVE  Wired'
    BY <1>7 DEF ConnectFails, Wired
<1>8. CASE Lost
  <2>1. socket = "dead" /\ conn' = "none" /\ socket' = "none" /\ toHost' = <<>> /\ toPage' = <<>> /\ watched' = watched
    BY <1>8 DEF Lost
  <2>2. QED
    BY <2>1 DEF Wired
<1>9. CASE Retries \/ RestartHost \/ ReconnectNow \/ UserCalls
  <2>1. UNCHANGED <<watched, toHost, toPage, socket, before, queue>> /\ (conn' = conn \/ (conn = "none" /\ conn' = "connecting"))
    BY <1>9 DEF Retries, RestartHost, ReconnectNow, UserCalls, Connecting
  <2>2. QED
    BY <2>1 DEF Wired
<1>10. ASSUME NEW r \in Runtimes, NEW s \in Sessions, Start(r, s)
       PROVE  Wired'
  <2> DEFINE call == [op |-> "attach", of |-> r]
  <2>1. Calls(call, rt') /\ call \in Call /\ rt'[call.of].session # None /\ Grown /\ rt' \in [Runtimes -> RtRecord]
    BY <1>10, StartIsGrown DEF Grown
  <2>2. conn' = Connecting /\ UNCHANGED <<watched, socket, toPage, before>>
    BY <1>10 DEF Start
  <2> HIDE DEF call
  <2>3. QED
    BY <2>1, <2>2, WiredCalls DEF Connecting
<1>11. ASSUME NEW r \in Runtimes, Stop(r)
       PROVE  Wired'
  <2> DEFINE call == [op |-> "unsubscribe", of |-> r]
  <2>1. rt[r].stage = "live" /\ call \in Call /\ call.of = r /\ rt[r].session # None /\ rt \in [Runtimes -> RtRecord]
    BY <1>11, Members DEF Stop, Call, TInv, Known, Untried
  <2>2. UNCHANGED <<watched, socket, toPage, before, conn>> /\ (UNCHANGED <<toHost, queue>> \/ Calls(call, rt))
    BY <1>11 DEF Stop
  <2>3. Grown
    BY <1>11, StopIsGrown
  <2> HIDE DEF call
  <2>4. CASE UNCHANGED <<toHost, queue>>
    BY <2>2, <2>4 DEF Wired
  <2>5. QED
    BY <2>1, <2>2, <2>3, <2>4, WiredCalls
<1>12. CASE UNCHANGED vars
    BY <1>12 DEF vars, Wired
<1>13. QED
    BY <1>1, <1>2, <1>3, <1>4, <1>5, <1>6, <1>7, <1>8, <1>9, <1>10, <1>11, <1>12
    DEF Next, HostNext, Arrives, LinkNext, RuntimeNext

\* Nothing is on the wires at the start.
LEMMA WiredInit == Init => Wired
BY DEF Init, Wired

-----------------------------------------------------------------------------
(* The banner *)

\* Until it is open again, a connection that was open once is retried, or given up aloud.
Banner ==
    /\ conn \in {"none", "connecting"} /\ before => loop # "off" \/ hostStatus = "failed"
    /\ conn = "open" => hostStatus = "connected"
    /\ conn = "resuming" => socket = "live"

\* Losing, retrying and giving up keep the banner true.
LEMMA BannerStep ==
    ASSUME ~RetriesOnline, ~DiesInResume, TInv, Wired, Banner, [Next]_vars
    PROVE  Banner'
<1> USE DEF host, link, page, seen
<1>c. conn \in {"none", "connecting", "resuming", "open"} /\ loop \in {"off", "delay", "waiting"}
    BY DEF TInv, TypeOK
<1>1. CASE HostNext
  <2>1. CASE Dies
    BY <2>1 DEF Dies, Banner
  <2>2. CASE ~Dies
    <3>1. UNCHANGED <<conn, loop, hostStatus, before, socket>>
        BY <1>1, <2>2 DEF HostNext, Serve, Logs, RunStartsOrEnds
    <3>2. QED
        BY <3>1 DEF Banner
  <2>3. QED
    BY <2>1, <2>2
<1>2. CASE EventArrives \/ DeltaArrives \/ Attached
  <2>1. UNCHANGED <<conn, loop, hostStatus, before, socket>>
    BY <1>2 DEF EventArrives, DeltaArrives, Attached
  <2>2. QED
    BY <2>1 DEF Banner
<1>3. CASE BacklogArrives
  <2>1. conn = "resuming" /\ toHost = <<>> /\ Grown /\ socket' = socket
    BY <1>3, ResumeMeansResuming, BacklogIsGrown DEF BacklogArrives
  <2>2. ResumeWith(NextToResume(resumed \cup {Head(toPage).of}), <<>>)
    BY <1>3, <2>1 DEF BacklogArrives
  <2>3. \/ Opens(<<>>)
        \/ conn' = "resuming"
    BY <2>1, <2>2, ResumeSends
  <2>4. QED
    BY <2>1, <2>3 DEF Opens, Banner
<1>4. CASE Connects
  <2>1. Grown /\ socket' = "live"
    BY <1>4, SameIsGrown DEF Connects
  <2>2. Opens(<<>>) \/ ResumeWith(NextToResume({}), <<>>)
    BY <1>4 DEF Connects
  <2>3. \/ Opens(<<>>)
        \/ conn' = "resuming"
    BY <2>1, <2>2, ResumeSends
  <2>4. QED
    BY <2>1, <2>3 DEF Opens, Banner
<1>5. ASSUME NEW k \in BOOLEAN, ConnectFails(k)
      PROVE  Banner'
    BY <1>5 DEF ConnectFails, Banner
<1>6. CASE Lost
  <2>1. conn = "open"
    BY <1>6, <1>c DEF Lost, Wired, Banner
  <2>2. conn' = "none" /\ loop' # "off"
    BY <1>6, <2>1 DEF Lost
  <2>3. QED
    BY <2>2 DEF Banner
<1>7. CASE Retries
    BY <1>7, <1>c DEF Retries, Connecting, Banner
<1>8. CASE RestartHost \/ UserCalls
    BY <1>8 DEF RestartHost, UserCalls, Banner
<1>9. CASE ReconnectNow
    BY <1>9 DEF ReconnectNow, Connecting, Banner
<1>10. CASE RuntimeNext
  <2>1. (conn' = conn \/ (conn = "none" /\ conn' = "connecting")) /\ UNCHANGED <<socket, loop, hostStatus, before>>
    BY <1>10 DEF RuntimeNext, Start, Stop, Connecting
  <2>2. QED
    BY <2>1 DEF Banner
<1>11. CASE UNCHANGED vars
    BY <1>11 DEF vars, Banner
<1>12. QED
    BY <1>1, <1>2, <1>3, <1>4, <1>5, <1>6, <1>7, <1>8, <1>9, <1>10, <1>11 DEF Next, Arrives, LinkNext

\* A page that lost its connection is reconnecting or says that it has given up, and its banner is
\* true of an open connection, when reconnectNow comes before any other call connects and the Host
\* does not die while runtimes are resumed (lost, reconnect and rpc of harnessRuntime.ts).
THEOREM LostConnectionIsNoticed ==
    ASSUME ~RetriesOnline, ~DiesInResume
    PROVE  Spec => []LostIsNoticed
<1>1. Init => TInv /\ Wired /\ Banner
    BY TypeInit, WiredInit DEF Init, Banner
<1>2. TInv /\ Wired /\ Banner /\ [Next]_vars => (TInv /\ Wired /\ Banner)'
    BY TypeStep, WiredStep, BannerStep
<1>3. Banner => LostIsNoticed
    BY DEF Banner, LostIsNoticed
<1>4. QED
    BY <1>1, <1>2, <1>3, PTL DEF Spec

-----------------------------------------------------------------------------
(* Attachments under way *)

\* Once the page was connected, a runtime waits for its attachment only on an open connection.
NoneWaits == before /\ conn # "open" => \A r \in Runtimes : rt[r].stage # "attaching"

\* A runtime that is being attached has one call, request or answer for it under way.
Attaching ==
    /\ \A i \in 1..Len(queue) : queue[i].op = "attach" =>
          /\ rt[queue[i].of].stage = "attaching"
          /\ \A j \in 1..Len(queue) : queue[j].op = "attach" /\ queue[j].of = queue[i].of => j = i
    /\ \A i \in 1..Len(toHost) : toHost[i].op = "attach" =>
          /\ rt[toHost[i].of].stage = "attaching"
          /\ \A j \in 1..Len(toHost) : toHost[j].op = "attach" /\ toHost[j].of = toHost[i].of => j = i
          /\ \A j \in 1..Len(toPage) : toPage[j].op = "attach" => toPage[j].of # toHost[i].of
    /\ \A i \in 1..Len(toPage) : toPage[i].op = "attach" =>
          /\ rt[toPage[i].of].stage = "attaching"
          /\ \A j \in 1..Len(toPage) : toPage[j].op = "attach" /\ toPage[j].of = toPage[i].of => j = i

\* A start waits for an open connection, and one that is lost fails those who wait.
LEMMA NoneWaitsStep ==
    ASSUME ~StartsOffline, TInv, Wired, NoneWaits, [Next]_vars
    PROVE  NoneWaits'
<1> USE DEF host, link, page, seen
<1>1. CASE HostNext \/ RestartHost
    BY <1>1 DEF HostNext, Serve, Dies, Logs, RunStartsOrEnds, RestartHost, NoneWaits
<1>2. CASE EventArrives \/ DeltaArrives \/ Attached
  <2>1. \A r \in Runtimes : rt'[r].stage = "attaching" => rt[r].stage = "attaching"
    BY <1>2, EventIsGrown, DeltaIsGrown, AttachedIsGrown
  <2>2. UNCHANGED <<conn, before>>
    BY <1>2 DEF EventArrives, DeltaArrives, Attached
  <2>3. QED
    BY <2>1, <2>2 DEF NoneWaits
<1>3. CASE BacklogArrives
  <2>1. conn = "resuming" /\ before
    BY <1>3, ResumeMeansResuming DEF BacklogArrives, Wired
  <2>2. \A r \in Runtimes : rt'[r].stage = rt[r].stage
    BY <1>3, BacklogIsGrown
  <2>3. QED
    BY <2>1, <2>2 DEF NoneWaits
<1>4. CASE Connects
  <2>1. conn = "connecting" /\ rt' = rt /\ (before \/ Opens(<<>>))
    BY <1>4 DEF Connects
  <2>2. QED
    BY <2>1 DEF Opens, NoneWaits
<1>5. CASE Lost \/ \E k \in BOOLEAN : ConnectFails(k)
    BY <1>5, FailedIsGrown DEF Lost, ConnectFails, NoneWaits
<1>6. CASE Retries \/ ReconnectNow \/ UserCalls
  <2>1. UNCHANGED <<before, rt>> /\ (conn = "open" => conn' = "open")
    BY <1>6 DEF Retries, ReconnectNow, UserCalls, Connecting
  <2>2. QED
    BY <2>1 DEF NoneWaits
<1>7. ASSUME NEW r \in Runtimes, NEW s \in Sessions, Start(r, s)
      PROVE  NoneWaits'
    BY <1>7 DEF Start, Connecting, NoneWaits
<1>8. ASSUME NEW r \in Runtimes, Stop(r)
      PROVE  NoneWaits'
  <2>1. \A q \in Runtimes : rt'[q].stage = "attaching" => rt[q].stage = "attaching"
    BY <1>8, StopIsGrown
  <2>2. UNCHANGED <<conn, before>>
    BY <1>8 DEF Stop
  <2>3. QED
    BY <2>1, <2>2 DEF NoneWaits
<1>9. CASE UNCHANGED vars
    BY <1>9 DEF vars, NoneWaits
<1>10. QED
    BY <1>1, <1>2, <1>3, <1>4, <1>5, <1>6, <1>7, <1>8, <1>9 DEF Next, Arrives, LinkNext, RuntimeNext

\* A call of the page goes out last, or waits last.
LEMMA CallsSends ==
    ASSUME TInv, NEW call \in Call, NEW runtimes \in [Runtimes -> RtRecord],
           runtimes[call.of].session # None, Calls(call, runtimes)
    PROVE  \/ /\ conn = "open" /\ queue' = queue /\ Len(toHost) \in Nat /\ Len(toHost') = Len(toHost) + 1
              /\ \A i \in 1..Len(toHost) : toHost'[i] = toHost[i]
              /\ LET request == toHost'[Len(toHost) + 1] IN
                   /\ request.op = call.op /\ request.of = call.of
                   /\ request.session = runtimes[call.of].session /\ request.after = runtimes[call.of].lastSeq
           \/ /\ conn # "open" /\ toHost' = toHost /\ Len(queue) \in Nat /\ Len(queue') = Len(queue) + 1
              /\ \A i \in 1..Len(queue) : queue'[i] = queue[i]
              /\ queue'[Len(queue) + 1] = call
<1> DEFINE request == RequestOf(call, runtimes)
<1>1. request.op = call.op /\ request.of = call.of
      /\ request.session = runtimes[call.of].session /\ request.after = runtimes[call.of].lastSeq
    BY RequestIsTyped DEF Call
<1>2. CASE conn = "open"
  <2>1. toHost' = Append(toHost, request) /\ queue' = queue
    BY <1>2 DEF Calls
  <2> HIDE DEF request
  <2>2. QED
    BY <1>1, <1>2, <2>1, Members DEF TInv
<1>3. CASE conn # "open"
  <2>1. toHost' = toHost /\ queue' = Append(queue, call)
    BY <1>3 DEF Calls
  <2>2. QED
    BY <1>3, <2>1, Members DEF TInv
<1>4. QED
    BY <1>2, <1>3

\* A step that sends no attachment, and changes the stage of none that waits.
LEMMA AttachingKept ==
    ASSUME TInv, Attaching,
           \A r \in Runtimes : rt[r].stage = "attaching" => rt'[r].stage = "attaching",
           \A i \in 1..Len(queue') : queue'[i].op = "attach" => i \in 1..Len(queue) /\ queue[i] = queue'[i],
           \A i \in 1..Len(toHost') : toHost'[i].op = "attach" => i \in 1..Len(toHost) /\ toHost[i] = toHost'[i],
           \A i \in 1..Len(toPage') : toPage'[i].op = "attach" => i \in 1..Len(toPage) /\ toPage[i] = toPage'[i]
    PROVE  Attaching'
<1>1. /\ \A i \in 1..Len(queue) : queue[i].of \in Runtimes
      /\ \A i \in 1..Len(toHost) : toHost[i].of \in Runtimes
      /\ \A i \in 1..Len(toPage) : toPage[i].op = "attach" => toPage[i].of \in Runtimes
    BY Members, MessageFields DEF TInv, Call, Request
<1>2. \A i \in 1..Len(queue') : queue'[i].op = "attach" =>
        /\ rt'[queue'[i].of].stage = "attaching"
        /\ \A j \in 1..Len(queue') : queue'[j].op = "attach" /\ queue'[j].of = queue'[i].of => j = i
    BY <1>1 DEF Attaching
<1>3. \A i \in 1..Len(toHost') : toHost'[i].op = "attach" =>
        /\ rt'[toHost'[i].of].stage = "attaching"
        /\ \A j \in 1..Len(toHost') : toHost'[j].op = "attach" /\ toHost'[j].of = toHost'[i].of => j = i
    BY <1>1 DEF Attaching
<1>4. \A i \in 1..Len(toHost') : toHost'[i].op = "attach" =>
        \A j \in 1..Len(toPage') : toPage'[j].op = "attach" => toPage'[j].of # toHost'[i].of
    BY DEF Attaching
<1>5. \A i \in 1..Len(toPage') : toPage'[i].op = "attach" =>
        /\ rt'[toPage'[i].of].stage = "attaching"
        /\ \A j \in 1..Len(toPage') : toPage'[j].op = "attach" /\ toPage'[j].of = toPage'[i].of => j = i
    BY <1>1 DEF Attaching
<1>6. QED
    BY <1>2, <1>3, <1>4, <1>5 DEF Attaching

\* A start makes one call, which becomes one request, and one answer; a lost connection drops it.
LEMMA AttachingStep ==
    ASSUME TInv, Wired, Attaching, [Next]_vars
    PROVE  Attaching'
<1> USE DEF host, link, page, seen
<1>t. /\ \A i \in 1..Len(queue) : queue[i].of \in Runtimes
      /\ \A i \in 1..Len(toHost) : toHost[i].of \in Runtimes
      /\ \A i \in 1..Len(toPage) : toPage[i].op = "attach" => toPage[i].of \in Runtimes
    BY Members, MessageFields DEF TInv, Call, Request
<1>c. conn \in {"none", "connecting", "resuming", "open"}
    BY DEF TInv, TypeOK
<1>1. CASE Serve
  <2>1. UNCHANGED <<queue, rt>>
    BY <1>1 DEF Serve
  <2>2. /\ \A i \in 1..Len(toHost') : i + 1 \in 1..Len(toHost) /\ toHost'[i] = toHost[i + 1] /\ i + 1 # 1 /\ i \in Int
        /\ 1 \in 1..Len(toHost)
    BY <1>1, ServeSends
  <2>3. \A i \in 1..Len(toHost') : toHost'[i].op = "attach" =>
          /\ rt[toHost'[i].of].stage = "attaching"
          /\ \A j \in 1..Len(toHost') : toHost'[j].op = "attach" /\ toHost'[j].of = toHost'[i].of => j = i
          /\ toHost[1].op = "attach" => toHost[1].of # toHost'[i].of
          /\ \A j \in 1..Len(toPage) : toPage[j].op = "attach" => toPage[j].of # toHost'[i].of
    <3> TAKE i \in 1..Len(toHost')
    <3> HAVE toHost'[i].op = "attach"
    <3>1. /\ rt[toHost'[i].of].stage = "attaching"
          /\ toHost[1].op = "attach" => toHost[1].of # toHost'[i].of
          /\ \A j \in 1..Len(toPage) : toPage[j].op = "attach" => toPage[j].of # toHost'[i].of
      <4>1. i + 1 \in 1..Len(toHost) /\ toHost[i + 1] = toHost'[i] /\ i + 1 # 1 /\ 1 \in 1..Len(toHost)
        BY <2>2
      <4>2. /\ rt[toHost[i + 1].of].stage = "attaching"
            /\ \A j \in 1..Len(toHost) : toHost[j].op = "attach" /\ toHost[j].of = toHost[i + 1].of => j = i + 1
            /\ \A j \in 1..Len(toPage) : toPage[j].op = "attach" => toPage[j].of # toHost[i + 1].of
        BY <4>1 DEF Attaching
      <4>3. QED
        BY <4>1, <4>2
    <3>2. ASSUME NEW j \in 1..Len(toHost'), toHost'[j].op = "attach", toHost'[j].of = toHost'[i].of
          PROVE  j = i
      <4>1. /\ i + 1 \in 1..Len(toHost) /\ toHost[i + 1] = toHost'[i] /\ i \in Int
            /\ j + 1 \in 1..Len(toHost) /\ toHost[j + 1] = toHost'[j] /\ j \in Int
        BY <2>2
      <4>2. \A k \in 1..Len(toHost) : toHost[k].op = "attach" /\ toHost[k].of = toHost[i + 1].of => k = i + 1
        BY <4>1 DEF Attaching
      <4>3. j + 1 = i + 1
        BY <3>2, <4>1, <4>2
      <4>4. QED
        BY <4>1, <4>3
    <3>3. QED
        BY <3>1, <3>2
  <2>4. CASE toPage' = toPage
    BY <2>1, <2>3, <2>4 DEF Attaching
  <2>5. CASE toPage' # toPage
    <3>1. /\ Len(toPage) \in Nat /\ Len(toPage') = Len(toPage) + 1
          /\ \A i \in 1..Len(toPage) : toPage'[i] = toPage[i]
          /\ toPage'[Len(toPage) + 1].op = toHost[1].op /\ toPage'[Len(toPage) + 1].of = toHost[1].of
        BY <1>1, <2>5, ServeSends
    <3>2. \A i \in 1..Len(toPage') : i \in 1..Len(toPage) \/ i = Len(toPage) + 1
        BY <3>1
    <3>3. \A i \in 1..Len(toPage') : toPage'[i].op = "attach" =>
            /\ rt[toPage'[i].of].stage = "attaching"
            /\ \A j \in 1..Len(toPage') : toPage'[j].op = "attach" /\ toPage'[j].of = toPage'[i].of => j = i
      <4>1. \A i \in 1..Len(toPage) : toPage'[i].op = "attach" =>
              /\ rt[toPage'[i].of].stage = "attaching"
              /\ \A j \in 1..Len(toPage) : toPage'[j].op = "attach" /\ toPage'[j].of = toPage'[i].of => j = i
        BY <3>1 DEF Attaching
      <4>2. toHost[1].op = "attach" =>
              /\ rt[toHost[1].of].stage = "attaching"
              /\ \A j \in 1..Len(toPage) : toPage'[j].op = "attach" => toPage'[j].of # toHost[1].of
        <5>1. 1 \in 1..Len(toHost)
          BY <2>2
        <5>2. toHost[1].op = "attach" =>
                /\ rt[toHost[1].of].stage = "attaching"
                /\ \A j \in 1..Len(toPage) : toPage[j].op = "attach" => toPage[j].of # toHost[1].of
          BY <5>1 DEF Attaching
        <5>3. QED
          BY <3>1, <5>2
      <4>3. QED
        BY <3>1, <3>2, <4>1, <4>2
    <3>4. \A i \in 1..Len(toHost') : toHost'[i].op = "attach" =>
            \A j \in 1..Len(toPage') : toPage'[j].op = "attach" => toPage'[j].of # toHost'[i].of
        BY <2>3, <3>1, <3>2
    <3>5. QED
        BY <2>1, <2>3, <3>3, <3>4 DEF Attaching
  <2>6. QED
    BY <2>4, <2>5
<1>2. CASE Dies
  <2>1. toHost' = <<>> /\ Len(toHost') = 0 /\ UNCHANGED <<toPage, queue, rt>>
    BY <1>2 DEF Dies
  <2>2. QED
    BY <2>1, AttachingKept
<1>3. ASSUME NEW s \in Sessions, Logs(s) \/ RunStartsOrEnds(s)
      PROVE  Attaching'
  <2>1. UNCHANGED <<toHost, queue, rt>>
    BY <1>3, NotifySends
  <2>2. \A i \in 1..Len(toPage') : toPage'[i].op = "attach" => i \in 1..Len(toPage) /\ toPage[i] = toPage'[i]
    BY <1>3, NotifySends
  <2>3. QED
    BY <2>1, <2>2, AttachingKept
<1>4. CASE EventArrives \/ DeltaArrives \/ Attached
  <2>1. toPage # <<>> /\ toPage' = Tail(toPage) /\ UNCHANGED <<toHost, queue>>
    BY <1>4 DEF EventArrives, DeltaArrives, Attached, FirstMessage
  <2>2. /\ \A i \in 1..Len(toPage') : i + 1 \in 1..Len(toPage) /\ toPage'[i] = toPage[i + 1] /\ i \in Int /\ i + 1 # 1
        /\ 1 \in 1..Len(toPage)
    BY <2>1, TakingFirst DEF TInv
  <2>3. \A i \in 1..Len(toPage') : toPage'[i].op = "attach" =>
          \A j \in 1..Len(toPage') : toPage'[j].op = "attach" /\ toPage'[j].of = toPage'[i].of => j = i
    <3> TAKE i \in 1..Len(toPage')
    <3> HAVE toPage'[i].op = "attach"
    <3> TAKE j \in 1..Len(toPage')
    <3> HAVE toPage'[j].op = "attach" /\ toPage'[j].of = toPage'[i].of
    <3>1. j + 1 = i + 1
        BY <2>2 DEF Attaching
    <3>2. QED
        BY <2>2, <3>1
  <2>4. \A r \in Runtimes : rt'[r].stage = rt[r].stage \/ (toPage[1].op = "attach" /\ r = toPage[1].of)
    <3>1. CASE EventArrives
        BY <3>1, EventIsGrown
    <3>2. CASE DeltaArrives
        BY <3>2, DeltaIsGrown
    <3>3. CASE Attached
      <4>1. \A r \in Runtimes : r # toPage[1].of => rt'[r] = rt[r]
        BY <3>3, AttachedIsGrown
      <4>2. toPage[1].op = "attach"
        BY <3>3, AttachedIsGrown
      <4>3. QED
        BY <4>1, <4>2
    <3>4. QED
        BY <1>4, <3>1, <3>2, <3>3
  <2>5. \A i \in 1..Len(toPage') : toPage'[i].op = "attach" => rt'[toPage'[i].of].stage = "attaching"
    BY <1>t, <2>2, <2>4 DEF Attaching
  <2>6. \A i \in 1..Len(toHost) : toHost[i].op = "attach" => rt'[toHost[i].of].stage = "attaching"
    BY <1>t, <2>2, <2>4 DEF Attaching
  <2>7. \A i \in 1..Len(queue) : queue[i].op = "attach" => rt'[queue[i].of].stage = "attaching"
    <3>1. CASE toPage[1].op = "attach"
      <4>1. conn = "open" /\ queue = <<>>
        BY <1>c, <2>1, <2>2, <3>1 DEF Wired
      <4>2. QED
        BY <4>1
    <3>2. CASE toPage[1].op # "attach"
        BY <1>t, <2>4, <3>2 DEF Attaching
    <3>3. QED
        BY <3>1, <3>2
  <2>8. QED
    BY <2>1, <2>2, <2>3, <2>5, <2>6, <2>7 DEF Attaching
<1>5. ASSUME TInv, Grown, Opens(<<>>),
             \A r \in Runtimes : rt'[r].stage = rt[r].stage,
             \A i \in 1..Len(toPage') : toPage'[i].op # "attach"
      PROVE  Attaching'
  <2>1. Len(toHost') = Len(queue) /\ \A i \in 1..Len(toHost') : toHost'[i].op = queue[i].op /\ toHost'[i].of = queue[i].of
    BY <1>5, OpensSends
  <2>2. queue' = <<>> /\ Len(queue') = 0
    BY <1>5 DEF Opens
  <2>3. QED
    BY <1>t, <1>5, <2>1, <2>2 DEF Attaching
<1>6. CASE BacklogArrives
  <2>1. /\ toHost = <<>> /\ toPage' = Tail(toPage)
        /\ \A i \in 1..Len(toPage') : toPage'[i].op \notin {"resume", "attach"}
    BY <1>6, ResumeMeansResuming DEF BacklogArrives
  <2>2. Grown /\ \A r \in Runtimes : rt'[r].stage = rt[r].stage
    BY <1>6, BacklogIsGrown
  <2>3. ResumeWith(NextToResume(resumed \cup {Head(toPage).of}), <<>>)
    BY <1>6, <2>1 DEF BacklogArrives
  <2>4. \/ Opens(<<>>)
        \/ queue' = queue /\ Len(toHost') = 1 /\ toHost'[1].op = "resume"
    BY <2>2, <2>3, ResumeSends
  <2>5. CASE Opens(<<>>)
    BY <1>5, <2>1, <2>2, <2>5
  <2>6. CASE queue' = queue /\ Len(toHost') = 1 /\ toHost'[1].op = "resume"
    BY <2>1, <2>2, <2>6, AttachingKept
  <2>7. QED
    BY <2>4, <2>5, <2>6
<1>7. CASE Connects
  <2>1. toPage' = <<>> /\ Len(toPage') = 0 /\ rt' = rt /\ Grown
    BY <1>7, SameIsGrown DEF Connects
  <2>2. \/ Opens(<<>>)
        \/ ResumeWith(NextToResume({}), <<>>)
    BY <1>7 DEF Connects
  <2>3. \/ Opens(<<>>)
        \/ queue' = queue /\ Len(toHost') = 1 /\ toHost'[1].op = "resume"
    BY <2>1, <2>2, ResumeSends
  <2>4. CASE Opens(<<>>)
    BY <1>5, <2>1, <2>4
  <2>5. CASE queue' = queue /\ Len(toHost') = 1 /\ toHost'[1].op = "resume"
    BY <2>1, <2>5, AttachingKept
  <2>6. QED
    BY <2>3, <2>4, <2>5
<1>8. CASE Lost \/ \E k \in BOOLEAN : ConnectFails(k)
  <2>1. queue' = <<>> /\ toHost' = <<>> /\ toPage' = <<>>
    BY <1>8, FailedIsGrown DEF Lost, ConnectFails, Wired
  <2>2. Len(queue') = 0 /\ Len(toHost') = 0 /\ Len(toPage') = 0
    BY <2>1
  <2>3. QED
    BY <2>2 DEF Attaching
<1>9. CASE Retries \/ RestartHost \/ ReconnectNow \/ UserCalls
  <2>1. UNCHANGED <<queue, toHost, toPage, rt>>
    BY <1>9 DEF Retries, RestartHost, ReconnectNow, UserCalls
  <2>2. QED
    BY <2>1 DEF Attaching
<1>10. ASSUME NEW r \in Runtimes, NEW s \in Sessions, Start(r, s)
       PROVE  Attaching'
  <2> DEFINE call == [op |-> "attach", of |-> r]
  <2>1. Untried(r) /\ Calls(call, rt') /\ call \in Call /\ rt'[call.of].session # None /\ rt' \in [Runtimes -> RtRecord]
        /\ rt'[r].stage = "attaching" /\ toPage' = toPage /\ call.of = r /\ call.op = "attach"
        /\ \A q \in Runtimes : q # r => rt'[q] = rt[q]
    BY <1>10, StartIsGrown DEF Grown, Start
  <2> HIDE DEF call
  <2>2. /\ \A i \in 1..Len(queue) : queue[i].of # r
        /\ \A i \in 1..Len(toHost) : toHost[i].of # r
        /\ \A i \in 1..Len(toPage) : toPage[i].op = "attach" => toPage[i].of # r
    BY <2>1 DEF TInv, Known
  <2>3. \A q \in Runtimes : rt[q].stage = "attaching" => rt'[q].stage = "attaching"
    BY <2>1
  <2>4. CASE conn = "open"
    <3>1. /\ queue' = queue /\ Len(toHost) \in Nat /\ Len(toHost') = Len(toHost) + 1
          /\ \A i \in 1..Len(toHost) : toHost'[i] = toHost[i]
          /\ toHost'[Len(toHost) + 1].of = r
        BY <2>1, <2>4, CallsSends
    <3>2. \A i \in 1..Len(toHost') : i \in 1..Len(toHost) \/ i = Len(toHost) + 1
        BY <3>1
    <3>3. \A i \in 1..Len(toHost') : toHost'[i].op = "attach" =>
            /\ rt'[toHost'[i].of].stage = "attaching"
            /\ \A j \in 1..Len(toPage) : toPage[j].op = "attach" => toPage[j].of # toHost'[i].of
      <4>1. SUFFICES ASSUME NEW i \in 1..Len(toHost'), toHost'[i].op = "attach"
                     PROVE  /\ rt'[toHost'[i].of].stage = "attaching"
                            /\ \A j \in 1..Len(toPage) : toPage[j].op = "attach" => toPage[j].of # toHost'[i].of
          OBVIOUS
      <4>2. CASE i = Len(toHost) + 1
          BY <2>1, <2>2, <3>1, <4>2
      <4>3. CASE i \in 1..Len(toHost)
        <5>1. /\ rt[toHost[i].of].stage = "attaching" /\ toHost'[i] = toHost[i] /\ toHost[i].of \in Runtimes
              /\ \A j \in 1..Len(toPage) : toPage[j].op = "attach" => toPage[j].of # toHost[i].of
            BY <1>t, <3>1, <4>1, <4>3 DEF Attaching
        <5>2. QED
            BY <2>3, <5>1
      <4>4. QED
          BY <3>2, <4>2, <4>3
    <3>4. ASSUME NEW i \in 1..Len(toHost'), toHost'[i].op = "attach",
                 NEW j \in 1..Len(toHost'), toHost'[j].op = "attach", toHost'[j].of = toHost'[i].of
          PROVE  j = i
      <4>1. CASE i \in 1..Len(toHost) /\ j \in 1..Len(toHost)
          BY <3>1, <3>4, <4>1 DEF Attaching
      <4>2. CASE i = Len(toHost) + 1 \/ j = Len(toHost) + 1
        <5>1. toHost'[i].of = r /\ toHost'[j].of = r
            BY <3>1, <3>4, <4>2
        <5>2. i \notin 1..Len(toHost) /\ j \notin 1..Len(toHost)
            BY <2>2, <3>1, <5>1
        <5>3. QED
            BY <3>2, <5>2
      <4>3. QED
          BY <3>2, <4>1, <4>2
    <3>5. \A i \in 1..Len(queue) : queue[i].op = "attach" =>
            /\ rt'[queue[i].of].stage = "attaching"
            /\ \A j \in 1..Len(queue) : queue[j].op = "attach" /\ queue[j].of = queue[i].of => j = i
        BY <1>t, <2>3 DEF Attaching
    <3>6. \A i \in 1..Len(toPage) : toPage[i].op = "attach" =>
            /\ rt'[toPage[i].of].stage = "attaching"
            /\ \A j \in 1..Len(toPage) : toPage[j].op = "attach" /\ toPage[j].of = toPage[i].of => j = i
        BY <1>t, <2>3 DEF Attaching
    <3>7. QED
        BY <2>1, <3>1, <3>3, <3>4, <3>5, <3>6 DEF Attaching
  <2>5. CASE conn # "open"
    <3>1. /\ toHost' = toHost /\ Len(queue) \in Nat /\ Len(queue') = Len(queue) + 1
          /\ \A i \in 1..Len(queue) : queue'[i] = queue[i]
          /\ queue'[Len(queue) + 1].of = r
        BY <2>1, <2>5, CallsSends
    <3>2. \A i \in 1..Len(queue') : i \in 1..Len(queue) \/ i = Len(queue) + 1
        BY <3>1
    <3>3. \A i \in 1..Len(queue') : queue'[i].op = "attach" => rt'[queue'[i].of].stage = "attaching"
      <4>1. SUFFICES ASSUME NEW i \in 1..Len(queue'), queue'[i].op = "attach"
                     PROVE  rt'[queue'[i].of].stage = "attaching"
          OBVIOUS
      <4>2. CASE i = Len(queue) + 1
          BY <2>1, <3>1, <4>2
      <4>3. CASE i \in 1..Len(queue)
        <5>1. rt[queue[i].of].stage = "attaching" /\ queue'[i] = queue[i] /\ queue[i].of \in Runtimes
            BY <1>t, <3>1, <4>1, <4>3 DEF Attaching
        <5>2. QED
            BY <2>3, <5>1
      <4>4. QED
          BY <3>2, <4>2, <4>3
    <3>4. ASSUME NEW i \in 1..Len(queue'), queue'[i].op = "attach",
                 NEW j \in 1..Len(queue'), queue'[j].op = "attach", queue'[j].of = queue'[i].of
          PROVE  j = i
      <4>1. CASE i \in 1..Len(queue) /\ j \in 1..Len(queue)
          BY <3>1, <3>4, <4>1 DEF Attaching
      <4>2. CASE i = Len(queue) + 1 \/ j = Len(queue) + 1
        <5>1. queue'[i].of = r /\ queue'[j].of = r
            BY <3>1, <3>4, <4>2
        <5>2. i \notin 1..Len(queue) /\ j \notin 1..Len(queue)
            BY <2>2, <3>1, <5>1
        <5>3. QED
            BY <3>2, <5>2
      <4>3. QED
          BY <3>2, <4>1, <4>2
    <3>5. \A i \in 1..Len(toHost) : toHost[i].op = "attach" =>
            /\ rt'[toHost[i].of].stage = "attaching"
            /\ \A j \in 1..Len(toHost) : toHost[j].op = "attach" /\ toHost[j].of = toHost[i].of => j = i
            /\ \A j \in 1..Len(toPage) : toPage[j].op = "attach" => toPage[j].of # toHost[i].of
        BY <1>t, <2>3 DEF Attaching
    <3>6. \A i \in 1..Len(toPage) : toPage[i].op = "attach" =>
            /\ rt'[toPage[i].of].stage = "attaching"
            /\ \A j \in 1..Len(toPage) : toPage[j].op = "attach" /\ toPage[j].of = toPage[i].of => j = i
        BY <1>t, <2>3 DEF Attaching
    <3>7. QED
        BY <2>1, <3>1, <3>3, <3>4, <3>5, <3>6 DEF Attaching
  <2>6. QED
    BY <2>4, <2>5
<1>11. ASSUME NEW r \in Runtimes, Stop(r)
       PROVE  Attaching'
  <2> DEFINE call == [op |-> "unsubscribe", of |-> r]
  <2>1. rt[r].stage = "live" /\ call \in Call /\ call.of = r /\ call.op = "unsubscribe"
        /\ rt[r].session # None /\ rt \in [Runtimes -> RtRecord]
    BY <1>11, Members DEF Stop, Call, TInv, Known, Untried
  <2>2. toPage' = toPage /\ (UNCHANGED <<toHost, queue>> \/ Calls(call, rt))
    BY <1>11 DEF Stop
  <2>3. \A q \in Runtimes : rt[q].stage = "attaching" => rt'[q].stage = "attaching"
    BY <1>11, <2>1, StopIsGrown
  <2> HIDE DEF call
  <2>4. /\ \A i \in 1..Len(queue') : queue'[i].op = "attach" => i \in 1..Len(queue) /\ queue[i] = queue'[i]
        /\ \A i \in 1..Len(toHost') : toHost'[i].op = "attach" => i \in 1..Len(toHost) /\ toHost[i] = toHost'[i]
    <3>1. CASE UNCHANGED <<toHost, queue>>
        BY <3>1
    <3>2. CASE Calls(call, rt)
        BY <2>1, <3>2, CallsSends
    <3>3. QED
        BY <2>2, <3>1, <3>2
  <2>5. QED
    BY <2>2, <2>3, <2>4, AttachingKept
<1>12. CASE UNCHANGED vars
    BY <1>12 DEF vars, Attaching
<1>13. QED
    BY <1>1, <1>2, <1>3, <1>4, <1>6, <1>7, <1>8, <1>9, <1>10, <1>11, <1>12
    DEF Next, HostNext, Arrives, LinkNext, RuntimeNext

-----------------------------------------------------------------------------
(* Who follows what *)

\* Nobody in the map but `r` itself follows its session.
Alone(r) == \A q \in Runtimes : InMap(q) /\ rt[q].session = rt[r].session => q = r

\* The same after a step, of a runtime known before or after it.
AloneNext(r) == \A q \in Runtimes : InMap(q)' /\ rt'[q].session = rt'[r].session => q = r

\* One runtime of the map follows a session, and what is asked for is asked for it, from no later
\* than its last event.
Followers ==
    /\ \A r \in Runtimes : InMap(r) => Alone(r)
    /\ \A r \in Runtimes : rt[r].stage = "attaching" => InMap(r)
    /\ \A i \in 1..Len(toHost) : toHost[i].op = "resume" => Alone(toHost[i].of)
    /\ \A i \in 1..Len(toHost) :
          toHost[i].session = rt[toHost[i].of].session /\ toHost[i].after <= rt[toHost[i].of].lastSeq
    /\ \A i \in 1..Len(toPage) : toPage[i].op \in {"attach", "resume"} =>
          toPage[i].after <= rt[toPage[i].of].lastSeq

\* A step that keeps the session of whoever was started, takes no last event back, and has only
\* runtimes wait for their attachment that did, or that start.
Forward ==
    /\ \A r \in Runtimes : ~Untried(r) => rt'[r].session = rt[r].session /\ rt[r].lastSeq <= rt'[r].lastSeq
    /\ \A r \in Runtimes : rt'[r].stage = "attaching" =>
          rt[r].stage = "attaching" \/ \E s \in Sessions : Start(r, s)

\* A runtime that was started keeps its session and never goes back.
LEMMA RuntimesGrow ==
    ASSUME TInv, [Next]_vars
    PROVE  Forward
<1> USE DEF host, link, page, seen
<1>t. \A r \in Runtimes : rt[r].lastSeq \in Nat
    BY Members, ConstantsAssumption DEF TInv, RtRecord
<1>1. CASE HostNext \/ Retries \/ RestartHost \/ ReconnectNow \/ UserCalls \/ Connects \/ UNCHANGED vars
  <2>1. rt' = rt
    BY <1>1 DEF HostNext, Serve, Dies, Logs, RunStartsOrEnds, Retries, RestartHost, ReconnectNow, UserCalls, Connects, vars
  <2>2. QED
    BY <1>t, <2>1 DEF Forward
<1>2. CASE EventArrives
  <2>1. toPage[1].seq \in Nat
    BY <1>2, EventIsGrown, ConstantsAssumption
  <2>2. QED
    BY <1>2, <1>t, <2>1, EventIsGrown DEF Forward
<1>3. CASE DeltaArrives
    BY <1>3, <1>t, DeltaIsGrown DEF Forward
<1>4. CASE Attached
  <2>1. \A r \in Runtimes : r # toPage[1].of => rt'[r] = rt[r]
    BY <1>4, AttachedIsGrown
  <2>2. \A r \in Runtimes : rt'[r].session = rt[r].session
    BY <1>4, AttachedIsGrown
  <2>3. rt[toPage[1].of].lastSeq <= rt'[toPage[1].of].lastSeq /\ rt'[toPage[1].of].stage = "live"
    BY <1>4, AttachedIsGrown
  <2>4. QED
    BY <1>t, <2>1, <2>2, <2>3 DEF Forward
<1>5. CASE BacklogArrives
  <2>1. \A r \in Runtimes : r # toPage[1].of => rt'[r] = rt[r]
    BY <1>5, BacklogIsGrown
  <2>2. \A r \in Runtimes : rt'[r].session = rt[r].session
    BY <1>5, BacklogIsGrown
  <2>3. rt[toPage[1].of].lastSeq <= rt'[toPage[1].of].lastSeq /\ rt'[toPage[1].of].stage = rt[toPage[1].of].stage
    BY <1>5, BacklogIsGrown
  <2>4. QED
    BY <1>t, <2>1, <2>2, <2>3 DEF Forward
<1>6. CASE Lost \/ \E k \in BOOLEAN : ConnectFails(k)
    BY <1>6, <1>t, FailedIsGrown DEF Lost, ConnectFails, Forward
<1>7. ASSUME NEW r \in Runtimes, NEW s \in Sessions, Start(r, s)
      PROVE  Forward
  <2>1. Untried(r) /\ \A q \in Runtimes : q # r => rt'[q] = rt[q]
    BY <1>7, StartIsGrown
  <2>2. QED
    BY <1>7, <1>t, <2>1 DEF Forward
<1>8. ASSUME NEW r \in Runtimes, Stop(r)
      PROVE  Forward
    BY <1>8, <1>t, StopIsGrown DEF Forward
<1>9. QED
    BY <1>1, <1>2, <1>3, <1>4, <1>5, <1>6, <1>7, <1>8 DEF Next, Arrives, LinkNext, RuntimeNext

\* In any step but a start, the map loses runtimes at most, and none that is being attached.
LEMMA MapShrinks ==
    ASSUME TInv, [Next]_vars, ~\E r \in Runtimes, s \in Sessions : Start(r, s)
    PROVE  /\ \A q \in Runtimes : InMap(q)' => InMap(q)
           /\ \A q \in Runtimes : InMap(q) /\ rt[q].stage # "live" => InMap(q)'
<1> USE DEF host, link, page, seen
<1>1. CASE \E r \in Runtimes : Stop(r)
  <2>1. PICK r \in Runtimes : Stop(r)
    BY <1>1
  <2>2. map' = Without(r) /\ rt[r].stage = "live"
    BY <2>1 DEF Stop
  <2>3. /\ \A j \in 1..Len(map') : \E i \in 1..Len(map) : map'[j] = map[i]
        /\ \A q \in Runtimes : InMap(q) /\ q # r => \E j \in 1..Len(map') : map'[j] = q
    BY <2>2, TakenOut DEF TInv
  <2>4. QED
    BY <2>2, <2>3 DEF InMap
<1>2. CASE ~\E r \in Runtimes : Stop(r)
  <2>1. map' = map
    BY <1>2 DEF vars, Next, HostNext, Arrives, LinkNext, RuntimeNext, Serve, Dies, Logs, RunStartsOrEnds,
                EventArrives, DeltaArrives, BacklogArrives, Attached, Connects, ConnectFails, Lost, Retries,
                RestartHost, ReconnectNow, UserCalls
  <2>2. QED
    BY <2>1 DEF InMap
<1>3. QED
    BY <1>1, <1>2

\* A start puts its runtime into the map.
LEMMA MapGrows ==
    ASSUME TInv, NEW r \in Runtimes, map' = Append(map, r)
    PROVE  \A q \in Runtimes : InMap(q)' <=> InMap(q) \/ q = r
<1>1. Len(map) \in Nat /\ Len(map') = Len(map) + 1 /\ map'[Len(map) + 1] = r
      /\ \A i \in 1..Len(map) : map'[i] = map[i]
    BY Members DEF TInv
<1>2. QED
    BY <1>1 DEF InMap

\* Who is in the map has been started.
LEMMA InMapIsKnown ==
    ASSUME TInv, NEW r \in Runtimes, InMap(r)
    PROVE  ~Untried(r) /\ rt[r].session \in Sessions
BY Members DEF TInv, Known, InMap, RtRecord

\* The followers of a step that is no start.
LEMMA FollowersShrink ==
    ASSUME TInv, Followers, [Next]_vars, ~\E r \in Runtimes, s \in Sessions : Start(r, s)
    PROVE  /\ \A r \in Runtimes : ~Untried(r) /\ Alone(r) => AloneNext(r)
           /\ \A r \in Runtimes : InMap(r)' => AloneNext(r)
           /\ \A r \in Runtimes : rt'[r].stage = "attaching" => InMap(r)'
<1>1. \A q \in Runtimes : InMap(q)' => InMap(q) /\ rt'[q].session = rt[q].session /\ ~Untried(q)
    BY MapShrinks, RuntimesGrow, InMapIsKnown DEF Forward
<1>2. \A r \in Runtimes : ~Untried(r) /\ Alone(r) => AloneNext(r)
    BY <1>1, RuntimesGrow DEF Alone, AloneNext, Forward
<1>3. \A r \in Runtimes : InMap(r)' => AloneNext(r)
    BY <1>1, <1>2 DEF Followers
<1>4. ASSUME NEW r \in Runtimes, rt'[r].stage = "attaching"
      PROVE  InMap(r)'
  <2>1. rt[r].stage = "attaching"
    BY <1>4, RuntimesGrow DEF Forward
  <2>2. QED
    BY <2>1, MapShrinks DEF Followers
<1>5. QED
    BY <1>2, <1>3, <1>4

\* Events are numbered, before and after a step.
LEMMA Numbers ==
    ASSUME TInv
    PROVE  (\A r \in Runtimes : rt[r].lastSeq \in Nat) /\ \A s \in Sessions : log[s] \in Nat
<1>1. rt \in [Runtimes -> RtRecord] /\ log \in [Sessions -> 0..MaxSeq] /\ MaxSeq \in Nat
    BY ConstantsAssumption DEF TInv, TypeOK, RtRecord
<1>2. QED
    BY <1>1 DEF RtRecord

\* The same after it.
LEMMA NumbersNext ==
    ASSUME TInv'
    PROVE  (\A r \in Runtimes : rt'[r].lastSeq \in Nat) /\ \A s \in Sessions : log'[s] \in Nat
<1>1. rt' \in [Runtimes -> RtRecord] /\ log' \in [Sessions -> 0..MaxSeq] /\ MaxSeq \in Nat
    BY ConstantsAssumption DEF TInv, TypeOK, RtRecord
<1>2. QED
    BY <1>1 DEF RtRecord

\* What is on the two wires after a step is asked for as Followers says.
WiresNext ==
    /\ \A i \in 1..Len(toHost') : toHost'[i].op = "resume" => AloneNext(toHost'[i].of)
    /\ \A i \in 1..Len(toHost') :
          toHost'[i].session = rt'[toHost'[i].of].session /\ toHost'[i].after <= rt'[toHost'[i].of].lastSeq
    /\ \A i \in 1..Len(toPage') : toPage'[i].op \in {"attach", "resume"} =>
          toPage'[i].after <= rt'[toPage'[i].of].lastSeq

\* A start looks for another follower of its session first; a resume asks for a runtime of the map.
LEMMA FollowersStep ==
    ASSUME ~SharedSession, ~StartsOffline, TInv, Wired, Followers, [Next]_vars
    PROVE  Followers'
<1> USE DEF host, link, page, seen
<1>t. /\ \A i \in 1..Len(toHost) : toHost[i].of \in Runtimes /\ ~Untried(toHost[i].of) /\ toHost[i].after \in Nat
      /\ \A i \in 1..Len(toPage) : toPage[i].op \in {"attach", "resume"} =>
            toPage[i].of \in Runtimes /\ ~Untried(toPage[i].of) /\ toPage[i].after \in Nat
      /\ \A r \in Runtimes : rt[r].lastSeq \in Nat
    BY Members, MessageFields, ConstantsAssumption DEF TInv, Known, Request, RtRecord
<1>n. \A r \in Runtimes : rt'[r].lastSeq \in Nat
  <2>1. TInv'
    BY TypeStep
  <2>2. QED
    BY <2>1, Numbers, NumbersNext
\* What is on the wires stays as it was asked for.
<1>g. /\ \A i \in 1..Len(toHost) : toHost[i].session = rt'[toHost[i].of].session /\ toHost[i].after <= rt'[toHost[i].of].lastSeq
      /\ \A i \in 1..Len(toPage) : toPage[i].op \in {"attach", "resume"} => toPage[i].after <= rt'[toPage[i].of].lastSeq
  <2>1. ASSUME NEW i \in 1..Len(toHost)
        PROVE  toHost[i].session = rt'[toHost[i].of].session /\ toHost[i].after <= rt'[toHost[i].of].lastSeq
    <3> DEFINE r == toHost[i].of
    <3>1. r \in Runtimes /\ rt'[r].session = rt[r].session /\ rt[r].lastSeq <= rt'[r].lastSeq /\ toHost[i].after <= rt[r].lastSeq
        BY <1>t, RuntimesGrow DEF Followers, Forward
    <3>2. toHost[i].after \in Nat /\ rt[r].lastSeq \in Nat /\ rt'[r].lastSeq \in Nat
        BY <1>t, <1>n
    <3>3. QED
        BY <3>1, <3>2 DEF Followers
  <2>2. ASSUME NEW i \in 1..Len(toPage), toPage[i].op \in {"attach", "resume"}
        PROVE  toPage[i].after <= rt'[toPage[i].of].lastSeq
    <3> DEFINE r == toPage[i].of
    <3>1. r \in Runtimes /\ rt[r].lastSeq <= rt'[r].lastSeq /\ toPage[i].after <= rt[r].lastSeq
        BY <1>t, <2>2, RuntimesGrow DEF Followers, Forward
    <3>2. toPage[i].after \in Nat /\ rt[r].lastSeq \in Nat /\ rt'[r].lastSeq \in Nat
        BY <1>t, <1>n, <2>2
    <3>3. QED
        BY <3>1, <3>2
  <2>3. QED
    BY <2>1, <2>2
<1>1. CASE \E r \in Runtimes, s \in Sessions : Start(r, s)
  <2>1. PICK r \in Runtimes, s \in Sessions : Start(r, s)
    BY <1>1
  <2> DEFINE call == [op |-> "attach", of |-> r]
  <2>2. /\ Untried(r) /\ rt'[r].session = s /\ rt'[r].lastSeq = 0 /\ rt'[r].stage = "attaching"
        /\ \A q \in Runtimes : q # r => rt'[q] = rt[q]
        /\ Calls(call, rt') /\ call \in Call /\ call.of = r /\ call.op = "attach" /\ s # None /\ rt' \in [Runtimes -> RtRecord]
    <3>1. call.of = r /\ call.op = "attach"
        OBVIOUS
    <3>2. Calls(call, rt') /\ call \in Call
        BY <2>1, StartIsGrown
    <3> HIDE DEF call
    <3>3. rt' \in [Runtimes -> RtRecord] /\ s # None
        BY <2>1, StartIsGrown DEF Grown
    <3>4. /\ Untried(r) /\ rt'[r].session = s /\ rt'[r].lastSeq = 0 /\ rt'[r].stage = "attaching"
          /\ \A q \in Runtimes : q # r => rt'[q] = rt[q]
        BY <2>1, StartIsGrown
    <3>5. QED
        BY <3>1, <3>2, <3>3, <3>4
  <2>3. Following(s) = {} /\ (conn = "open" \/ ~before) /\ map' = Append(map, r) /\ toPage' = toPage
    BY <2>1 DEF Start
  <2> HIDE DEF call
  <2>4. \A q \in Runtimes : InMap(q)' <=> InMap(q) \/ q = r
    BY <2>3, MapGrows
  <2>5. \A q \in Runtimes : InMap(q) => q # r /\ rt[q].session # s
    BY <2>2, <2>3, InMapIsKnown DEF Following
  <2>6. \A q \in Runtimes : InMap(q)' => AloneNext(q)
    BY <2>2, <2>4, <2>5 DEF Alone, AloneNext, Followers
  <2>7. \A q \in Runtimes : rt'[q].stage = "attaching" => InMap(q)'
    BY <2>2, <2>4 DEF Followers
  <2>8. \A i \in 1..Len(toHost) : toHost[i].op # "resume"
  <3>1. CASE conn = "open"
    BY <3>1 DEF Wired
  <3>2. CASE conn # "open"
    <4>1. toHost = <<>>
        BY <2>3, <3>2 DEF Wired, TInv, TypeOK
    <4>2. QED
        BY <4>1
  <3>3. QED
    BY <3>1, <3>2
  <2>9. \A i \in 1..Len(toHost') :
          /\ toHost'[i].op # "resume"
          /\ toHost'[i].session = rt'[toHost'[i].of].session /\ toHost'[i].after <= rt'[toHost'[i].of].lastSeq
    <3>1. CASE conn = "open"
      <4>1. /\ Len(toHost) \in Nat /\ Len(toHost') = Len(toHost) + 1
            /\ \A i \in 1..Len(toHost) : toHost'[i] = toHost[i]
            /\ toHost'[Len(toHost) + 1].op = "attach" /\ toHost'[Len(toHost) + 1].of = r
            /\ toHost'[Len(toHost) + 1].session = s /\ toHost'[Len(toHost) + 1].after = 0
        BY <2>2, <3>1, CallsSends
      <4>2. QED
        BY <1>g, <2>2, <2>8, <4>1
    <3>2. CASE conn # "open"
      <4>1. toHost' = toHost
        BY <2>2, <3>2, CallsSends
      <4>2. QED
        BY <1>g, <2>8, <4>1
    <3>3. QED
        BY <3>1, <3>2
  <2>10. QED
    BY <1>g, <2>3, <2>6, <2>7, <2>9 DEF Followers, Alone, AloneNext
<1>2. CASE ~\E r \in Runtimes, s \in Sessions : Start(r, s)
  <2>1. /\ \A r \in Runtimes : ~Untried(r) /\ Alone(r) => AloneNext(r)
        /\ \A r \in Runtimes : InMap(r)' => AloneNext(r)
        /\ \A r \in Runtimes : rt'[r].stage = "attaching" => InMap(r)'
    BY <1>2, FollowersShrink
  <2>2. \A i \in 1..Len(toHost) : toHost[i].op = "resume" => AloneNext(toHost[i].of)
    BY <1>t, <2>1 DEF Followers
  <2>3. SUFFICES WiresNext
    BY <2>1 DEF Followers, Alone, AloneNext, WiresNext
  <2> USE DEF WiresNext
  <2>4. CASE Serve
    <3>1. rt' = rt /\ \A i \in 1..Len(toHost') : i + 1 \in 1..Len(toHost) /\ toHost'[i] = toHost[i + 1]
        BY <2>4, ServeSends DEF Serve
    <3>2. \A i \in 1..Len(toPage') : toPage'[i].op \in {"attach", "resume"} =>
            toPage'[i].after <= rt'[toPage'[i].of].lastSeq
      <4>1. CASE toPage' = toPage
        BY <1>g, <4>1
      <4>2. CASE toPage' # toPage
        <5>1. /\ 1 \in 1..Len(toHost) /\ Len(toPage) \in Nat /\ Len(toPage') = Len(toPage) + 1
              /\ \A i \in 1..Len(toPage) : toPage'[i] = toPage[i]
              /\ toPage'[Len(toPage) + 1].of = toHost[1].of /\ toPage'[Len(toPage) + 1].after = toHost[1].after
            BY <2>4, <4>2, ServeSends
        <5>2. QED
            BY <1>g, <5>1
      <4>3. QED
        BY <4>1, <4>2
    <3>3. QED
        BY <1>g, <2>2, <3>1, <3>2
  <2>5. ASSUME NEW s \in Sessions, Logs(s) \/ RunStartsOrEnds(s)
        PROVE  WiresNext
    <3>1. toHost' = toHost /\ \A i \in 1..Len(toPage') : toPage'[i].op \in {"attach", "resume"} =>
                                 i \in 1..Len(toPage) /\ toPage'[i] = toPage[i]
        BY <2>5, NotifySends
    <3>2. QED
        BY <1>g, <2>2, <3>1
  <2>6. CASE EventArrives \/ DeltaArrives \/ Attached
    <3>1. toPage # <<>> /\ toPage' = Tail(toPage) /\ toHost' = toHost
        BY <2>6 DEF EventArrives, DeltaArrives, Attached, FirstMessage
    <3>2. \A i \in 1..Len(toPage') : i + 1 \in 1..Len(toPage) /\ toPage'[i] = toPage[i + 1]
        BY <3>1, TakingFirst DEF TInv
    <3>3. QED
        BY <1>g, <2>2, <3>1, <3>2
  <2>7. ASSUME Grown, Opens(<<>>)
        PROVE  \A i \in 1..Len(toHost') :
                 /\ toHost'[i].op # "resume"
                 /\ toHost'[i].session = rt'[toHost'[i].of].session /\ toHost'[i].after <= rt'[toHost'[i].of].lastSeq
    BY <1>n, <2>7, OpensSends DEF Call
  <2>8. ASSUME Grown, NEW done, ResumeWith(NextToResume(done), <<>>), ~Opens(<<>>), map' = map
        PROVE  \A i \in 1..Len(toHost') :
                 /\ AloneNext(toHost'[i].of)
                 /\ toHost'[i].session = rt'[toHost'[i].of].session /\ toHost'[i].after <= rt'[toHost'[i].of].lastSeq
    <3>1. PICK k \in 1..Len(map) :
            /\ map[k] \in Runtimes /\ Len(toHost') = 1 /\ toHost'[1].of = map[k]
            /\ toHost'[1].session = rt'[map[k]].session /\ toHost'[1].after = rt'[map[k]].lastSeq
        BY <2>8, ResumeSends
    <3>2. PICK q \in Runtimes : q = map[k]
        BY <3>1
    <3>5. InMap(q)'
        BY <2>8, <3>2 DEF InMap
    <3>4. AloneNext(map[k])
        BY <2>1, <3>2, <3>5
    <3>3. QED
        BY <1>n, <3>1, <3>4
  <2>9. CASE BacklogArrives
    <3>1. toHost = <<>> /\ toPage # <<>> /\ toPage' = Tail(toPage) /\ Grown /\ map' = map
        BY <2>9, ResumeMeansResuming, BacklogIsGrown DEF BacklogArrives
    <3>2. \A i \in 1..Len(toPage') : i + 1 \in 1..Len(toPage) /\ toPage'[i] = toPage[i + 1]
        BY <3>1, TakingFirst DEF TInv
    <3>3. ResumeWith(NextToResume(resumed \cup {Head(toPage).of}), <<>>)
        BY <2>9, <3>1 DEF BacklogArrives
    <3>4. CASE Opens(<<>>)
        BY <1>g, <2>7, <3>1, <3>2, <3>4
    <3>5. CASE ~Opens(<<>>)
        BY <1>g, <2>8, <3>1, <3>2, <3>3, <3>5
    <3>6. QED
        BY <3>4, <3>5
  <2>10. CASE Connects
    <3>1. toPage' = <<>> /\ Len(toPage') = 0 /\ Grown /\ map' = map
        BY <2>10, SameIsGrown DEF Connects
    <3>2. Opens(<<>>) \/ ResumeWith(NextToResume({}), <<>>)
        BY <2>10 DEF Connects
    <3>3. CASE Opens(<<>>)
        BY <2>7, <3>1, <3>3
    <3>4. CASE ~Opens(<<>>)
        BY <2>8, <3>1, <3>2, <3>4
    <3>5. QED
        BY <3>3, <3>4
  <2>11. CASE Dies \/ Lost \/ (\E k \in BOOLEAN : ConnectFails(k)) \/ Retries \/ RestartHost \/ ReconnectNow \/ UserCalls \/ UNCHANGED vars
    <3>1. toHost' \in {toHost, <<>>} /\ toPage' \in {toPage, <<>>}
        BY <2>11 DEF Dies, Lost, ConnectFails, Retries, RestartHost, ReconnectNow, UserCalls, vars
    <3>2. Len(<<>>) = 0
        OBVIOUS
    <3>3. QED
        BY <1>g, <2>2, <3>1, <3>2
  <2>12. ASSUME NEW r \in Runtimes, Stop(r)
         PROVE  WiresNext
    <3> DEFINE call == [op |-> "unsubscribe", of |-> r]
    <3>1. rt[r].stage = "live" /\ call \in Call /\ call.of = r /\ call.op = "unsubscribe"
          /\ rt[r].session # None /\ rt \in [Runtimes -> RtRecord]
        BY <2>12, Members DEF Stop, Call, TInv, Known, Untried
    <3>2. toPage' = toPage /\ (UNCHANGED <<toHost, queue>> \/ Calls(call, rt))
        BY <2>12 DEF Stop
    <3>3. rt'[r].session = rt[r].session /\ rt'[r].lastSeq = rt[r].lastSeq
        BY <2>12, StopIsGrown
    <3> HIDE DEF call
    <3>4. CASE toHost' = toHost
        BY <1>g, <2>2, <3>2, <3>4
    <3>5. CASE toHost' # toHost
      <4>1. /\ Len(toHost) \in Nat /\ Len(toHost') = Len(toHost) + 1
            /\ \A i \in 1..Len(toHost) : toHost'[i] = toHost[i]
            /\ toHost'[Len(toHost) + 1].op = "unsubscribe" /\ toHost'[Len(toHost) + 1].of = r
            /\ toHost'[Len(toHost) + 1].session = rt[r].session /\ toHost'[Len(toHost) + 1].after = rt[r].lastSeq
        BY <3>1, <3>2, <3>5, CallsSends
      <4>2. \A i \in 1..Len(toHost') : i \in 1..Len(toHost) \/ i = Len(toHost) + 1
        BY <4>1
      <4>3. rt'[r].lastSeq \in Nat
        BY <1>n
      <4>4. QED
        BY <1>g, <2>2, <3>2, <3>3, <4>1, <4>2, <4>3
    <3>6. QED
        BY <3>4, <3>5
  <2>13. QED
    BY <1>2, <2>3, <2>4, <2>5, <2>6, <2>9, <2>10, <2>11, <2>12
    DEF Next, HostNext, Arrives, LinkNext, RuntimeNext
<1>3. QED
    BY <1>1, <1>2

-----------------------------------------------------------------------------
(* No event is skipped *)

IsEvent(m, s, n) == m.op = "event" /\ m.session = s /\ m.seq = n
IsAnswer(m, r) == m.op \in {"attach", "resume"} /\ m.of = r

\* What comes before the `i`th message of `wire` brings `r`, now `x`, to the `n`th event of its log.
Reached(wire, r, x, i, n) ==
    \/ n <= x.lastSeq
    \/ \E j \in 1..Len(wire) : j < i /\ (IsEvent(wire[j], x.session, n) \/ (IsAnswer(wire[j], r) /\ n <= wire[j].last))

\* When the `i`th message arrives, `r` is live.
Counts(wire, r, x, i) ==
    x.stage = "live" \/ \E j \in 1..Len(wire) : j < i /\ wire[j].op = "attach" /\ wire[j].of = r

\* Each event comes after the one before it, for a runtime that follows its session from `x` on;
\* and a log that is watched comes to its end.
InOrder(wire, r, x) ==
    \A i \in 1..Len(wire) : wire[i].op = "event" /\ wire[i].session = x.session /\ Counts(wire, r, x, i)
        => Reached(wire, r, x, i, wire[i].seq - 1)
ToTheEnd(wire, r, x, last) == Counts(wire, r, x, Len(wire) + 1) => Reached(wire, r, x, Len(wire) + 1, last)

\* So it is for the runtimes of the map.
Counted ==
    \A r \in Runtimes : InMap(r) =>
      /\ InOrder(toPage, r, rt[r])
      /\ rt[r].session \in watched => ToTheEnd(toPage, r, rt[r], log[rt[r].session])

\* A message that arrives: who it makes live, and how far it brings a runtime.
Arrival ==
    /\ toPage # <<>> /\ toPage' = Tail(toPage) /\ UNCHANGED <<log, watched, map, opened>>
    /\ \A r \in Runtimes :
         /\ rt'[r].session = rt[r].session /\ rt[r].lastSeq <= rt'[r].lastSeq
         /\ rt'[r].stage # rt[r].stage => rt'[r].stage = "live" /\ toPage[1].op = "attach" /\ toPage[1].of = r
         /\ InMap(r) /\ toPage[1].op = "event" /\ toPage[1].session = rt[r].session
              => toPage[1].seq <= rt'[r].lastSeq
         /\ toPage[1].op \in {"attach", "resume"} /\ toPage[1].of = r => toPage[1].last <= rt'[r].lastSeq

\* Each of the four kinds of message does that.
LEMMA ArrivalShape ==
    ASSUME TInv, Followers, Arrives
    PROVE  Arrival
<1> USE DEF host, seen
<1>t. /\ \A r \in Runtimes : rt[r].lastSeq \in Nat
      /\ toPage # <<>> /\ toPage[1].op \in {"attach", "resume"} => toPage[1].after <= rt[toPage[1].of].lastSeq
    BY Members, TakingFirst, ConstantsAssumption DEF TInv, RtRecord, Followers
<1>1. CASE EventArrives
  <2>1. UNCHANGED <<log, watched, map, opened>>
    BY <1>1 DEF EventArrives
  <2>2. /\ toPage # <<>> /\ toPage[1].op = "event" /\ toPage' = Tail(toPage)
        /\ toPage[1].session \in Sessions /\ toPage[1].seq \in Nat
        /\ \A r \in Runtimes : rt'[r].session = rt[r].session /\ rt'[r].stage = rt[r].stage
        /\ \A r \in Runtimes :
             IF r \in Following(toPage[1].session) /\ toPage[1].seq > rt[r].lastSeq
             THEN rt'[r].lastSeq = toPage[1].seq
             ELSE rt'[r].lastSeq = rt[r].lastSeq
    BY <1>1, EventIsGrown, ConstantsAssumption
  <2>3. \A r \in Runtimes : InMap(r) /\ toPage[1].session = rt[r].session => r \in Following(toPage[1].session)
    BY DEF Following
  <2>4. QED
    BY <1>t, <2>1, <2>2, <2>3 DEF Arrival
<1>2. CASE DeltaArrives
  <2>1. UNCHANGED <<log, watched, map, opened>>
    BY <1>2 DEF DeltaArrives
  <2>2. QED
    BY <1>t, <1>2, <2>1, DeltaIsGrown DEF Arrival
<1>3. CASE BacklogArrives
  <2>1. UNCHANGED <<log, watched, map, opened>>
    BY <1>3 DEF BacklogArrives
  <2>2. /\ toPage # <<>> /\ toPage[1].op = "resume" /\ toPage' = Tail(toPage)
        /\ \A r \in Runtimes : rt'[r].session = rt[r].session /\ rt'[r].stage = rt[r].stage
        /\ \A r \in Runtimes : r # toPage[1].of => rt'[r] = rt[r]
        /\ toPage[1].of \in Runtimes /\ rt[toPage[1].of].lastSeq <= rt'[toPage[1].of].lastSeq
        /\ toPage[1].after <= rt[toPage[1].of].lastSeq => toPage[1].last <= rt'[toPage[1].of].lastSeq
    BY <1>3, BacklogIsGrown
  <2>3. QED
    BY <1>t, <2>1, <2>2 DEF Arrival
<1>4. CASE Attached
  <2>1. UNCHANGED <<log, watched, map, opened>>
    BY <1>4 DEF Attached
  <2>2. /\ toPage # <<>> /\ toPage[1].op = "attach" /\ toPage' = Tail(toPage)
        /\ \A r \in Runtimes : rt'[r].session = rt[r].session
        /\ \A r \in Runtimes : r # toPage[1].of => rt'[r] = rt[r]
        /\ rt'[toPage[1].of].stage = "live"
        /\ toPage[1].of \in Runtimes /\ rt[toPage[1].of].lastSeq <= rt'[toPage[1].of].lastSeq
        /\ toPage[1].after <= rt[toPage[1].of].lastSeq => toPage[1].last <= rt'[toPage[1].of].lastSeq
    BY <1>4, AttachedIsGrown
  <2>3. QED
    BY <1>t, <2>1, <2>2 DEF Arrival
<1>5. QED
    BY <1>1, <1>2, <1>3, <1>4 DEF Arrives

\* Taking the first message keeps the count of those behind it.
LEMMA CountedTaken ==
    ASSUME TInv, TInv', Counted, Arrival
    PROVE  Counted'
<1>1. /\ Len(toPage) \in Nat /\ Len(toPage') = Len(toPage) - 1
      /\ \A i \in 1..Len(toPage') : i + 1 \in 1..Len(toPage) /\ toPage'[i] = toPage[i + 1]
    BY TakingFirst, Members DEF TInv, Arrival
<1>2. \A r \in Runtimes : rt[r].lastSeq \in Nat /\ rt'[r].lastSeq \in Nat /\ (InMap(r)' <=> InMap(r))
  <2>1. \A r \in Runtimes : rt[r].lastSeq \in Nat /\ rt'[r].lastSeq \in Nat
    BY Numbers, NumbersNext
  <2>2. QED
    BY <2>1 DEF Arrival, InMap
<1>3. ASSUME NEW r \in Runtimes, NEW i \in 1..Len(toPage), Counts(toPage', r, rt'[r], i)
      PROVE  Counts(toPage, r, rt[r], i + 1)
  <2>1. CASE rt'[r].stage = "live"
    <3>1. rt[r].stage = "live" \/ (toPage[1].op = "attach" /\ toPage[1].of = r)
        BY <2>1 DEF Arrival
    <3>2. 1 \in 1..Len(toPage) /\ 1 < i + 1
        BY <1>1
    <3>3. QED
        BY <3>1, <3>2 DEF Counts
  <2>2. CASE ~(rt'[r].stage = "live")
    <3>1. PICK j \in 1..Len(toPage') : j < i /\ toPage'[j].op = "attach" /\ toPage'[j].of = r
        BY <1>3, <2>2 DEF Counts
    <3>2. j + 1 \in 1..Len(toPage) /\ j + 1 < i + 1 /\ toPage[j + 1].op = "attach" /\ toPage[j + 1].of = r
        BY <1>1, <3>1
    <3>3. QED
        BY <3>2 DEF Counts
  <2>3. QED
    BY <2>1, <2>2
<1>4. ASSUME NEW r \in Runtimes, InMap(r), NEW i \in 1..Len(toPage), NEW n \in Int, Reached(toPage, r, rt[r], i + 1, n)
      PROVE  Reached(toPage', r, rt'[r], i, n)
  <2>1. CASE n <= rt[r].lastSeq
    <3>1. n <= rt'[r].lastSeq
        BY <1>2, <2>1 DEF Arrival
    <3>2. QED
        BY <3>1 DEF Reached
  <2>2. CASE ~(n <= rt[r].lastSeq)
    <3>1. PICK j \in 1..Len(toPage) :
            j < i + 1 /\ (IsEvent(toPage[j], rt[r].session, n) \/ (IsAnswer(toPage[j], r) /\ n <= toPage[j].last))
        BY <1>4, <2>2 DEF Reached
    <3>2. CASE j = 1
      <4>1. n <= rt'[r].lastSeq
        <5>1. CASE IsEvent(toPage[1], rt[r].session, n)
            BY <1>4, <5>1 DEF Arrival, IsEvent
        <5>2. CASE IsAnswer(toPage[1], r) /\ n <= toPage[1].last
          <6>1. toPage[1].last <= rt'[r].lastSeq
            BY <5>2 DEF Arrival, IsAnswer
          <6>2. toPage[1].last \in Int
            <7>1. 1 \in 1..Len(toPage) /\ toPage[1].op \in {"attach", "resume"} /\ TypeOK
              BY <1>1, <5>2 DEF IsAnswer, TInv
            <7>2. toPage[1].last \in 0..MaxSeq
              BY <7>1, MessageFields
            <7>3. QED
              BY <7>2, ConstantsAssumption
          <6>3. QED
            BY <1>2, <5>2, <6>1, <6>2
        <5>3. QED
            BY <3>1, <3>2, <5>1, <5>2
      <4>2. QED
        BY <4>1 DEF Reached
    <3>3. CASE j # 1
      <4> DEFINE k == j - 1
      <4>1. k \in 1..Len(toPage') /\ k < i /\ toPage'[k] = toPage[j]
        BY <1>1, <3>1, <3>3
      <4>2. rt'[r].session = rt[r].session
        BY DEF Arrival
      <4> HIDE DEF k
      <4>3. (toPage'[k].op = "event" /\ toPage'[k].session = rt'[r].session /\ toPage'[k].seq = n)
            \/ (toPage'[k].op \in {"attach", "resume"} /\ toPage'[k].of = r /\ n <= toPage'[k].last)
        BY <3>1, <4>1, <4>2 DEF IsEvent, IsAnswer
      <4>4. QED
        BY <4>1, <4>3 DEF Reached, IsEvent, IsAnswer
    <3>4. QED
        BY <3>2, <3>3
  <2>3. QED
    BY <2>1, <2>2
<1>5. ASSUME NEW r \in Runtimes, InMap(r)'
      PROVE  /\ InOrder(toPage', r, rt'[r])
             /\ rt'[r].session \in watched' => ToTheEnd(toPage', r, rt'[r], log'[rt'[r].session])
  <2>1. InMap(r) /\ rt'[r].session = rt[r].session /\ rt[r].session \in Sessions /\ log' = log /\ watched' = watched
    BY <1>2, <1>5, InMapIsKnown DEF Arrival
  <2>2. ASSUME NEW i \in 1..Len(toPage'), toPage'[i].op = "event", toPage'[i].session = rt'[r].session,
               Counts(toPage', r, rt'[r], i)
        PROVE  Reached(toPage', r, rt'[r], i, toPage'[i].seq - 1)
    <3>1. i \in 1..Len(toPage) /\ i + 1 \in 1..Len(toPage) /\ toPage'[i] = toPage[i + 1]
        BY <1>1
    <3>2. toPage[i + 1].op = "event" /\ toPage[i + 1].session = rt[r].session /\ Counts(toPage, r, rt[r], i + 1)
        BY <1>3, <2>1, <2>2, <3>1
    <3>3. Reached(toPage, r, rt[r], i + 1, toPage[i + 1].seq - 1)
        BY <2>1, <3>1, <3>2 DEF Counted, InOrder
    <3>4. toPage[i + 1].seq - 1 \in Int
        BY <3>1, <3>2, MessageFields DEF TInv
    <3>5. QED
        BY <1>4, <2>1, <3>1, <3>3, <3>4
  <2>3. ASSUME rt'[r].session \in watched', Counts(toPage', r, rt'[r], Len(toPage') + 1)
        PROVE  Reached(toPage', r, rt'[r], Len(toPage') + 1, log'[rt'[r].session])
    <3>1. Len(toPage') + 1 = Len(toPage) /\ Len(toPage) \in 1..Len(toPage)
        BY <1>1, TakingFirst DEF TInv, Arrival
    <3>2. Counts(toPage, r, rt[r], Len(toPage) + 1)
        BY <1>3, <2>3, <3>1
    <3>3. Reached(toPage, r, rt[r], Len(toPage) + 1, log[rt[r].session])
        BY <2>1, <2>3, <3>2 DEF Counted, ToTheEnd
    <3>4. log[rt[r].session] \in Int
        BY <2>1, Numbers, NumbersNext
    <3>5. QED
        BY <1>4, <2>1, <3>1, <3>3, <3>4
  <2>4. QED
    BY <2>2, <2>3 DEF InOrder, ToTheEnd
<1>6. QED
    BY <1>5 DEF Counted

\* Nothing that is sent or taken loses the count.
LEMMA CountedKept ==
    ASSUME TInv, TInv', Counted, toPage' = toPage,
           \A s \in watched' : s \in watched /\ log'[s] = log[s],
           \A r \in Runtimes : InMap(r)' => InMap(r) \/ (Untried(r) /\ rt'[r].stage = "attaching"),
           \A r \in Runtimes : InMap(r) =>
             /\ rt'[r].session = rt[r].session /\ rt[r].lastSeq <= rt'[r].lastSeq
             /\ rt'[r].stage = "live" => rt[r].stage = "live"
    PROVE  Counted'
<1>1. \A r \in Runtimes : rt[r].lastSeq \in Nat /\ rt'[r].lastSeq \in Nat
  BY Numbers, NumbersNext
<1>2. ASSUME NEW r \in Runtimes, InMap(r)', ~InMap(r)
      PROVE  \A i \in 1..(Len(toPage) + 1) : ~Counts(toPage', r, rt'[r], i)
  <2>1. \A j \in 1..Len(toPage) : toPage[j].op = "attach" => toPage[j].of # r
    BY <1>2 DEF TInv, Known
  <2>2. QED
    BY <1>2, <2>1 DEF Counts
<1>3. ASSUME NEW r \in Runtimes, InMap(r), NEW i
      PROVE  Counts(toPage', r, rt'[r], i) => Counts(toPage, r, rt[r], i)
    BY <1>3 DEF Counts
<1>4. ASSUME NEW r \in Runtimes, InMap(r), NEW i, NEW n \in Int
      PROVE  Reached(toPage, r, rt[r], i, n) => Reached(toPage', r, rt'[r], i, n)
    BY <1>1, <1>4 DEF Reached
<1>5. ASSUME NEW r \in Runtimes, InMap(r)'
      PROVE  /\ InOrder(toPage', r, rt'[r])
             /\ rt'[r].session \in watched' => ToTheEnd(toPage', r, rt'[r], log'[rt'[r].session])
  <2>1. Len(toPage) \in Nat
    BY Members DEF TInv
  <2>2. CASE ~InMap(r)
    BY <1>2, <1>5, <2>1, <2>2 DEF InOrder, ToTheEnd
  <2>3. CASE InMap(r)
    <3>1. rt'[r].session = rt[r].session /\ rt[r].session \in Sessions
        BY <2>3, InMapIsKnown
    <3>2. ASSUME NEW i \in 1..Len(toPage), toPage[i].op = "event", toPage[i].session = rt[r].session,
                 Counts(toPage', r, rt'[r], i)
          PROVE  Reached(toPage', r, rt'[r], i, toPage[i].seq - 1)
      <4>1. Reached(toPage, r, rt[r], i, toPage[i].seq - 1)
        BY <1>3, <2>3, <3>2 DEF Counted, InOrder
      <4>2. toPage[i].seq - 1 \in Int
        BY <3>2, MessageFields DEF TInv
      <4>3. QED
        BY <1>4, <2>3, <4>1, <4>2
    <3>3. ASSUME rt[r].session \in watched', Counts(toPage', r, rt'[r], Len(toPage) + 1)
          PROVE  Reached(toPage', r, rt'[r], Len(toPage) + 1, log'[rt[r].session])
      <4>1. Reached(toPage, r, rt[r], Len(toPage) + 1, log[rt[r].session])
        BY <1>3, <2>3, <3>3 DEF Counted, ToTheEnd
      <4>2. log[rt[r].session] \in Int /\ log'[rt[r].session] = log[rt[r].session]
        BY <3>1, <3>3, Numbers, NumbersNext
      <4>3. QED
        BY <1>4, <2>3, <4>1, <4>2
    <3>4. QED
        BY <3>1, <3>2, <3>3 DEF InOrder, ToTheEnd
  <2>4. QED
    BY <2>2, <2>3
<1>6. QED
    BY <1>5 DEF Counted

\* A message that is sent: the next event of a watched log, an answer that reaches to the end of the
\* log, or one that says nothing of it.
LEMMA CountedSent ==
    ASSUME TInv, TInv', Counted, UNCHANGED <<map, rt>>, Len(toPage') = Len(toPage) + 1,
           \A i \in 1..Len(toPage) : toPage'[i] = toPage[i], NEW m, toPage'[Len(toPage) + 1] = m,
           \A r \in Runtimes : InMap(r) =>
             /\ m.op = "event" /\ m.session = rt[r].session =>
                  rt[r].session \in watched /\ m.seq = log[rt[r].session] + 1
             /\ rt[r].session \in watched' =>
                  \/ rt[r].session \in watched /\ log'[rt[r].session] = log[rt[r].session] /\ m.op # "attach"
                  \/ rt[r].session \in watched /\ log'[rt[r].session] = log[rt[r].session] /\ m.of # r
                  \/ IsEvent(m, rt[r].session, log'[rt[r].session])
                  \/ IsAnswer(m, r) /\ m.last = log'[rt[r].session]
    PROVE  Counted'
<1> DEFINE end == Len(toPage) + 1
<1>1. Len(toPage) \in Nat /\ Len(toPage') = end /\ end \in 1..Len(toPage') /\ toPage'[end] = m
    BY Members DEF TInv
<1>2. ASSUME NEW r \in Runtimes, NEW i \in 1..end
      PROVE  Counts(toPage', r, rt'[r], i) => Counts(toPage, r, rt[r], i)
    BY <1>1, <1>2 DEF Counts
<1>3. ASSUME NEW r \in Runtimes, NEW i \in Nat, NEW n
      PROVE  Reached(toPage, r, rt[r], i, n) => Reached(toPage', r, rt'[r], i, n)
    BY <1>1, <1>3 DEF Reached
<1>4. ASSUME NEW r \in Runtimes, NEW n, Reached(toPage, r, rt[r], end, n)
      PROVE  Reached(toPage', r, rt'[r], end + 1, n)
    BY <1>1, <1>4 DEF Reached
<1>5. ASSUME NEW r \in Runtimes, InMap(r)
      PROVE  /\ InOrder(toPage', r, rt'[r])
             /\ rt'[r].session \in watched' => ToTheEnd(toPage', r, rt'[r], log'[rt'[r].session])
  <2>1. InOrder(toPage, r, rt[r]) /\ (rt[r].session \in watched => ToTheEnd(toPage, r, rt[r], log[rt[r].session]))
        /\ rt[r].session \in Sessions
    BY <1>5, InMapIsKnown DEF Counted
  <2>2. ASSUME NEW i \in 1..Len(toPage'), toPage'[i].op = "event", toPage'[i].session = rt[r].session,
               Counts(toPage', r, rt'[r], i)
        PROVE  Reached(toPage', r, rt'[r], i, toPage'[i].seq - 1)
    <3>1. CASE i \in 1..Len(toPage)
        BY <1>1, <1>2, <1>3, <2>1, <2>2, <3>1 DEF InOrder
    <3>2. CASE i = end
      <4>1. Counts(toPage, r, rt[r], end)
        BY <1>1, <1>2, <2>2, <3>2
      <4>2. rt[r].session \in watched /\ m.seq = log[rt[r].session] + 1
        BY <1>1, <1>5, <2>2, <3>2
      <4>3. log[rt[r].session] \in Nat
        BY <2>1, Numbers, NumbersNext
      <4>4. m.seq - 1 = log[rt[r].session]
        BY <4>2, <4>3
      <4>5. Reached(toPage, r, rt[r], end, m.seq - 1)
        BY <2>1, <4>1, <4>2, <4>4 DEF ToTheEnd
      <4>6. QED
        BY <1>1, <1>3, <3>2, <4>5
    <3>3. QED
        BY <1>1, <3>1, <3>2
  <2>3. ASSUME rt[r].session \in watched', Counts(toPage', r, rt'[r], end + 1)
        PROVE  Reached(toPage', r, rt'[r], end + 1, log'[rt[r].session])
    <3>1. CASE IsEvent(m, rt[r].session, log'[rt[r].session]) \/ (IsAnswer(m, r) /\ m.last = log'[rt[r].session])
      <4>1. log'[rt[r].session] \in Nat
        BY <2>1, Numbers, NumbersNext
      <4>2. QED
        BY <1>1, <3>1, <4>1 DEF Reached, IsEvent, IsAnswer
    <3>2. CASE rt[r].session \in watched /\ log'[rt[r].session] = log[rt[r].session] /\ (m.op # "attach" \/ m.of # r)
      <4>1. Counts(toPage, r, rt[r], end)
        BY <1>1, <2>3, <3>2 DEF Counts
      <4>2. Reached(toPage, r, rt[r], end, log[rt[r].session])
        BY <2>1, <3>2, <4>1 DEF ToTheEnd
      <4>3. QED
        BY <1>4, <3>2, <4>2
    <3>3. QED
        BY <1>5, <2>3, <3>1, <3>2
  <2>4. QED
    BY <1>1, <2>2, <2>3 DEF InOrder, ToTheEnd
<1>6. \A r \in Runtimes : InMap(r)' <=> InMap(r)
    BY DEF InMap
<1>7. QED
    BY <1>5, <1>6 DEF Counted

\* A step that takes no message and starts nobody keeps who has seen what.
LEMMA QuietStep ==
    ASSUME TInv, [Next]_vars, ~Arrives, ~\E r \in Runtimes, s \in Sessions : Start(r, s)
    PROVE  /\ UNCHANGED <<shown, opened, base>>
           /\ \A r \in Runtimes :
                /\ rt'[r].session = rt[r].session /\ rt'[r].lastSeq = rt[r].lastSeq
                /\ rt'[r].stage = "live" => rt[r].stage = "live"
                /\ rt'[r].stage = "attaching" => rt[r].stage = "attaching"
                /\ rt'[r].stage = "new" <=> rt[r].stage = "new"
<1> USE DEF host, link, page, seen
<1>1. CASE HostNext \/ Retries \/ RestartHost \/ ReconnectNow \/ UserCalls \/ Connects \/ UNCHANGED vars
    BY <1>1 DEF HostNext, Serve, Dies, Logs, RunStartsOrEnds, Retries, RestartHost, ReconnectNow, UserCalls, Connects, vars
<1>2. CASE Lost \/ \E k \in BOOLEAN : ConnectFails(k)
  <2>1. StartsFail /\ UNCHANGED <<shown, opened, base>>
    BY <1>2 DEF Lost, ConnectFails
  <2>2. QED
    BY <2>1, FailedIsGrown
<1>3. ASSUME NEW r \in Runtimes, Stop(r)
      PROVE  /\ UNCHANGED <<shown, opened, base>>
             /\ \A q \in Runtimes :
                  /\ rt'[q].session = rt[q].session /\ rt'[q].lastSeq = rt[q].lastSeq
                  /\ rt'[q].stage = "live" => rt[q].stage = "live"
                  /\ rt'[q].stage = "attaching" => rt[q].stage = "attaching"
                  /\ rt'[q].stage = "new" <=> rt[q].stage = "new"
  <2>1. UNCHANGED <<shown, opened, base>> /\ rt[r].stage = "live"
    BY <1>3 DEF Stop
  <2>2. QED
    BY <1>3, <2>1, StopIsGrown
<1>4. QED
    BY <1>1, <1>2, <1>3 DEF Next, LinkNext, RuntimeNext

\* What a step that takes no message does to the wire to the page.
LEMMA WireStep ==
    ASSUME TInv, Wired, [Next]_vars, ~Arrives, ~Serve, ~\E s \in Sessions : Logs(s) \/ RunStartsOrEnds(s)
    PROVE  /\ toPage' \in {toPage, <<>>} /\ watched' \in {watched, {}} /\ log' = log
           /\ toPage' # toPage => watched' = {}
<1> USE DEF host, link, page, seen
<1>1. CASE Lost \/ Connects
  <2>1. toPage' = <<>> /\ watched' = watched /\ log' = log /\ socket # "live"
    BY <1>1 DEF Lost, Connects, Wired
  <2>2. QED
    BY <2>1 DEF Wired
<1>2. CASE ~(Lost \/ Connects)
    BY <1>2 DEF Next, HostNext, LinkNext, RuntimeNext, Dies, Retries, RestartHost, ReconnectNow, UserCalls,
                ConnectFails, Start, Stop, vars
<1>3. QED
    BY <1>1, <1>2

\* The Host subscribes and reads the log in one step, and sends what it logs in order, so that no step
\* loses the count.
LEMMA CountedStep ==
    ASSUME TInv, Wired, Attaching, Followers, Counted, [Next]_vars
    PROVE  Counted'
<1> USE DEF host, link, page, seen
<1>t. TInv'
    BY TypeStep
<1>1. CASE Arrives
    BY <1>1, <1>t, ArrivalShape, CountedTaken
<1>2. CASE Serve
  <2> DEFINE request == toHost[1]
             answer == toPage'[Len(toPage) + 1]
  <2>1. /\ 1 \in 1..Len(toHost) /\ request.session \in Sessions /\ request.of \in Runtimes /\ ~Untried(request.of)
        /\ UNCHANGED <<log, map, rt>>
        /\ \/ request.op = "unsubscribe" /\ toPage' = toPage /\ watched' = watched \ {request.session}
           \/ /\ request.op \in {"attach", "resume"} /\ watched' = watched \cup {request.session}
              /\ Len(toPage') = Len(toPage) + 1 /\ \A i \in 1..Len(toPage) : toPage'[i] = toPage[i]
              /\ answer.op = request.op /\ answer.of = request.of /\ answer.last = log[request.session]
    BY <1>2, ServeSends
  <2>2. CASE toPage' = toPage
    <3>1. watched' \subseteq watched
        BY <2>1, <2>2, Members DEF TInv
    <3>2. \A r \in Runtimes : rt[r].lastSeq \in Nat /\ (InMap(r)' <=> InMap(r))
      <4>1. \A r \in Runtimes : rt[r].lastSeq \in Nat
        BY Numbers, NumbersNext
      <4>2. QED
        BY <2>1, <4>1 DEF InMap
    <3>3. QED
        BY <1>t, <2>1, <2>2, <3>1, <3>2, CountedKept
  <2>3. CASE toPage' # toPage
    <3>1. rt[request.of].session = request.session
        BY <2>1 DEF Followers
    <3>2. Alone(request.of)
      <4>1. CASE request.op = "resume"
        BY <2>1, <4>1 DEF Followers
      <4>2. CASE request.op = "attach"
        BY <2>1, <4>2 DEF Followers, Attaching
      <4>3. QED
        BY <2>1, <2>3, <4>1, <4>2
    <3>3. \A r \in Runtimes : InMap(r) =>
            /\ answer.op # "event"
            /\ rt[r].session \in watched' =>
                 \/ rt[r].session \in watched /\ log'[rt[r].session] = log[rt[r].session] /\ answer.of # r
                 \/ IsAnswer(answer, r) /\ answer.last = log'[rt[r].session]
      <4> SUFFICES ASSUME NEW r \in Runtimes, InMap(r)
                   PROVE  /\ answer.op # "event"
                          /\ rt[r].session \in watched' =>
                               \/ rt[r].session \in watched /\ log'[rt[r].session] = log[rt[r].session] /\ answer.of # r
                               \/ IsAnswer(answer, r) /\ answer.last = log'[rt[r].session]
        OBVIOUS
      <4> HIDE DEF answer, request
      <4>1. CASE r = request.of
        BY <2>1, <2>3, <3>1, <4>1 DEF IsAnswer
      <4>2. CASE r # request.of
        <5>1. rt[r].session # request.session
            BY <3>1, <3>2, <4>2 DEF Alone
        <5>2. QED
            BY <2>1, <2>3, <4>2, <5>1
      <4>3. QED
        BY <4>1, <4>2
    <3> HIDE DEF request
    <3>4. UNCHANGED <<map, rt>> /\ Len(toPage') = Len(toPage) + 1 /\ \A i \in 1..Len(toPage) : toPage'[i] = toPage[i]
        BY <2>1, <2>3
    <3>5. PICK m : m = answer
        OBVIOUS
    <3> HIDE DEF answer
    <3>6. toPage'[Len(toPage) + 1] = m
        BY <3>5 DEF answer
    <3>7. QED
        BY <1>t, <3>3, <3>4, <3>5, <3>6, CountedSent
  <2>4. QED
    BY <2>2, <2>3
<1>3. ASSUME NEW s \in Sessions, Logs(s) \/ RunStartsOrEnds(s)
      PROVE  Counted'
  <2>1. /\ UNCHANGED <<watched, map, rt>>
        /\ \/ /\ toPage' = toPage /\ (log' = log \/ s \notin watched)
           \/ /\ s \in watched /\ Len(toPage') = Len(toPage) + 1
              /\ \A i \in 1..Len(toPage) : toPage'[i] = toPage[i]
              /\ \/ toPage'[Len(toPage) + 1].op = "delta" /\ log' = log
                 \/ /\ toPage'[Len(toPage) + 1].op = "event" /\ toPage'[Len(toPage) + 1].session = s
                    /\ toPage'[Len(toPage) + 1].seq = log[s] + 1 /\ log'[s] = log[s] + 1
        /\ \A q \in Sessions : q # s => log'[q] = log[q]
    BY <1>3, NotifySends
  <2>2. CASE toPage' = toPage
    <3>1. \A q \in watched' : q \in watched /\ log'[q] = log[q]
        BY <2>1, <2>2, Members DEF TInv, TypeOK
    <3>2. \A r \in Runtimes : rt[r].lastSeq \in Nat /\ (InMap(r)' <=> InMap(r))
      <4>1. \A r \in Runtimes : rt[r].lastSeq \in Nat
        BY Numbers, NumbersNext
      <4>2. QED
        BY <2>1, <4>1 DEF InMap
    <3>3. QED
        BY <1>t, <2>1, <2>2, <3>1, <3>2, CountedKept
  <2>3. CASE toPage' # toPage
    <3>1. PICK m : m = toPage'[Len(toPage) + 1]
        OBVIOUS
    <3>2. \A r \in Runtimes : InMap(r) =>
            /\ m.op = "event" /\ m.session = rt[r].session =>
                 rt[r].session \in watched /\ m.seq = log[rt[r].session] + 1
            /\ rt[r].session \in watched' =>
                 \/ rt[r].session \in watched /\ log'[rt[r].session] = log[rt[r].session] /\ m.op # "attach"
                 \/ IsEvent(m, rt[r].session, log'[rt[r].session])
        BY <2>1, <2>3, <3>1, InMapIsKnown DEF IsEvent
    <3>3. QED
        BY <1>t, <2>1, <2>3, <3>1, <3>2, CountedSent
  <2>4. QED
    BY <2>2, <2>3
<1>4. CASE ~Arrives /\ ~Serve /\ ~\E s \in Sessions : Logs(s) \/ RunStartsOrEnds(s)
  <2>1. /\ toPage' \in {toPage, <<>>} /\ watched' \in {watched, {}} /\ log' = log
        /\ toPage' # toPage => watched' = {}
    BY <1>4, WireStep
  <2>2. CASE toPage' # toPage
    <3>1. Len(toPage') = 0 /\ watched' = {}
        BY <2>1, <2>2
    <3>2. QED
        BY <3>1 DEF Counted, InOrder
  <2>3. CASE toPage' = toPage
    <3>1. \A r \in Runtimes : rt[r].lastSeq \in Nat
        BY Numbers, NumbersNext
    <3>2. CASE \E r \in Runtimes, s \in Sessions : Start(r, s)
      <4>1. PICK r \in Runtimes, s \in Sessions : Start(r, s)
        BY <3>2
      <4>2. /\ Untried(r) /\ rt'[r].stage = "attaching" /\ map' = Append(map, r)
            /\ \A q \in Runtimes : q # r => rt'[q] = rt[q]
        BY <4>1, StartIsGrown DEF Start
      <4>3. \A q \in Runtimes : InMap(q)' => InMap(q) \/ q = r
        BY <4>2, MapGrows
      <4>4. \A q \in Runtimes : InMap(q) => q # r
        BY <4>2, InMapIsKnown
      <4>5. QED
        BY <1>t, <2>1, <2>3, <3>1, <4>2, <4>3, <4>4, CountedKept
    <3>3. CASE ~\E r \in Runtimes, s \in Sessions : Start(r, s)
      <4>1. \A r \in Runtimes : InMap(r)' => InMap(r)
        BY <3>3, MapShrinks
      <4>2. \A r \in Runtimes :
                /\ rt'[r].session = rt[r].session /\ rt'[r].lastSeq = rt[r].lastSeq
                /\ rt'[r].stage = "live" => rt[r].stage = "live"
        BY <1>4, <3>3, QuietStep
      <4>3. QED
        BY <1>t, <2>1, <2>3, <3>1, <4>1, <4>2, CountedKept
    <3>4. QED
        BY <3>2, <3>3
  <2>4. QED
    BY <2>2, <2>3
<1>5. QED
    BY <1>1, <1>2, <1>3, <1>4

\* A live runtime has shown its log up to its last event, but for what its attachment skipped.
Covered == \A r \in Runtimes : rt[r].stage = "live" => 1..rt[r].lastSeq \subseteq shown[r] \cup 1..base[r]

\* A runtime takes the event after its last one, or a backlog that starts there.
LEMMA CoveredStep ==
    ASSUME TInv, Wired, Followers, Counted, Covered, [Next]_vars
    PROVE  Covered'
<1> USE DEF host, link, page, seen
<1>t. \A r \in Runtimes : rt[r].lastSeq \in Nat /\ rt'[r].lastSeq \in Nat
  <2>1. TInv'
    BY TypeStep
  <2>2. QED
    BY <2>1, Numbers, NumbersNext
<1>1. CASE EventArrives
  <2>1. base' = base
    BY <1>1 DEF EventArrives
  <2>2. /\ 1 \in 1..Len(toPage) /\ toPage[1].op = "event"
        /\ toPage[1].session \in Sessions /\ toPage[1].seq \in Nat
        /\ \A r \in Runtimes : rt'[r].session = rt[r].session /\ rt'[r].stage = rt[r].stage
        /\ \A r \in Runtimes :
             IF r \in Following(toPage[1].session) /\ toPage[1].seq > rt[r].lastSeq
             THEN rt'[r].lastSeq = toPage[1].seq /\ shown'[r] = shown[r] \cup {toPage[1].seq}
             ELSE rt'[r].lastSeq = rt[r].lastSeq /\ shown'[r] = shown[r]
    BY <1>1, EventIsGrown, TakingFirst, ConstantsAssumption DEF TInv
  <2>3. ASSUME NEW r \in Runtimes, rt[r].stage = "live", r \in Following(toPage[1].session)
        PROVE  toPage[1].seq - 1 <= rt[r].lastSeq
    <3>1. InMap(r) /\ toPage[1].session = rt[r].session
        BY <2>3 DEF Following
    <3>2. Counts(toPage, r, rt[r], 1)
        BY <2>3 DEF Counts
    <3>3. Reached(toPage, r, rt[r], 1, toPage[1].seq - 1)
        BY <2>2, <3>1, <3>2 DEF Counted, InOrder
    <3>4. QED
        BY <3>3 DEF Reached
  <2>4. ASSUME NEW r \in Runtimes, rt'[r].stage = "live"
        PROVE  1..rt'[r].lastSeq \subseteq shown'[r] \cup 1..base'[r]
    <3>1. 1..rt[r].lastSeq \subseteq shown[r] \cup 1..base[r]
        BY <2>2, <2>4 DEF Covered
    <3>2. CASE r \in Following(toPage[1].session) /\ toPage[1].seq > rt[r].lastSeq
      <4>1. toPage[1].seq = rt[r].lastSeq + 1
        BY <1>t, <2>2, <2>3, <2>4, <3>2
      <4>2. 1..rt'[r].lastSeq \subseteq 1..rt[r].lastSeq \cup {toPage[1].seq}
        BY <1>t, <2>2, <3>2, <4>1
      <4>3. QED
        BY <2>1, <2>2, <3>1, <3>2, <4>2
    <3>3. CASE ~(r \in Following(toPage[1].session) /\ toPage[1].seq > rt[r].lastSeq)
        BY <2>1, <2>2, <3>1, <3>3
    <3>4. QED
        BY <3>2, <3>3
  <2>5. QED
    BY <2>4 DEF Covered
<1>2. CASE DeltaArrives
  <2>1. UNCHANGED <<shown, base>>
    BY <1>2 DEF DeltaArrives
  <2>2. QED
    BY <1>2, <2>1, DeltaIsGrown DEF Covered
<1>3. CASE BacklogArrives
  <2> DEFINE m == toPage[1]
             new == {n \in (m.after + 1)..m.last : n > rt[m.of].lastSeq}
  <2>1. base' = base
    BY <1>3 DEF BacklogArrives
  <2>2. /\ 1 \in 1..Len(toPage) /\ m.op = "resume" /\ m.of \in Runtimes /\ m.after \in Nat /\ m.last \in Nat
        /\ \A r \in Runtimes : rt'[r].stage = rt[r].stage
        /\ \A r \in Runtimes : r # m.of => rt'[r] = rt[r] /\ shown'[r] = shown[r]
        /\ shown'[m.of] = shown[m.of] \cup new /\ rt'[m.of].lastSeq \in {m.last, rt[m.of].lastSeq}
        /\ rt[m.of].lastSeq <= rt'[m.of].lastSeq
    BY <1>3, BacklogIsGrown, TakingFirst, MessageFields, ConstantsAssumption DEF TInv
  <2>3. m.after <= rt[m.of].lastSeq
    BY <2>2 DEF Followers
  <2> HIDE DEF m
  <2>4. 1..rt'[m.of].lastSeq \subseteq 1..rt[m.of].lastSeq \cup new
    BY <1>t, <2>2, <2>3
  <2> HIDE DEF new
  <2>5. ASSUME NEW r \in Runtimes, rt'[r].stage = "live"
        PROVE  1..rt'[r].lastSeq \subseteq shown'[r] \cup 1..base'[r]
    <3>1. 1..rt[r].lastSeq \subseteq shown[r] \cup 1..base[r]
        BY <2>2, <2>5 DEF Covered
    <3>2. QED
        BY <2>1, <2>2, <2>4, <3>1
  <2>6. QED
    BY <2>5 DEF Covered
<1>4. CASE Attached
  <2>1. shown' = shown
    BY <1>4 DEF Attached
  <2>2. \A r \in Runtimes : r # toPage[1].of => rt'[r] = rt[r] /\ base'[r] = base[r]
    BY <1>4, AttachedIsGrown
  <2>3. toPage[1].of \in Runtimes /\ base'[toPage[1].of] = rt'[toPage[1].of].lastSeq
    BY <1>4, AttachedIsGrown
  <2>4. QED
    BY <2>1, <2>2, <2>3 DEF Covered
<1>5. ASSUME NEW r \in Runtimes, NEW s \in Sessions, Start(r, s)
      PROVE  Covered'
  <2>1. UNCHANGED <<shown, base>>
    BY <1>5 DEF Start
  <2>2. rt'[r].stage = "attaching" /\ \A q \in Runtimes : q # r => rt'[q] = rt[q]
    BY <1>5, StartIsGrown
  <2>3. QED
    BY <2>1, <2>2 DEF Covered
<1>6. CASE ~Arrives /\ ~\E r \in Runtimes, s \in Sessions : Start(r, s)
    BY <1>6, QuietStep DEF Covered
<1>7. QED
    BY <1>1, <1>2, <1>3, <1>4, <1>5, <1>6 DEF Arrives

-----------------------------------------------------------------------------
(* Nothing past is shown again *)

\* What was past when `r`, now `x`, started is in its log, and it has not shown it; its attachment
\* ended behind it.
Unshown(x, past, has, logged) ==
    /\ x.stage = "new" => has = {}
    /\ x.stage # "new" => past \subseteq 1..logged[x.session]
    /\ x.stage = "live" => past \subseteq 1..x.lastSeq
    /\ x.stage \in {"attaching", "live"} => has \cap past = {}

\* Nor does the message `m` bring any of it, and the attachment that `m` answers ends behind it.
Ahead(r, x, past, m) ==
    x.stage \in {"attaching", "live"} =>
      /\ m.op = "event" /\ m.session = x.session => m.seq \notin past
      /\ m.op = "attach" /\ m.of = r => past \subseteq 1..m.last

OpenedPast ==
    \A r \in Runtimes :
      /\ Unshown(rt[r], opened[r], shown[r], log)
      /\ \A i \in 1..Len(toPage) : Ahead(r, rt[r], opened[r], toPage[i])

\* A message that is taken.
LEMMA PastTaken ==
    ASSUME TInv, TInv', Wired, NoneWaits, Attaching, Followers, OpenedPast, Arrives
    PROVE  OpenedPast'
<1> USE DEF host, seen
<1>a. Arrival
    BY ArrivalShape
<1>1. /\ 1 \in 1..Len(toPage) /\ \A i \in 1..Len(toPage') : i + 1 \in 1..Len(toPage) /\ toPage'[i] = toPage[i + 1]
    BY <1>a, TakingFirst DEF TInv, Arrival
<1>2. \A r \in Runtimes : rt[r].lastSeq \in Nat /\ rt'[r].lastSeq \in Nat
    BY Numbers, NumbersNext
<1>3. ASSUME NEW r \in Runtimes, rt'[r].stage # rt[r].stage
      PROVE  rt'[r].stage = "live" /\ rt[r].stage = "attaching" /\ toPage[1].op = "attach" /\ toPage[1].of = r
    BY <1>1, <1>3, <1>a DEF Arrival, Attaching
<1>4. ASSUME NEW r \in Runtimes, rt[r].stage \in {"new", "attaching", "live"}
      PROVE  \/ shown'[r] = shown[r]
             \/ rt[r].stage # "new" /\ shown'[r] \cap opened[r] = shown[r] \cap opened[r]
  <2>u. Unshown(rt[r], opened[r], shown[r], log) /\ Ahead(r, rt[r], opened[r], toPage[1])
    BY <1>1 DEF OpenedPast
  <2>1. CASE DeltaArrives \/ Attached
    BY <2>1 DEF DeltaArrives, Attached
  <2>2. CASE EventArrives
    <3>1. /\ toPage[1].op = "event"
          /\ IF r \in Following(toPage[1].session) /\ toPage[1].seq > rt[r].lastSeq
             THEN shown'[r] = shown[r] \cup {toPage[1].seq} ELSE shown'[r] = shown[r]
        BY <2>2, EventIsGrown
    <3>2. CASE r \in Following(toPage[1].session)
      <4>1. rt[r].stage # "new" /\ toPage[1].session = rt[r].session
        BY <3>2, InMapIsKnown DEF Following, Untried
      <4>2. toPage[1].seq \notin opened[r]
        BY <1>4, <2>u, <3>1, <4>1 DEF Ahead
      <4>3. QED
        BY <3>1, <4>1, <4>2
    <3>3. QED
        BY <3>1, <3>2
  <2>3. CASE BacklogArrives
    <3>1. /\ toPage[1].op = "resume" /\ toPage[1].of \in Runtimes /\ ~Untried(toPage[1].of)
          /\ r # toPage[1].of => shown'[r] = shown[r]
          /\ shown'[toPage[1].of] = shown[toPage[1].of] \cup
               {n \in (toPage[1].after + 1)..toPage[1].last : n > rt[toPage[1].of].lastSeq}
        BY <2>3, BacklogIsGrown
    <3>2. conn = "resuming" /\ before
        BY <2>3, ResumeMeansResuming DEF BacklogArrives, Wired
    <3>3. rt[r].stage # "attaching"
        BY <3>2 DEF NoneWaits
    <3>4. CASE r = toPage[1].of
      <4>1. rt[r].stage = "live"
        BY <1>4, <3>1, <3>3, <3>4 DEF Untried
      <4>2. opened[r] \subseteq 1..rt[r].lastSeq
        BY <2>u, <4>1 DEF Unshown
      <4> DEFINE new == {n \in (toPage[1].after + 1)..toPage[1].last : n > rt[r].lastSeq}
      <4>3. shown'[r] = shown[r] \cup new /\ \A n \in new : n > rt[r].lastSeq
        BY <3>1, <3>4
      <4> HIDE DEF new
      <4>4. \A n \in new : n \notin opened[r]
        BY <1>2, <4>2, <4>3
      <4>5. QED
        BY <4>1, <4>3, <4>4
    <3>5. QED
        BY <3>1, <3>4
  <2>4. QED
    BY <2>1, <2>2, <2>3 DEF Arrives
<1>5. ASSUME NEW r \in Runtimes
      PROVE  Unshown(rt'[r], opened'[r], shown'[r], log')
  <2>1. Unshown(rt[r], opened[r], shown[r], log) /\ Ahead(r, rt[r], opened[r], toPage[1])
    BY <1>1 DEF OpenedPast
  <2>2. opened' = opened /\ log' = log /\ rt'[r].session = rt[r].session /\ rt[r].lastSeq <= rt'[r].lastSeq
    BY <1>a DEF Arrival
  <2>3. rt'[r].stage \in {"attaching", "live"} => rt[r].stage \in {"attaching", "live"}
    BY <1>3
  <2>4. rt'[r].stage = "new" => shown'[r] = {}
    BY <1>3, <1>4, <2>1 DEF Unshown
  <2>5. rt'[r].stage \in {"attaching", "live"} => shown'[r] \cap opened'[r] = {}
    BY <1>4, <2>1, <2>2, <2>3 DEF Unshown
  <2>6. rt'[r].stage # "new" => opened'[r] \subseteq 1..log'[rt'[r].session]
    BY <1>3, <2>1, <2>2 DEF Unshown
  <2>7. rt'[r].stage = "live" => opened'[r] \subseteq 1..rt'[r].lastSeq
    <3>1. CASE rt[r].stage = "live"
      <4>1. opened[r] \subseteq 1..rt[r].lastSeq
        BY <2>1, <3>1 DEF Unshown
      <4>2. 1..rt[r].lastSeq \subseteq 1..rt'[r].lastSeq
        BY <1>2, <2>2
      <4>3. QED
        BY <2>2, <4>1, <4>2
    <3>2. CASE rt[r].stage # "live" /\ rt'[r].stage = "live"
      <4>1. rt[r].stage = "attaching" /\ toPage[1].op = "attach" /\ toPage[1].of = r
        BY <1>3, <3>2
      <4>2. opened[r] \subseteq 1..toPage[1].last /\ toPage[1].last <= rt'[r].lastSeq
        BY <1>a, <2>1, <4>1 DEF Ahead, Arrival
      <4>3. toPage[1].last \in Nat
        BY <1>1, <4>1, MessageFields, ConstantsAssumption DEF TInv
      <4>4. 1..toPage[1].last \subseteq 1..rt'[r].lastSeq
        BY <1>2, <4>2, <4>3
      <4>5. QED
        BY <2>2, <4>2, <4>4
    <3>3. QED
        BY <3>1, <3>2
  <2>8. QED
    BY <2>4, <2>5, <2>6, <2>7 DEF Unshown
<1>6. ASSUME NEW r \in Runtimes, NEW i \in 1..Len(toPage')
      PROVE  Ahead(r, rt'[r], opened'[r], toPage'[i])
  <2>1. Ahead(r, rt[r], opened[r], toPage[i + 1]) /\ toPage'[i] = toPage[i + 1]
    BY <1>1 DEF OpenedPast
  <2>2. opened' = opened /\ rt'[r].session = rt[r].session
    BY <1>a DEF Arrival
  <2>3. rt'[r].stage \in {"attaching", "live"} => rt[r].stage \in {"attaching", "live"}
    BY <1>3
  <2>4. QED
    BY <2>1, <2>2, <2>3 DEF Ahead
<1>7. QED
    BY <1>5, <1>6 DEF OpenedPast

\* A step that takes no message and starts nobody.
LEMMA PastKept ==
    ASSUME TInv, TInv', OpenedPast, [Next]_vars, ~Arrives, ~\E r \in Runtimes, s \in Sessions : Start(r, s),
           \A s \in Sessions : log[s] <= log'[s],
           \A i \in 1..Len(toPage') :
             \/ i \in 1..Len(toPage) /\ toPage'[i] = toPage[i]
             \/ \A r \in Runtimes : rt[r].stage # "new" => Ahead(r, rt[r], opened[r], toPage'[i])
    PROVE  OpenedPast'
<1>1. /\ opened' = opened /\ shown' = shown
      /\ \A r \in Runtimes :
           /\ rt'[r].session = rt[r].session /\ rt'[r].lastSeq = rt[r].lastSeq
           /\ rt'[r].stage = "live" => rt[r].stage = "live"
           /\ rt'[r].stage = "attaching" => rt[r].stage = "attaching"
           /\ rt'[r].stage = "new" <=> rt[r].stage = "new"
    BY QuietStep
<1>2. ASSUME NEW r \in Runtimes
      PROVE  Unshown(rt'[r], opened'[r], shown'[r], log')
  <2>1. Unshown(rt[r], opened[r], shown[r], log)
    BY DEF OpenedPast
  <2>2. rt[r].stage # "new" => 1..log[rt[r].session] \subseteq 1..log'[rt[r].session]
    <3>1. ASSUME rt[r].stage # "new"
          PROVE  rt[r].session \in Sessions
        BY <3>1, Members DEF TInv, Known, Untried, RtRecord
    <3>2. QED
        BY <3>1, Numbers, NumbersNext
  <2>3. QED
    BY <1>1, <2>1, <2>2 DEF Unshown
<1>3. ASSUME NEW r \in Runtimes, NEW i \in 1..Len(toPage')
      PROVE  Ahead(r, rt'[r], opened'[r], toPage'[i])
  <2>1. CASE i \in 1..Len(toPage) /\ toPage'[i] = toPage[i]
    <3>1. Ahead(r, rt[r], opened[r], toPage'[i])
        BY <2>1 DEF OpenedPast
    <3>2. QED
        BY <1>1, <3>1 DEF Ahead
  <2>2. CASE \A q \in Runtimes : rt[q].stage # "new" => Ahead(q, rt[q], opened[q], toPage'[i])
    BY <1>1, <2>2 DEF Ahead
  <2>3. QED
    BY <2>1, <2>2
<1>4. QED
    BY <1>2, <1>3 DEF OpenedPast

\* A runtime that starts: what it takes for past is in the log and not on its way.
LEMMA PastStarts ==
    ASSUME TInv, OpenedPast, NEW r \in Runtimes, NEW s \in Sessions, Start(r, s)
    PROVE  OpenedPast'
<1> USE DEF host, page
<1>1. /\ Untried(r) /\ rt'[r].session = s /\ rt'[r].stage = "attaching"
      /\ \A q \in Runtimes : q # r => rt'[q] = rt[q]
    BY StartIsGrown
<1>2. UNCHANGED <<log, toPage, shown>> /\ opened' = [opened EXCEPT ![r] = Past(s)]
    BY DEF Start
<1>3. opened'[r] = Past(s) /\ \A q \in Runtimes : q # r => opened'[q] = opened[q]
    BY <1>2 DEF TInv, TypeOK
<1>4. /\ Past(s) \subseteq 1..log[s]
      /\ \A i \in 1..Len(toPage) : toPage[i].op = "event" /\ toPage[i].session = s => toPage[i].seq \notin Past(s)
    BY DEF Past
<1>5. \A i \in 1..Len(toPage) : toPage[i].op = "attach" => toPage[i].of # r
    BY <1>1 DEF TInv, Known
<1>6. shown[r] = {}
    BY <1>1 DEF OpenedPast, Unshown, Untried
<1>7. ASSUME NEW q \in Runtimes
      PROVE  /\ Unshown(rt'[q], opened'[q], shown'[q], log')
             /\ \A i \in 1..Len(toPage') : Ahead(q, rt'[q], opened'[q], toPage'[i])
  <2>1. CASE q # r
    BY <1>1, <1>2, <1>3, <2>1 DEF OpenedPast
  <2>2. CASE q = r
    <3>1. Unshown(rt'[r], opened'[r], shown'[r], log')
        BY <1>1, <1>2, <1>3, <1>4, <1>6 DEF Unshown
    <3>2. \A i \in 1..Len(toPage') : Ahead(r, rt'[r], opened'[r], toPage'[i])
        BY <1>1, <1>2, <1>3, <1>4, <1>5 DEF Ahead
    <3>3. QED
        BY <2>2, <3>1, <3>2
  <2>3. QED
    BY <2>1, <2>2
<1>8. QED
    BY <1>7 DEF OpenedPast

\* The Host logs new events only, and resuming asks for what comes after the last one.
LEMMA OpenedPastStep ==
    ASSUME TInv, Wired, NoneWaits, Attaching, Followers, OpenedPast, [Next]_vars
    PROVE  OpenedPast'
<1> USE DEF host, link, page, seen
<1>t. TInv'
    BY TypeStep
<1>n. \A s \in Sessions : log[s] \in Nat /\ log'[s] \in Nat
    BY <1>t, Numbers, NumbersNext
<1>1. CASE Arrives
    BY <1>1, <1>t, PastTaken
<1>2. CASE \E r \in Runtimes, s \in Sessions : Start(r, s)
    BY <1>2, PastStarts
<1>3. CASE ~Arrives /\ ~\E r \in Runtimes, s \in Sessions : Start(r, s)
  <2>1. CASE Serve
    <3> DEFINE request == toHost[1]
               answer == toPage'[Len(toPage) + 1]
    <3>1. /\ 1 \in 1..Len(toHost) /\ request.of \in Runtimes /\ log' = log /\ request.session = rt[request.of].session
          /\ \/ toPage' = toPage
             \/ /\ Len(toPage) \in Nat /\ Len(toPage') = Len(toPage) + 1 /\ \A i \in 1..Len(toPage) : toPage'[i] = toPage[i]
                /\ request.op \in {"attach", "resume"}
                /\ answer.op = request.op /\ answer.of = request.of /\ answer.last = log[request.session]
        BY <2>1, ServeSends DEF Followers
    <3>2. CASE toPage' = toPage
        BY <1>3, <1>n, <1>t, <3>1, <3>2, PastKept
    <3>3. CASE toPage' # toPage
      <4>1. \A r \in Runtimes : rt[r].stage # "new" => Ahead(r, rt[r], opened[r], answer)
        <5>1. \A r \in Runtimes : rt[r].stage # "new" => opened[r] \subseteq 1..log[rt[r].session]
            BY DEF OpenedPast, Unshown
        <5>2. QED
            BY <3>1, <3>3, <5>1 DEF Ahead
      <4>2. \A i \in 1..Len(toPage') : (i \in 1..Len(toPage) /\ toPage'[i] = toPage[i]) \/ i = Len(toPage) + 1
        BY <3>1, <3>3
      <4>3. \A i \in 1..Len(toPage') :
              \/ i \in 1..Len(toPage) /\ toPage'[i] = toPage[i]
              \/ \A r \in Runtimes : rt[r].stage # "new" => Ahead(r, rt[r], opened[r], toPage'[i])
        BY <4>1, <4>2
      <4>4. \A s \in Sessions : log[s] <= log'[s]
        BY <1>n, <3>1
      <4>5. QED
        BY <1>3, <1>t, <4>3, <4>4, PastKept
    <3>4. QED
        BY <3>2, <3>3
  <2>2. ASSUME NEW s \in Sessions, Logs(s) \/ RunStartsOrEnds(s)
        PROVE  OpenedPast'
    <3>1. /\ \A q \in Sessions : log[q] <= log'[q]
          /\ \/ toPage' = toPage
             \/ /\ Len(toPage) \in Nat /\ Len(toPage') = Len(toPage) + 1 /\ \A i \in 1..Len(toPage) : toPage'[i] = toPage[i]
                /\ LET m == toPage'[Len(toPage) + 1] IN
                     m.op = "delta" \/ (m.op = "event" /\ m.session = s /\ m.seq = log[s] + 1)
        BY <2>2, NotifySends
    <3>2. CASE toPage' = toPage
        BY <1>3, <1>t, <3>1, <3>2, PastKept
    <3>3. CASE toPage' # toPage
      <4>1. \A r \in Runtimes : rt[r].stage # "new" => Ahead(r, rt[r], opened[r], toPage'[Len(toPage) + 1])
        <5>1. \A r \in Runtimes : rt[r].stage # "new" => opened[r] \subseteq 1..log[rt[r].session]
            BY DEF OpenedPast, Unshown
        <5>2. log[s] + 1 \notin 1..log[s]
            BY <1>n
        <5>3. QED
            BY <3>1, <3>3, <5>1, <5>2 DEF Ahead
      <4>2. \A i \in 1..Len(toPage') : (i \in 1..Len(toPage) /\ toPage'[i] = toPage[i]) \/ i = Len(toPage) + 1
        BY <3>1, <3>3
      <4>3. \A i \in 1..Len(toPage') :
              \/ i \in 1..Len(toPage) /\ toPage'[i] = toPage[i]
              \/ \A r \in Runtimes : rt[r].stage # "new" => Ahead(r, rt[r], opened[r], toPage'[i])
        BY <4>1, <4>2
      <4>4. QED
        BY <1>3, <1>t, <3>1, <4>3, PastKept
    <3>4. QED
        BY <3>2, <3>3
  <2>3. CASE ~Serve /\ ~\E s \in Sessions : Logs(s) \/ RunStartsOrEnds(s)
    <3>1. toPage' \in {toPage, <<>>} /\ log' = log
        BY <1>3, <2>3, WireStep
    <3>2. \A i \in 1..Len(toPage') : i \in 1..Len(toPage) /\ toPage'[i] = toPage[i]
      <4>1. Len(<<>>) = 0
        OBVIOUS
      <4>2. QED
        BY <3>1, <4>1
    <3>3. \A s \in Sessions : log[s] <= log'[s]
        BY <1>n, <3>1
    <3>4. QED
        BY <1>3, <1>t, <3>2, <3>3, PastKept
  <2>4. QED
    BY <2>1, <2>2, <2>3
<1>4. QED
    BY <1>1, <1>2, <1>3

\* Everything that keeps an event from being lost or shown twice.
Gapless == TInv /\ Wired /\ NoneWaits /\ Attaching /\ Followers /\ Counted /\ Covered /\ OpenedPast

\* Nobody has started at the start.
LEMMA GaplessInit == Init => Gapless
<1> SUFFICES ASSUME Init PROVE Gapless
    OBVIOUS
<1>1. TInv /\ Wired
    BY TypeInit, WiredInit
<1>2. /\ before = FALSE /\ Len(queue) = 0 /\ Len(toHost) = 0 /\ Len(toPage) = 0 /\ Len(map) = 0
      /\ \A r \in Runtimes : rt[r].stage = "new" /\ shown[r] = {}
    BY DEF Init
<1>3. \A r \in Runtimes : ~InMap(r)
    BY <1>2 DEF InMap
<1>4. NoneWaits /\ Attaching /\ Followers
    BY <1>2, <1>3 DEF NoneWaits, Attaching, Followers
<1>5. Counted /\ Covered
    BY <1>2, <1>3 DEF Counted, Covered
<1>6. OpenedPast
    BY <1>2 DEF OpenedPast, Unshown, Ahead
<1>7. QED
    BY <1>1, <1>4, <1>5, <1>6 DEF Gapless

\* Every step leaves it so.
LEMMA GaplessStep ==
    ASSUME ~SharedSession, ~StartsOffline, Gapless, [Next]_vars
    PROVE  Gapless'
BY TypeStep, WiredStep, NoneWaitsStep, AttachingStep, FollowersStep, CountedStep, CoveredStep, OpenedPastStep
DEF Gapless

\* Through any number of crashes and reconnections, what a live runtime has shown, with the backlog that
\* its attachment skipped, is its session's log up to its last event, and nothing of it was logged
\* before the runtime started: resume asks again from lastSeq, and lastSeq never runs ahead.
THEOREM NothingIsSkippedOrRepeated ==
    ASSUME ~SharedSession, ~StartsOffline
    PROVE  Spec => []NoGap
<1>1. Gapless /\ [Next]_vars => Gapless'
    BY GaplessStep
<1>2. Gapless => NoGap
    BY DEF Gapless, Covered, OpenedPast, Unshown, NoGap
<1>3. QED
    BY <1>1, <1>2, GaplessInit, PTL DEF Spec

-----------------------------------------------------------------------------
(***************************************************************************)
(* The convergence of ClientRuntimes: whatever crashes and reconnections   *)
(* came before, once the connection is open and nothing is under way, each *)
(* live runtime has seen its whole log and knows whether its session runs, *)
(* and no session is watched that no runtime follows.                      *)
(*                                                                         *)
(* To Gapless, which says that no event is skipped, the invariant adds:    *)
(* Behind, that nobody is ahead of the log; Departed, that who unsubscribes*)
(* has no successor that is attached already; Subscribed, that the session *)
(* of a live runtime is watched once the page has resumed; Followed, that  *)
(* a session is asked for only while somebody follows it or its            *)
(* unsubscription is under way; and Told, that the last message that tells *)
(* a runtime whether its session runs is right.                            *)
(***************************************************************************)

\* What a message that arrives makes of the runtimes.
ArrivedExactly ==
    /\ toPage # <<>> /\ toPage' = Tail(toPage) /\ UNCHANGED <<log, running, watched, socket, map>>
    /\ \A r \in Runtimes :
          /\ rt'[r].session = rt[r].session
          /\ \/ rt'[r].lastSeq = rt[r].lastSeq
             \/ toPage[1].op = "event" /\ toPage[1].session = rt[r].session /\ rt'[r].lastSeq = toPage[1].seq
             \/ IsAnswer(toPage[1], r) /\ rt'[r].lastSeq = toPage[1].last
          /\ IF (toPage[1].op = "delta" /\ InMap(r) /\ toPage[1].session = rt[r].session) \/ IsAnswer(toPage[1], r)
             THEN rt'[r].streaming = toPage[1].running
             ELSE rt'[r].streaming = rt[r].streaming

\* Each kind does that.
LEMMA ArrivesExactly ==
    ASSUME TInv, Arrives
    PROVE  ArrivedExactly
<1> USE DEF host
<1> DEFINE m == toPage[1]
<1>t. rt \in [Runtimes -> RtRecord] /\ MaxSeq \in Nat
    BY Members, ConstantsAssumption DEF TInv
<1>0. toPage # <<>> /\ Head(toPage) = m /\ 1 \in 1..Len(toPage) /\ toPage' = Tail(toPage)
    BY TakingFirst DEF Arrives, EventArrives, DeltaArrives, BacklogArrives, Attached, FirstMessage, TInv
<1>u. UNCHANGED <<log, running, watched, socket, map>>
    BY DEF Arrives, EventArrives, DeltaArrives, BacklogArrives, Attached
<1>f. /\ m.op = "event" => m.session \in Sessions /\ m.seq \in 1..MaxSeq
      /\ m.op = "delta" => m.session \in Sessions /\ m.running \in BOOLEAN
      /\ m.op \in {"attach", "resume"} =>
            m.of \in Runtimes /\ m.after \in 0..MaxSeq /\ m.last \in 0..MaxSeq /\ m.running \in BOOLEAN
    BY <1>0, MessageFields DEF TInv
<1>1. CASE EventArrives
  <2>1. m.op = "event" /\ Deliver(Following(m.session), m.seq)
    BY <1>1, <1>0 DEF EventArrives, FirstMessage
  <2> HIDE DEF m
  <2>2. \A r \in Runtimes :
          rt'[r] = rt[r] \/ (r \in Following(m.session) /\ rt'[r] = [rt[r] EXCEPT !.lastSeq = m.seq])
    BY <1>t, <2>1 DEF Deliver
  <2>3. \A r \in Runtimes : rt'[r].session = rt[r].session /\ rt'[r].streaming = rt[r].streaming
          /\ (rt'[r].lastSeq = rt[r].lastSeq \/ (m.session = rt[r].session /\ rt'[r].lastSeq = m.seq))
    <3>1. SUFFICES ASSUME NEW r \in Runtimes
                   PROVE  rt'[r].session = rt[r].session /\ rt'[r].streaming = rt[r].streaming
                          /\ (rt'[r].lastSeq = rt[r].lastSeq \/ (m.session = rt[r].session /\ rt'[r].lastSeq = m.seq))
      OBVIOUS
    <3>2. rt[r] \in RtRecord
      BY <1>t
    <3>3. CASE rt'[r] = rt[r]
      BY <3>3
    <3>4. CASE r \in Following(m.session) /\ rt'[r] = [rt[r] EXCEPT !.lastSeq = m.seq]
      <4>1. m.session = rt[r].session
        BY <3>4 DEF Following
      <4>2. /\ rt'[r].session = rt[r].session /\ rt'[r].streaming = rt[r].streaming
            /\ rt'[r].lastSeq = m.seq
        BY <3>2, <3>4 DEF RtRecord
      <4>3. QED
        BY <4>1, <4>2
    <3>5. QED
      BY <2>2, <3>3, <3>4
  <2>4. QED
    BY <1>0, <1>u, <2>1, <2>3 DEF ArrivedExactly, IsAnswer, m
<1>2. CASE DeltaArrives
  <2>1. m.op = "delta"
        /\ rt' = [r \in Runtimes |-> IF r \in Following(m.session) THEN [rt[r] EXCEPT !.streaming = m.running] ELSE rt[r]]
    BY <1>2, <1>0 DEF DeltaArrives, FirstMessage
  <2>2. m.running \in BOOLEAN
    BY <1>f, <2>1
  <2> HIDE DEF m
  <2>3. \A r \in Runtimes : rt'[r].session = rt[r].session /\ rt'[r].lastSeq = rt[r].lastSeq
          /\ rt'[r].streaming = IF InMap(r) /\ m.session = rt[r].session THEN m.running ELSE rt[r].streaming
    BY <1>t, <2>1, <2>2 DEF RtRecord, Following
  <2>4. QED
    BY <1>0, <1>u, <2>1, <2>3 DEF ArrivedExactly, IsAnswer, m
<1>3. CASE BacklogArrives
  <2> DEFINE seqs == (m.after + 1)..m.last
  <2>1. m.op = "resume" /\ rt' = [rt EXCEPT ![m.of] = Resumed(m.of, seqs, m)]
    BY <1>3, <1>0 DEF BacklogArrives, FirstMessage
  <2>2. m.of \in Runtimes /\ m.running \in BOOLEAN /\ m.last \in Nat
    BY <1>f, <1>t, <2>1
  <2>3. rt'[m.of].lastSeq \in {m.last, rt[m.of].lastSeq}
    BY <1>3, BacklogIsGrown
  <2>5. rt'[m.of] = [rt[m.of] EXCEPT !.lastSeq = Bigger(@, IF seqs = {} THEN 0 ELSE m.last), !.streaming = m.running]
    BY <1>t, <2>1, <2>2 DEF Resumed
  <2> HIDE DEF m, seqs
  <2>6. rt'[m.of].session = rt[m.of].session /\ rt'[m.of].streaming = m.running
    BY <1>t, <2>2, <2>5 DEF RtRecord
  <2>7. \A r \in Runtimes : r # m.of => rt'[r] = rt[r]
    BY <1>t, <2>1, <2>2
  <2>8. QED
    BY <1>0, <1>u, <2>1, <2>3, <2>6, <2>7 DEF ArrivedExactly, IsAnswer, m
<1>4. CASE Attached
  <2> DEFINE last == Bigger(rt[m.of].lastSeq, IF m.last > m.after THEN m.last ELSE 0)
  <2>1. m.op = "attach"
        /\ rt' = [rt EXCEPT ![m.of].lastSeq = last, ![m.of].streaming = m.running, ![m.of].stage = "live"]
    BY <1>4, <1>0 DEF Attached, FirstMessage
  <2>2. m.of \in Runtimes /\ m.running \in BOOLEAN /\ m.last \in Nat /\ m.after \in Nat /\ rt[m.of].lastSeq \in Nat
    BY <1>f, <1>t, <2>1 DEF RtRecord
  <2>3. last \in {m.last, rt[m.of].lastSeq}
    BY <2>2 DEF Bigger
  <2> HIDE DEF m, last
  <2>5. rt'[m.of] = [rt[m.of] EXCEPT !.lastSeq = last, !.streaming = m.running, !.stage = "live"]
    BY <1>t, <2>1, <2>2
  <2>6. rt'[m.of].session = rt[m.of].session /\ rt'[m.of].streaming = m.running /\ rt'[m.of].lastSeq = last
    BY <1>t, <2>2, <2>5 DEF RtRecord
  <2>7. \A r \in Runtimes : r # m.of => rt'[r] = rt[r]
    BY <1>t, <2>1, <2>2
  <2>8. QED
    BY <1>0, <1>u, <2>1, <2>3, <2>6, <2>7 DEF ArrivedExactly, IsAnswer, m
<1>5. QED
    BY <1>1, <1>2, <1>3, <1>4 DEF Arrives

-----------------------------------------------------------------------------
(* Nobody is ahead of the log *)

Within(m) ==
    /\ m.op = "event" => m.seq <= log[m.session]
    /\ m.op \in {"attach", "resume"} => m.last <= log[rt[m.of].session]

\* Neither a runtime nor a message is ahead of its log.
Behind ==
    /\ \A r \in Runtimes : ~Untried(r) => rt[r].lastSeq <= log[rt[r].session]
    /\ \A i \in 1..Len(toPage) : Within(toPage[i])

\* What is behind stays behind: logs grow, and who was started keeps its session.
LEMMA WithinKept ==
    ASSUME TInv, Forward, \A s \in Sessions : log[s] \in Nat /\ log'[s] \in Nat /\ log[s] <= log'[s],
           NEW m, NEW i \in 1..Len(toPage), m = toPage[i], Within(m)
    PROVE  Within(m)'
<1>1. /\ m.op = "event" => m.session \in Sessions /\ m.seq \in Nat
      /\ m.op \in {"attach", "resume"} => m.of \in Runtimes /\ m.last \in Nat /\ ~Untried(m.of)
    BY MessageFields, ConstantsAssumption DEF TInv, Known
<1>2. \A r \in Runtimes : ~Untried(r) => rt[r].session \in Sessions /\ rt'[r].session = rt[r].session
    BY Members DEF TInv, Known, RtRecord, Forward
<1>3. CASE m.op = "event"
    BY <1>1, <1>3 DEF Within
<1>4. CASE m.op \in {"attach", "resume"}
  <2>1. PICK s \in Sessions : s = rt[m.of].session /\ s = rt'[m.of].session
    BY <1>1, <1>2, <1>4
  <2>2. m.last <= log'[s]
    BY <1>1, <1>4, <2>1 DEF Within
  <2>3. QED
    BY <1>4, <2>1, <2>2 DEF Within
<1>5. QED
    BY <1>3, <1>4 DEF Within

\* Logs grow.
LEMMA LogsGrow ==
    ASSUME TInv, [Next]_vars
    PROVE  \A s \in Sessions : log[s] \in Nat /\ log'[s] \in Nat /\ log[s] <= log'[s]
<1> USE DEF host, link, page, seen
<1>1. \A s \in Sessions : log[s] \in Nat
    BY Numbers
<1>2. ASSUME NEW s \in Sessions, Logs(s) \/ RunStartsOrEnds(s)
      PROVE  \A q \in Sessions : log'[q] \in Nat /\ log[q] <= log'[q]
    BY <1>2, NotifySends
<1>3. CASE log' = log
    BY <1>1, <1>3
<1>4. QED
    BY <1>1, <1>2, <1>3 DEF Next, HostNext, Arrives, LinkNext, RuntimeNext, Serve, Dies, EventArrives, DeltaArrives,
        BacklogArrives, Attached, Connects, ConnectFails, Lost, Retries, RestartHost, ReconnectNow, UserCalls,
        Start, Stop, vars

\* Every step leaves it so.
LEMMA BehindStep ==
    ASSUME TInv, Wired, Followers, Behind, [Next]_vars
    PROVE  Behind'
<1> USE DEF host, link, page, seen
<1>l. \A s \in Sessions : log[s] \in Nat /\ log'[s] \in Nat /\ log[s] <= log'[s]
    BY LogsGrow
<1>f. Forward
    BY RuntimesGrow
<1>s. \A r \in Runtimes : ~Untried(r) => rt[r].session \in Sessions /\ rt'[r].session = rt[r].session
    BY <1>f, Members DEF TInv, Known, RtRecord, Forward
<1>n. \A r \in Runtimes : rt[r].lastSeq \in Nat
    BY Numbers
\* Messages that are there already.
<1>o. ASSUME NEW i \in 1..Len(toPage), NEW m, m = toPage[i]
      PROVE  Within(m)'
    BY <1>o, <1>f, <1>l, WithinKept DEF Behind
\* Runtimes whose last event stays.
<1>r. ASSUME NEW r \in Runtimes, ~Untried(r), rt'[r].lastSeq = rt[r].lastSeq
      PROVE  rt'[r].lastSeq <= log'[rt'[r].session]
    BY <1>r, <1>l, <1>s, <1>n DEF Behind
<1>1. ASSUME \A i \in 1..Len(toPage') : \E m : m = toPage'[i] /\ Within(m)',
             \A r \in Runtimes : rt'[r].stage # "new" => rt'[r].lastSeq <= log'[rt'[r].session]
      PROVE  Behind'
    BY <1>1 DEF Behind, Untried
<1>2. CASE Arrives
  <2>1. ArrivedExactly
    BY <1>2, ArrivesExactly
  <2>2. \A i \in 1..Len(toPage') : \E m : m = toPage'[i] /\ Within(m)'
    <3>1. \A i \in 1..Len(toPage') : i + 1 \in 1..Len(toPage) /\ toPage'[i] = toPage[i + 1]
        BY <2>1, TakingFirst DEF ArrivedExactly, TInv
    <3>2. QED
        BY <1>o, <3>1
  <2>3. ASSUME NEW r \in Runtimes, rt'[r].stage # "new"
        PROVE  rt'[r].lastSeq <= log'[rt'[r].session]
    <3>1. ~Untried(r)
        BY <1>2, <2>3, EventIsGrown, DeltaIsGrown, BacklogIsGrown, AttachedIsGrown DEF Arrives, Untried
    <3>2. 1 \in 1..Len(toPage) /\ Within(toPage[1])
        BY <2>1, TakingFirst DEF Behind, ArrivedExactly, TInv
    <3>3. rt'[r].lastSeq <= log[rt[r].session]
        BY <2>1, <3>1, <3>2 DEF ArrivedExactly, Within, IsAnswer, Behind
    <3>4. QED
        BY <1>s, <2>1, <3>1, <3>3 DEF ArrivedExactly
  <2>4. QED
    BY <1>1, <2>2, <2>3
<1>3. CASE Serve
  <2>1. rt' = rt /\ log' = log
    BY <1>3 DEF Serve
  <2>2. \A r \in Runtimes : rt'[r].stage # "new" => rt'[r].lastSeq <= log'[rt'[r].session]
    BY <1>r, <2>1 DEF Untried
  <2>3. CASE toPage' = toPage
    BY <1>1, <1>o, <2>2, <2>3
  <2>4. CASE toPage' # toPage
    <3>1. PICK a : a = toPage'[Len(toPage) + 1]
        OBVIOUS
    <3>2. /\ 1 \in 1..Len(toHost) /\ toHost[1].op \in {"attach", "resume"}
          /\ Len(toPage) \in Nat /\ Len(toPage') = Len(toPage) + 1
          /\ \A i \in 1..Len(toPage) : toPage'[i] = toPage[i]
          /\ a.op = toHost[1].op /\ a.of = toHost[1].of /\ a.last = log[toHost[1].session]
          /\ toHost[1].session \in Sessions
        BY <1>3, <2>4, <3>1, ServeSends
    <3>3. toHost[1].session = rt[toHost[1].of].session
        BY <3>2 DEF Followers
    <3>4. a.last <= log'[rt'[a.of].session]
        BY <1>l, <2>1, <3>2, <3>3
    <3>5. Within(a)'
        BY <3>2, <3>4 DEF Within
    <3>6. \A i \in 1..Len(toPage') : \E m : m = toPage'[i] /\ Within(m)'
        BY <1>o, <3>1, <3>2, <3>5
    <3>7. QED
        BY <1>1, <2>2, <3>6
  <2>5. QED
    BY <2>3, <2>4
<1>4. ASSUME NEW s \in Sessions, Logs(s) \/ RunStartsOrEnds(s)
      PROVE  Behind'
  <2>1. rt' = rt
    BY <1>4, NotifySends
  <2>2. \A r \in Runtimes : rt'[r].stage # "new" => rt'[r].lastSeq <= log'[rt'[r].session]
    BY <1>r, <2>1 DEF Untried
  <2>3. CASE toPage' = toPage
    BY <1>1, <1>o, <2>2, <2>3
  <2>4. CASE toPage' # toPage
    <3>1. PICK a : a = toPage'[Len(toPage) + 1]
        OBVIOUS
    <3>2. /\ Len(toPage) \in Nat /\ Len(toPage') = Len(toPage) + 1
          /\ \A i \in 1..Len(toPage) : toPage'[i] = toPage[i]
          /\ \/ a.op = "delta"
             \/ a.op = "event" /\ a.session = s /\ a.seq = log[s] + 1 /\ log'[s] = log[s] + 1
        BY <1>4, <2>4, <3>1, NotifySends
    <3>3. Within(a)'
        BY <1>l, <3>2 DEF Within
    <3>4. \A i \in 1..Len(toPage') : \E m : m = toPage'[i] /\ Within(m)'
        BY <1>o, <3>1, <3>2, <3>3
    <3>5. QED
        BY <1>1, <2>2, <3>4
  <2>5. QED
    BY <2>3, <2>4
<1>5. CASE ~Arrives /\ ~Serve /\ ~\E s \in Sessions : Logs(s) \/ RunStartsOrEnds(s)
  <2>1. toPage' \in {toPage, <<>>} /\ Len(<<>>) = 0
    BY <1>5, WireStep
  <2>2. \A i \in 1..Len(toPage') : \E m : m = toPage'[i] /\ Within(m)'
    BY <1>o, <2>1
  <2>3. ASSUME NEW r \in Runtimes, rt'[r].stage # "new"
        PROVE  rt'[r].lastSeq <= log'[rt'[r].session]
    <3>1. CASE \E q \in Runtimes, s \in Sessions : Start(q, s)
      <4>1. PICK q \in Runtimes, s \in Sessions : Start(q, s)
        BY <3>1
      <4>2. rt'[q].session = s /\ rt'[q].lastSeq = 0 /\ (r # q => rt'[r] = rt[r])
        BY <4>1, StartIsGrown
      <4>3. QED
        BY <1>l, <1>r, <2>3, <4>2 DEF Untried
    <3>2. CASE ~\E q \in Runtimes, s \in Sessions : Start(q, s)
      <4>1. rt'[r].lastSeq = rt[r].lastSeq /\ ~Untried(r)
        BY <1>5, <2>3, <3>2, QuietStep DEF Untried
      <4>2. QED
        BY <1>r, <4>1
    <3>3. QED
        BY <3>1, <3>2
  <2>4. QED
    BY <1>1, <2>2, <2>3
<1>6. QED
    BY <1>2, <1>3, <1>4, <1>5

-----------------------------------------------------------------------------
(* Who has left *)

\* Behind an unsubscription, a follower of the session is attached by a later request only; a
\* session whose unsubscription still waits for the connection has no follower; and nobody is live
\* before the first connection.
Departed ==
    /\ \A i \in 1..Len(toHost) : toHost[i].op = "unsubscribe" =>
          \A r \in Runtimes : InMap(r) /\ rt[r].session = toHost[i].session =>
             \E j \in 1..Len(toHost) : j > i /\ toHost[j].op = "attach" /\ toHost[j].of = r
    /\ \A i \in 1..Len(queue) : queue[i].op = "unsubscribe" =>
          before /\ \A r \in Runtimes : InMap(r) => rt[r].session # rt[queue[i].of].session
    /\ ~before => \A r \in Runtimes : rt[r].stage # "live"

\* A step that sends and calls nothing.
LEMMA DepartedKept ==
    ASSUME TInv, Wired, Departed, [Next]_vars, ~\E r \in Runtimes, s \in Sessions : Start(r, s),
           toHost' \in {toHost, <<>>}, queue' \in {queue, <<>>}, before => before'
    PROVE  Departed'
<1> USE DEF host, link, page, seen
<1>0. Len(<<>>) = 0
    OBVIOUS
<1>1. \A r \in Runtimes : InMap(r)' => InMap(r) /\ rt'[r].session = rt[r].session
    BY MapShrinks, RuntimesGrow, InMapIsKnown DEF Forward
<1>2. \A i \in 1..Len(queue) : queue[i].of \in Runtimes /\ rt'[queue[i].of].session = rt[queue[i].of].session
    BY Members, RuntimesGrow DEF TInv, Known, Call, Forward
<1>3. ASSUME ~before', NEW r \in Runtimes
      PROVE  rt'[r].stage # "live"
  <2>1. ~before /\ rt[r].stage # "live"
    BY <1>3 DEF Departed, TInv, TypeOK
  <2>2. CASE Arrives
    <3>1. conn \notin {"resuming", "open"}
        BY <2>1 DEF Wired
    <3>2. toPage = <<>>
        BY <3>1 DEF Wired, TInv, TypeOK
    <3>3. QED
        BY <2>2, <3>2 DEF Arrives, EventArrives, DeltaArrives, BacklogArrives, Attached, FirstMessage
  <2>3. CASE ~Arrives
    BY <2>1, <2>3, QuietStep
  <2>4. QED
    BY <2>2, <2>3
<1>4. \A i \in 1..Len(toHost') : toHost'[i].op = "unsubscribe" =>
          \A r \in Runtimes : InMap(r)' /\ rt'[r].session = toHost'[i].session =>
             \E j \in 1..Len(toHost') : j > i /\ toHost'[j].op = "attach" /\ toHost'[j].of = r
    BY <1>0, <1>1 DEF Departed
<1>5. \A i \in 1..Len(queue') : queue'[i].op = "unsubscribe" =>
          before' /\ \A r \in Runtimes : InMap(r)' => rt'[r].session # rt'[queue'[i].of].session
    BY <1>0, <1>1, <1>2 DEF Departed
<1>6. QED
    BY <1>3, <1>4, <1>5 DEF Departed

\* What waited for the connection goes out.
LEMMA DepartedOpens ==
    ASSUME TInv, Wired, Departed, Grown, UNCHANGED map, Opens(<<>>),
           \A r \in Runtimes : ~Untried(r) => rt'[r].session = rt[r].session
    PROVE  Departed'
<1>1. /\ Len(toHost') = Len(queue)
      /\ \A i \in 1..Len(toHost') :
           /\ queue[i] \in Call /\ ~Untried(queue[i].of)
           /\ toHost'[i].op = queue[i].op /\ toHost'[i].session = rt'[queue[i].of].session
    BY OpensSends
<1>2. before' = TRUE /\ queue' = <<>> /\ Len(queue') = 0
    BY DEF Opens
<1>3. \A r \in Runtimes : InMap(r)' => InMap(r) /\ rt'[r].session = rt[r].session
    BY InMapIsKnown DEF InMap
<1>4. ASSUME NEW i \in 1..Len(toHost'), toHost'[i].op = "unsubscribe", NEW r \in Runtimes, InMap(r)'
      PROVE  rt'[r].session # toHost'[i].session
  <2>1. i \in 1..Len(queue) /\ queue[i].op = "unsubscribe" /\ queue[i].of \in Runtimes
        /\ toHost'[i].session = rt[queue[i].of].session
    BY <1>1, <1>4 DEF Call
  <2>2. QED
    BY <1>3, <1>4, <2>1 DEF Departed
<1>5. QED
    BY <1>2, <1>4 DEF Departed

\* The next runtime is asked for.
LEMMA DepartedResumes ==
    ASSUME TInv, Wired, Departed, Grown, UNCHANGED map, NEW done, ResumeWith(NextToResume(done), <<>>), before,
           \A r \in Runtimes : ~Untried(r) => rt'[r].session = rt[r].session
    PROVE  Departed'
<1>1. CASE Opens(<<>>)
    BY <1>1, DepartedOpens
<1>2. CASE ~Opens(<<>>)
  <2>1. before' = before /\ queue' = queue /\ Len(toHost') = 1 /\ toHost'[1].op = "resume"
    BY <1>2, ResumeSends
  <2>2. \A r \in Runtimes : InMap(r)' => InMap(r) /\ rt'[r].session = rt[r].session
    BY InMapIsKnown DEF InMap
  <2>3. \A i \in 1..Len(queue) : queue[i].of \in Runtimes /\ rt'[queue[i].of].session = rt[queue[i].of].session
    BY Members DEF TInv, Known, Call
  <2>4. \A i \in 1..Len(toHost') : toHost'[i].op # "unsubscribe"
    BY <2>1
  <2>5. \A i \in 1..Len(queue') : queue'[i].op = "unsubscribe" =>
          before' /\ \A r \in Runtimes : InMap(r)' => rt'[r].session # rt'[queue'[i].of].session
    BY <2>1, <2>2, <2>3 DEF Departed
  <2>6. QED
    BY <2>1, <2>4, <2>5 DEF Departed
<1>3. QED
    BY <1>1, <1>2

\* A runtime that starts is attached behind all that was asked before.
LEMMA DepartedStarts ==
    ASSUME ~SharedSession, ~StartsOffline, TInv, Wired, Departed, NEW r \in Runtimes, NEW s \in Sessions, Start(r, s)
    PROVE  Departed'
<1> DEFINE call == [op |-> "attach", of |-> r]
<1>1. /\ Untried(r) /\ rt'[r].session = s /\ rt'[r].stage = "attaching"
      /\ \A q \in Runtimes : q # r => rt'[q] = rt[q]
      /\ s # None /\ rt' \in [Runtimes -> RtRecord]
    BY StartIsGrown DEF Grown
<1>c. Calls(call, rt') /\ call \in Call /\ call.of = r /\ call.op = "attach"
    BY StartIsGrown
<1>2. (conn = "open" \/ ~before) /\ map' = Append(map, r) /\ before' = before
    BY DEF Start
<1> HIDE DEF call
<1>3. \A q \in Runtimes : InMap(q)' <=> InMap(q) \/ q = r
    BY <1>2, MapGrows
<1>4. \A q \in Runtimes : InMap(q) => q # r
    BY <1>1, InMapIsKnown
<1>5. CASE conn = "open"
  <2>1. /\ queue' = queue /\ Len(toHost) \in Nat /\ Len(toHost') = Len(toHost) + 1
        /\ \A i \in 1..Len(toHost) : toHost'[i] = toHost[i]
        /\ toHost'[Len(toHost) + 1].op = "attach" /\ toHost'[Len(toHost) + 1].of = r
    BY <1>1, <1>c, <1>5, CallsSends
  <2>2. Len(queue') = 0
    BY <1>5, <2>1 DEF Wired
  <2>3. ASSUME NEW i \in 1..Len(toHost'), toHost'[i].op = "unsubscribe", NEW q \in Runtimes, InMap(q)',
               rt'[q].session = toHost'[i].session
        PROVE  \E j \in 1..Len(toHost') : j > i /\ toHost'[j].op = "attach" /\ toHost'[j].of = q
    <3>1. i \in 1..Len(toHost) /\ toHost[i].op = "unsubscribe" /\ toHost'[i] = toHost[i]
        BY <2>1, <2>3
    <3>2. CASE q = r
        BY <2>1, <3>1, <3>2
    <3>3. CASE q # r
      <4>1. InMap(q) /\ rt[q].session = toHost[i].session
        BY <1>1, <1>3, <2>3, <3>1, <3>3
      <4>2. PICK j \in 1..Len(toHost) : j > i /\ toHost[j].op = "attach" /\ toHost[j].of = q
        BY <3>1, <4>1 DEF Departed
      <4>3. QED
        BY <2>1, <4>2
    <3>4. QED
        BY <3>2, <3>3
  <2>4. before
    BY <1>5 DEF Wired
  <2>5. QED
    BY <1>2, <2>2, <2>3, <2>4 DEF Departed
<1>6. CASE conn # "open"
  <2>1. ~before /\ toHost = <<>> /\ Len(toHost) = 0
    BY <1>2, <1>6 DEF Wired, TInv, TypeOK
  <2>2. toHost' = toHost /\ Len(queue) \in Nat /\ Len(queue') = Len(queue) + 1
        /\ (\A i \in 1..Len(queue) : queue'[i] = queue[i]) /\ queue'[Len(queue) + 1] = call
    BY <1>1, <1>c, <1>6, CallsSends
  <2>3. \A i \in 1..Len(queue') : queue'[i].op # "unsubscribe"
    BY <1>c, <2>1, <2>2 DEF Departed
  <2>4. \A q \in Runtimes : rt'[q].stage # "live"
    BY <1>1, <2>1 DEF Departed
  <2>5. QED
    BY <2>1, <2>2, <2>3, <2>4 DEF Departed
<1>7. QED
    BY <1>5, <1>6

\* A runtime is in the map once.
Once == \A i, j \in 1..Len(map) : map[i] = map[j] => i = j

\* Taking one out leaves the others where they are, and none of its own.
LEMMA OnceTakenOut ==
    ASSUME TInv, Once, NEW r \in Runtimes, map' = Without(r)
    PROVE  Once' /\ ~InMap(r)'
<1>1. CASE ~InMap(r)
    BY <1>1 DEF Without, InMap, Once
<1>2. CASE InMap(r)
  <2> DEFINE k == CHOOSE i \in 1..Len(map) : map[i] = r
             left == RemoveAt(map, k)
  <2>1. k \in 1..Len(map) /\ map[k] = r /\ map \in Seq(Runtimes)
    BY <1>2, Members DEF InMap, TInv
  <2>2. map' = left
    BY <1>2 DEF Without
  <2> HIDE DEF k
  <2>3. /\ Len(left) = Len(map) - 1
        /\ \A j \in 1..Len(left) : left[j] = IF j <= k - 1 THEN map[j] ELSE map[j + 1]
    BY <2>1, RemovedExactly
  <2> HIDE DEF left
  <2>4. k \in Nat /\ Len(map) \in Nat /\ 1 <= k /\ k <= Len(map)
    BY <2>1
  <2>5. \A i \in 1..Len(left) : \E n \in 1..Len(map) :
            left[i] = map[n] /\ n # k /\ n = IF i <= k - 1 THEN i ELSE i + 1
    BY <2>3, <2>4
  <2>6. ASSUME NEW i \in 1..Len(left), NEW j \in 1..Len(left), left[i] = left[j]
        PROVE  i = j
    <3>1. PICK n \in 1..Len(map) : left[i] = map[n] /\ n = IF i <= k - 1 THEN i ELSE i + 1
        BY <2>5
    <3>2. PICK o \in 1..Len(map) : left[j] = map[o] /\ o = IF j <= k - 1 THEN j ELSE j + 1
        BY <2>5
    <3>3. n = o
        BY <2>6, <3>1, <3>2 DEF Once
    <3>4. i \in Nat /\ j \in Nat
        BY <2>3, <2>4
    <3>5. QED
        BY <2>4, <3>1, <3>2, <3>3, <3>4
  <2>7. \A i \in 1..Len(left) : left[i] # r
    BY <2>1, <2>5 DEF Once
  <2>8. QED
    BY <2>2, <2>6, <2>7 DEF Once, InMap
<1>3. QED
    BY <1>1, <1>2

\* Only who has not started is put into it.
LEMMA OnceStep ==
    ASSUME TInv, Once, [Next]_vars
    PROVE  Once'
<1> USE DEF host, link, page, seen
<1>1. CASE \E r \in Runtimes, s \in Sessions : Start(r, s)
  <2>1. PICK r \in Runtimes, s \in Sessions : Start(r, s)
    BY <1>1
  <2>2. map' = Append(map, r) /\ Untried(r)
    BY <2>1 DEF Start, Untried
  <2>3. \A i \in 1..Len(map) : map[i] # r
    BY <2>2 DEF TInv, Known
  <2>4. Len(map) \in Nat /\ Len(map') = Len(map) + 1 /\ map'[Len(map) + 1] = r
        /\ \A i \in 1..Len(map) : map'[i] = map[i]
    BY <2>2, Members DEF TInv
  <2>5. QED
    BY <2>3, <2>4 DEF Once
<1>2. CASE \E r \in Runtimes : Stop(r)
  <2>1. PICK r \in Runtimes : Stop(r)
    BY <1>2
  <2>2. map' = Without(r)
    BY <2>1 DEF Stop
  <2>3. QED
    BY <2>2, OnceTakenOut
<1>3. CASE ~(\E r \in Runtimes, s \in Sessions : Start(r, s)) /\ ~\E r \in Runtimes : Stop(r)
  <2>1. map' = map
    BY <1>3 DEF vars, Next, HostNext, Arrives, LinkNext, RuntimeNext, Serve, Dies, Logs, RunStartsOrEnds,
                EventArrives, DeltaArrives, BacklogArrives, Attached, Connects, ConnectFails, Lost, Retries,
                RestartHost, ReconnectNow, UserCalls
  <2>2. QED
    BY <2>1 DEF Once
<1>4. QED
    BY <1>1, <1>2, <1>3

\* A runtime that stops is out of the map; if it was the last of its session, it unsubscribes, now
\* or when the connection opens.
LEMMA StopLeaves ==
    ASSUME TInv, Once, Followers, NEW r \in Runtimes, Stop(r)
    PROVE  /\ ~InMap(r)' /\ rt[r].stage = "live" /\ \A q \in Runtimes : q # r => (InMap(q)' <=> InMap(q))
           /\ UNCHANGED <<log, running, watched, socket, toPage, conn, before, resumed>>
           /\ \A q \in Runtimes : rt'[q].session = rt[q].session
           /\ \/ /\ UNCHANGED <<toHost, queue>>
                 /\ conn = "none" \/ ~InMap(r)
              \/ /\ conn = "open" /\ queue' = queue /\ Len(toHost) \in Nat /\ Len(toHost') = Len(toHost) + 1
                 /\ \A i \in 1..Len(toHost) : toHost'[i] = toHost[i]
                 /\ toHost'[Len(toHost) + 1].op = "unsubscribe" /\ toHost'[Len(toHost) + 1].session = rt[r].session
                 /\ \A q \in Runtimes : InMap(q)' => rt[q].session # rt[r].session
              \/ /\ conn # "open" /\ toHost' = toHost /\ Len(queue) \in Nat /\ Len(queue') = Len(queue) + 1
                 /\ \A i \in 1..Len(queue) : queue'[i] = queue[i]
                 /\ queue'[Len(queue) + 1].op = "unsubscribe" /\ queue'[Len(queue) + 1].of = r
                 /\ \A q \in Runtimes : InMap(q)' => rt[q].session # rt[r].session
<1> USE DEF host, seen
<1> DEFINE call == [op |-> "unsubscribe", of |-> r]
<1>1. rt[r].stage = "live" /\ map' = Without(r) /\ rt[r].session # None /\ rt \in [Runtimes -> RtRecord]
    BY Members DEF Stop, TInv, Known, Untried
<1>2. UNCHANGED <<log, running, watched, socket, toPage, conn, before, resumed>>
    BY DEF Stop
<1>3. \A q \in Runtimes : rt'[q].session = rt[q].session
    BY StopIsGrown
<1>4. ~InMap(r)'
    BY <1>1, OnceTakenOut
<1>5. \A q \in Runtimes : q # r => (InMap(q)' <=> InMap(q))
  <2>1. /\ \A j \in 1..Len(map') : \E i \in 1..Len(map) : map'[j] = map[i]
        /\ \A q \in Runtimes : InMap(q) /\ q # r => \E j \in 1..Len(map') : map'[j] = q
    BY <1>1, TakenOut DEF TInv
  <2>2. QED
    BY <2>1 DEF InMap
<1>6. call \in Call /\ call.op = "unsubscribe" /\ call.of = r
    BY DEF Call
<1>7. CASE conn = "none" \/ Following(rt[r].session) # {r}
  <2>1. UNCHANGED <<toHost, queue>>
    BY <1>7 DEF Stop
  <2>2. ASSUME InMap(r)
        PROVE  Following(rt[r].session) = {r}
    BY <2>2 DEF Following, Followers, Alone
  <2>3. QED
    BY <1>1, <1>2, <1>3, <1>4, <1>5, <1>7, <2>1, <2>2
<1>8. CASE ~(conn = "none" \/ Following(rt[r].session) # {r})
  <2>1. Calls(call, rt) /\ Following(rt[r].session) = {r}
    BY <1>8 DEF Stop
  <2>2. \A q \in Runtimes : InMap(q)' => rt[q].session # rt[r].session
    BY <1>4, <1>5, <2>1 DEF Following
  <2> HIDE DEF call
  <2>3. \/ /\ conn = "open" /\ queue' = queue /\ Len(toHost) \in Nat /\ Len(toHost') = Len(toHost) + 1
           /\ \A i \in 1..Len(toHost) : toHost'[i] = toHost[i]
           /\ toHost'[Len(toHost) + 1].op = "unsubscribe" /\ toHost'[Len(toHost) + 1].session = rt[r].session
        \/ /\ conn # "open" /\ toHost' = toHost /\ Len(queue) \in Nat /\ Len(queue') = Len(queue) + 1
           /\ \A i \in 1..Len(queue) : queue'[i] = queue[i]
           /\ queue'[Len(queue) + 1] = call
    BY <1>1, <1>6, <2>1, CallsSends
  <2>4. QED
    BY <1>1, <1>2, <1>3, <1>4, <1>5, <1>6, <2>2, <2>3
<1>9. QED
    BY <1>7, <1>8

\* Every step leaves it so.
LEMMA DepartedStep ==
    ASSUME ~SharedSession, ~StartsOffline, TInv, Wired, Once, Followers, Departed, [Next]_vars
    PROVE  Departed'
<1> USE DEF host, link, page, seen
<1>s. \A r \in Runtimes : ~Untried(r) => rt'[r].session = rt[r].session
    BY RuntimesGrow DEF Forward
<1>1. CASE Serve
  <2>s. /\ \A i \in 1..Len(toHost') : i + 1 \in 1..Len(toHost) /\ toHost'[i] = toHost[i + 1]
        /\ Len(toHost') = Len(toHost) - 1 /\ UNCHANGED <<queue, rt, map, before>>
    BY <1>1, ServeSends
  <2>n. Len(toHost) \in Nat
    BY Members DEF TInv
  <2>1. /\ \A i \in 1..Len(toHost') : i + 1 \in 1..Len(toHost) /\ toHost'[i] = toHost[i + 1]
        /\ Len(toHost) \in Nat /\ Len(toHost') = Len(toHost) - 1 /\ UNCHANGED <<queue, rt, map, before>>
    BY <2>s, <2>n
  <2>2. ASSUME NEW i \in 1..Len(toHost'), toHost'[i].op = "unsubscribe", NEW r \in Runtimes, InMap(r)',
               rt'[r].session = toHost'[i].session
        PROVE  \E j \in 1..Len(toHost') : j > i /\ toHost'[j].op = "attach" /\ toHost'[j].of = r
    <3>1. i + 1 \in 1..Len(toHost) /\ toHost[i + 1].op = "unsubscribe" /\ InMap(r) /\ rt[r].session = toHost[i + 1].session
        BY <2>1, <2>2 DEF InMap
    <3>2. PICK j \in 1..Len(toHost) : j > i + 1 /\ toHost[j].op = "attach" /\ toHost[j].of = r
        BY <3>1 DEF Departed
    <3>3. j - 1 \in 1..Len(toHost') /\ j - 1 > i /\ toHost'[j - 1] = toHost[j]
        BY <2>1, <3>2
    <3>4. QED
        BY <3>2, <3>3
  <2>3. \A r \in Runtimes : InMap(r)' <=> InMap(r)
    BY <2>1 DEF InMap
  <2>4. QED
    BY <2>1, <2>2, <2>3 DEF Departed
<1>2. CASE BacklogArrives
  <2>1. toHost = <<>> /\ Grown /\ UNCHANGED map
    BY <1>2, ResumeMeansResuming, BacklogIsGrown DEF BacklogArrives
  <2>2. ResumeWith(NextToResume(resumed \cup {Head(toPage).of}), <<>>) /\ before
    BY <1>2, <2>1, ResumeMeansResuming DEF BacklogArrives, Wired
  <2>3. QED
    BY <1>s, <2>1, <2>2, DepartedResumes
<1>3. CASE Connects
  <2>1. Grown /\ UNCHANGED map
    BY <1>3, SameIsGrown DEF Connects
  <2>2. CASE before
    BY <1>3, <1>s, <2>1, <2>2, DepartedResumes DEF Connects
  <2>3. CASE ~before
    BY <1>3, <1>s, <2>1, <2>3, DepartedOpens DEF Connects
  <2>4. QED
    BY <2>2, <2>3
<1>4. ASSUME NEW r \in Runtimes, NEW s \in Sessions, Start(r, s)
      PROVE  Departed'
    BY <1>4, DepartedStarts
<1>5. ASSUME NEW r \in Runtimes, Stop(r), ~\E q \in Runtimes, s \in Sessions : Start(q, s)
      PROVE  Departed'
  <2>1. /\ ~InMap(r)' /\ rt[r].stage = "live" /\ before' = before
        /\ \A q \in Runtimes : q # r => (InMap(q)' <=> InMap(q))
        /\ \A q \in Runtimes : rt'[q].session = rt[q].session
    BY <1>5, StopLeaves
  <2>2. before
    BY <2>1 DEF Departed
  <2>3. CASE UNCHANGED <<toHost, queue>>
    BY <1>5, <2>1, <2>3, DepartedKept
  <2>4. CASE conn = "open" /\ ~UNCHANGED <<toHost, queue>>
    <3>1. /\ queue' = queue /\ Len(toHost) \in Nat /\ Len(toHost') = Len(toHost) + 1
          /\ \A i \in 1..Len(toHost) : toHost'[i] = toHost[i]
          /\ toHost'[Len(toHost) + 1].op = "unsubscribe" /\ toHost'[Len(toHost) + 1].session = rt[r].session
          /\ \A q \in Runtimes : InMap(q)' => rt[q].session # rt[r].session
        BY <1>5, <2>4, StopLeaves
    <3>2. Len(queue') = 0
        BY <2>4, <3>1 DEF Wired
    <3>3. ASSUME NEW i \in 1..Len(toHost'), toHost'[i].op = "unsubscribe", NEW q \in Runtimes, InMap(q)',
                 rt'[q].session = toHost'[i].session
          PROVE  \E j \in 1..Len(toHost') : j > i /\ toHost'[j].op = "attach" /\ toHost'[j].of = q
      <4>1. i \in 1..Len(toHost) /\ toHost'[i] = toHost[i]
        BY <2>1, <3>1, <3>3
      <4>2. InMap(q) /\ rt[q].session = toHost[i].session
        BY <2>1, <3>3, <4>1
      <4>3. PICK j \in 1..Len(toHost) : j > i /\ toHost[j].op = "attach" /\ toHost[j].of = q
        BY <3>3, <4>1, <4>2 DEF Departed
      <4>4. QED
        BY <3>1, <4>3
    <3>4. QED
        BY <2>1, <2>2, <3>2, <3>3 DEF Departed
  <2>5. CASE conn # "open" /\ ~UNCHANGED <<toHost, queue>>
    <3>1. /\ toHost' = toHost /\ Len(queue) \in Nat /\ Len(queue') = Len(queue) + 1
          /\ \A i \in 1..Len(queue) : queue'[i] = queue[i]
          /\ queue'[Len(queue) + 1].op = "unsubscribe" /\ queue'[Len(queue) + 1].of = r
          /\ \A q \in Runtimes : InMap(q)' => rt[q].session # rt[r].session
        BY <1>5, <2>5, StopLeaves
    <3>2. \A q \in Runtimes : InMap(q)' => InMap(q) /\ rt'[q].session = rt[q].session
        BY <2>1
    <3>3. \A i \in 1..Len(toHost') : toHost'[i].op = "unsubscribe" =>
            \A q \in Runtimes : InMap(q)' /\ rt'[q].session = toHost'[i].session =>
               \E j \in 1..Len(toHost') : j > i /\ toHost'[j].op = "attach" /\ toHost'[j].of = q
        BY <3>1, <3>2 DEF Departed
    <3>4. ASSUME NEW i \in 1..Len(queue'), queue'[i].op = "unsubscribe", NEW q \in Runtimes, InMap(q)'
          PROVE  rt'[q].session # rt'[queue'[i].of].session
      <4>1. CASE i = Len(queue) + 1
        BY <2>1, <3>1, <3>2, <3>4, <4>1
      <4>2. CASE i # Len(queue) + 1
        <5>1. i \in 1..Len(queue) /\ queue'[i] = queue[i] /\ queue[i].of \in Runtimes
            BY <3>1, <4>2, Members DEF TInv, Call
        <5>2. QED
            BY <2>1, <3>2, <3>4, <5>1 DEF Departed
      <4>3. QED
        BY <4>1, <4>2
    <3>5. QED
        BY <2>1, <2>2, <3>3, <3>4 DEF Departed
  <2>6. QED
    BY <2>3, <2>4, <2>5
<1>6. CASE ~Serve /\ ~BacklogArrives /\ ~Connects /\ (~\E r \in Runtimes, s \in Sessions : Start(r, s))
           /\ ~\E r \in Runtimes : Stop(r)
  <2>1. toHost' \in {toHost, <<>>} /\ queue' \in {queue, <<>>} /\ before' = before
    BY <1>6 DEF vars, Next, HostNext, Arrives, LinkNext, RuntimeNext, Dies, Logs, RunStartsOrEnds,
                EventArrives, DeltaArrives, Attached, ConnectFails, Lost, Retries,
                RestartHost, ReconnectNow, UserCalls, StartsFail
  <2>2. QED
    BY <1>6, <2>1, DepartedKept
<1>7. QED
    BY <1>1, <1>2, <1>3, <1>4, <1>5, <1>6

-----------------------------------------------------------------------------
(* Who is subscribed *)

\* On an open connection every live runtime's session is watched; until then, those of the runtimes
\* that have resumed; and always those of the runtimes whose answer is on its way.
Subscribed ==
    /\ socket = "live" /\ conn = "open" =>
          \A r \in Runtimes : InMap(r) /\ rt[r].stage = "live" => rt[r].session \in watched
    /\ socket = "live" /\ conn = "resuming" =>
          \A r \in Runtimes : r \in resumed /\ InMap(r) => rt[r].session \in watched
    /\ socket = "live" =>
          \A i \in 1..Len(toPage) : toPage[i].op \in {"attach", "resume"} => rt[toPage[i].of].session \in watched

\* When nothing is left to resume, all of the map is done.
LEMMA AllResumed ==
    ASSUME TInv, NEW done, NextToResume(done) = None, NEW r \in Runtimes, InMap(r)
    PROVE  r \in done
<1> DEFINE left == {i \in 1..Len(map) : map[i] \notin done}
<1>1. PICK k \in 1..Len(map) : map[k] = r
    BY DEF InMap
<1>2. SUFFICES ASSUME r \notin done PROVE FALSE
    OBVIOUS
<1>3. left \in SUBSET Nat /\ k \in left
    BY <1>1, <1>2, Members DEF TInv
<1>4. \E n \in left : \A m \in left : n <= m
    BY <1>3, LeastNumber
<1>5. (CHOOSE i \in left : \A j \in left : i <= j) \in left
    BY <1>4
<1>6. NextToResume(done) = map[CHOOSE i \in left : \A j \in left : i <= j]
    BY <1>3 DEF NextToResume
<1> HIDE DEF left
<1>7. left \subseteq 1..Len(map)
    BY DEF left
<1>8. NextToResume(done) \in Runtimes
    BY <1>5, <1>6, <1>7, Members DEF TInv
<1>9. QED
    BY <1>8, ConstantsAssumption

\* A step that watches no less, has nobody become live or answer, and opens nothing.
LEMMA SubscribedKept ==
    ASSUME TInv, Subscribed, watched \subseteq watched', conn' = "open" \/ conn' = "resuming" => conn' = conn,
           socket' = "live" => socket = "live", resumed' = resumed,
           \A r \in Runtimes : InMap(r)' =>
              /\ InMap(r) \/ (rt'[r].stage # "live" /\ conn # "resuming")
              /\ InMap(r) => rt'[r].session = rt[r].session /\ (rt'[r].stage = "live" => rt[r].stage = "live"),
           \A r \in Runtimes : ~Untried(r) => rt'[r].session = rt[r].session,
           \A i \in 1..Len(toPage') : toPage'[i].op \in {"attach", "resume"} =>
              \E j \in 1..Len(toPage) : toPage'[i] = toPage[j]
    PROVE  Subscribed'
<1>1. ASSUME socket' = "live", conn' = "open", NEW r \in Runtimes, InMap(r)', rt'[r].stage = "live"
      PROVE  rt'[r].session \in watched'
    BY <1>1 DEF Subscribed
<1>2. ASSUME socket' = "live", conn' = "resuming", NEW r \in Runtimes, r \in resumed', InMap(r)'
      PROVE  rt'[r].session \in watched'
    BY <1>2 DEF Subscribed
<1>3. ASSUME socket' = "live", NEW i \in 1..Len(toPage'), toPage'[i].op \in {"attach", "resume"}
      PROVE  rt'[toPage'[i].of].session \in watched'
  <2>1. PICK j \in 1..Len(toPage) : toPage'[i] = toPage[j]
    BY <1>3
  <2>2. toPage[j].op \in {"attach", "resume"} /\ toPage[j].of \in Runtimes /\ ~Untried(toPage[j].of)
    BY <1>3, <2>1, MessageFields DEF TInv, Known
  <2>3. QED
    BY <1>3, <2>1, <2>2 DEF Subscribed
<1>4. QED
    BY <1>1, <1>2, <1>3 DEF Subscribed

\* Every step leaves it so.
LEMMA SubscribedStep ==
    ASSUME ~SharedSession, ~StartsOffline, TInv, Wired, Attaching, Once, Followers, Departed, Subscribed, [Next]_vars
    PROVE  Subscribed'
<1> USE DEF host, link, page, seen
<1>s. \A r \in Runtimes : ~Untried(r) => rt'[r].session = rt[r].session
    BY RuntimesGrow DEF Forward
<1>n. Len(toPage) \in Nat /\ Len(<<>>) = 0
    BY Members DEF TInv
<1>1. CASE Serve
  <2> DEFINE request == toHost[1]
  <2>1. /\ 1 \in 1..Len(toHost) /\ request.of \in Runtimes
        /\ UNCHANGED <<rt, map, conn, socket, resumed>>
        /\ \/ request.op = "unsubscribe" /\ toPage' = toPage /\ watched' = watched \ {request.session}
           \/ /\ request.op \in {"attach", "resume"} /\ watched' = watched \cup {request.session}
              /\ Len(toPage) \in Nat /\ Len(toPage') = Len(toPage) + 1
              /\ \A i \in 1..Len(toPage) : toPage'[i] = toPage[i]
              /\ toPage'[Len(toPage) + 1].op = request.op /\ toPage'[Len(toPage) + 1].of = request.of
    BY <1>1, ServeSends
  <2>2. request.session = rt[request.of].session
    BY <2>1 DEF Followers
  <2>3. \A r \in Runtimes : InMap(r)' <=> InMap(r)
    BY <2>1 DEF InMap
  <2>4. CASE request.op = "unsubscribe"
    <3>1. conn # "resuming"
        BY <2>1, <2>4 DEF Wired
    <3>2. ASSUME NEW r \in Runtimes, InMap(r), rt[r].stage = "live"
          PROVE  rt[r].session # request.session
      <4>1. SUFFICES ASSUME rt[r].session = request.session PROVE FALSE
        OBVIOUS
      <4>2. PICK j \in 1..Len(toHost) : toHost[j].op = "attach" /\ toHost[j].of = r
        BY <2>1, <2>4, <3>2, <4>1 DEF Departed
      <4>3. QED
        BY <3>2, <4>2 DEF Attaching
    <3>3. ASSUME NEW i \in 1..Len(toPage), toPage[i].op \in {"attach", "resume"}
          PROVE  rt[toPage[i].of].session # request.session
      <4>1. toPage[i].op = "attach"
        BY <1>1, <3>1, <3>3, ServeSends DEF Wired
      <4>2. PICK r \in Runtimes : r = toPage[i].of
        BY <3>3, MessageFields DEF TInv
      <4>3. InMap(r)
        BY <4>1, <4>2 DEF Attaching, Followers
      <4>4. SUFFICES ASSUME rt[r].session = request.session PROVE FALSE
        BY <4>2
      <4>5. PICK j \in 1..Len(toHost) : toHost[j].op = "attach" /\ toHost[j].of = r
        BY <2>1, <2>4, <4>3, <4>4 DEF Departed
      <4>6. QED
        BY <4>1, <4>2, <4>5 DEF Attaching
    <3>4. QED
        BY <2>1, <2>3, <2>4, <3>1, <3>2, <3>3 DEF Subscribed
  <2>5. CASE request.op # "unsubscribe"
    <3>1. \A i \in 1..Len(toPage') : toPage'[i].op \in {"attach", "resume"} =>
             (i \in 1..Len(toPage) /\ toPage'[i] = toPage[i]) \/ toPage'[i].of = request.of
        BY <2>1, <2>5
    <3>2. QED
        BY <2>1, <2>2, <2>3, <2>5, <3>1 DEF Subscribed
  <2>6. QED
    BY <2>4, <2>5
<1>2. CASE BacklogArrives
  <2> DEFINE m == toPage[1]
             done == resumed \cup {m.of}
  <2>1. /\ toPage # <<>> /\ m.op = "resume" /\ m.of \in Runtimes /\ Head(toPage) = m /\ 1 \in 1..Len(toPage)
        /\ ~Untried(m.of) /\ toHost = <<>> /\ conn = "resuming" /\ toPage' = Tail(toPage)
        /\ UNCHANGED <<map, watched, socket>> /\ resumed' = done
        /\ \A i \in 1..Len(toPage') : toPage'[i].op \notin {"attach", "resume"}
    BY <1>2, ResumeMeansResuming, BacklogIsGrown, TakingFirst DEF BacklogArrives, TInv
  <2>2. ResumeWith(NextToResume(done), <<>>)
    BY <1>2, <2>1 DEF BacklogArrives
  <2> HIDE DEF m, done
  <2>3. ASSUME socket = "live", NEW r \in Runtimes, r \in done, InMap(r)
        PROVE  rt'[r].session \in watched
    <3>1. rt'[r].session = rt[r].session
        BY <1>s, <2>3, InMapIsKnown
    <3>2. QED
        BY <2>1, <2>3, <3>1 DEF Subscribed, done, m
  <2>4. conn' = "open" => NextToResume(done) = None
    BY <2>1, <2>2 DEF ResumeWith
  <2>5. \A r \in Runtimes : InMap(r)' <=> InMap(r)
    BY <2>1 DEF InMap
  <2>6. ASSUME socket' = "live", conn' = "open", NEW r \in Runtimes, InMap(r)'
        PROVE  rt'[r].session \in watched'
    BY <2>1, <2>3, <2>4, <2>5, <2>6, AllResumed
  <2>7. QED
    BY <2>1, <2>3, <2>5, <2>6 DEF Subscribed
<1>3. CASE Connects
  <2>1. toPage' = <<>> /\ resumed' = {} /\ UNCHANGED <<map, rt>>
    BY <1>3 DEF Connects
  <2>2. \A r \in Runtimes : InMap(r)' <=> InMap(r)
    BY <2>1 DEF InMap
  <2>3. ASSUME conn' = "open", NEW r \in Runtimes, InMap(r)
        PROVE  rt[r].stage # "live"
    <3>1. CASE ~before
        BY <3>1 DEF Departed
    <3>2. CASE before
      <4>1. NextToResume({}) = None
        BY <1>3, <2>3, <3>2 DEF Connects, ResumeWith
      <4>2. QED
        BY <2>3, <4>1, AllResumed
    <3>3. QED
        BY <3>1, <3>2
  <2>4. QED
    BY <1>n, <2>1, <2>2, <2>3 DEF Subscribed
<1>4. CASE Attached
  <2>1. /\ toPage # <<>> /\ toPage[1].op = "attach" /\ toPage' = Tail(toPage) /\ 1 \in 1..Len(toPage)
        /\ \A r \in Runtimes : r # toPage[1].of => rt'[r] = rt[r]
        /\ UNCHANGED <<map, watched, socket, conn, resumed>>
    BY <1>4, AttachedIsGrown, TakingFirst DEF Attached, TInv
  <2>2. /\ \A i \in 1..Len(toPage') : i + 1 \in 1..Len(toPage) /\ toPage'[i] = toPage[i + 1]
        /\ toPage[1].of \in Runtimes
    BY <2>1, TakingFirst, MessageFields DEF TInv
  <2>3. \A r \in Runtimes : (InMap(r)' <=> InMap(r)) /\ (InMap(r) => rt'[r].session = rt[r].session)
    BY <1>s, <2>1, InMapIsKnown DEF InMap
  <2>4. conn # "resuming"
    BY <2>1 DEF Wired
  <2>5. \A i \in 1..Len(toPage) : toPage[i].op \in {"attach", "resume"} =>
            rt'[toPage[i].of].session = rt[toPage[i].of].session
    BY <1>s, MessageFields DEF TInv, Known
  <2>6. \A i \in 1..Len(toPage) : socket = "live" /\ toPage[i].op \in {"attach", "resume"} =>
            rt'[toPage[i].of].session \in watched
    BY <2>5 DEF Subscribed
  <2>7. \A i \in 1..Len(toPage') : socket = "live" /\ toPage'[i].op \in {"attach", "resume"} =>
            rt'[toPage'[i].of].session \in watched
    BY <2>2, <2>6
  <2>8. ASSUME socket = "live", conn = "open", NEW r \in Runtimes, InMap(r)', rt'[r].stage = "live"
        PROVE  rt'[r].session \in watched
    <3>1. CASE r = toPage[1].of
        BY <2>1, <2>6, <2>8, <3>1
    <3>2. CASE r # toPage[1].of
        BY <2>1, <2>3, <2>8, <3>2 DEF Subscribed
    <3>3. QED
        BY <3>1, <3>2
  <2>9. QED
    BY <2>1, <2>4, <2>7, <2>8 DEF Subscribed
<1>5. ASSUME NEW r \in Runtimes, NEW s \in Sessions, Start(r, s)
      PROVE  Subscribed'
  <2>1. /\ Untried(r) /\ rt'[r].session = s /\ rt'[r].stage = "attaching" /\ \A q \in Runtimes : q # r => rt'[q] = rt[q]
    BY <1>5, StartIsGrown
  <2>2. /\ conn = "open" \/ ~before
        /\ UNCHANGED <<watched, socket, toPage, resumed>>
        /\ map' = Append(map, r) /\ (conn' = conn \/ conn' = "connecting")
    BY <1>5 DEF Start, Connecting
  <2>3. \A q \in Runtimes : InMap(q)' <=> InMap(q) \/ q = r
    BY <2>2, MapGrows
  <2>4. conn # "resuming"
    BY <2>2 DEF Wired
  <2>5. \A q \in Runtimes : InMap(q) => q # r
    BY <2>1, InMapIsKnown
  <2>6. QED
    BY <1>s, <2>1, <2>2, <2>3, <2>4, <2>5, SubscribedKept
<1>6. ASSUME NEW r \in Runtimes, Stop(r)
      PROVE  Subscribed'
  <2>1. /\ ~InMap(r)' /\ \A q \in Runtimes : q # r => (InMap(q)' <=> InMap(q))
        /\ UNCHANGED <<watched, socket, toPage, conn, resumed>>
        /\ \A q \in Runtimes : rt'[q].session = rt[q].session
    BY <1>6, StopLeaves
  <2>2. \A q \in Runtimes : rt'[q].stage = "live" => rt[q].stage = "live"
    BY <1>6, StopIsGrown
  <2>3. QED
    BY <2>1, <2>2, SubscribedKept
<1>7. CASE EventArrives \/ DeltaArrives
  <2>1. /\ toPage # <<>> /\ toPage' = Tail(toPage)
        /\ \A r \in Runtimes : rt'[r].stage = rt[r].stage
    BY <1>7, EventIsGrown, DeltaIsGrown
  <2>2. UNCHANGED <<map, watched, socket, conn, resumed>>
    BY <1>7 DEF EventArrives, DeltaArrives
  <2>3. \A i \in 1..Len(toPage') : i + 1 \in 1..Len(toPage) /\ toPage'[i] = toPage[i + 1]
    BY <2>1, TakingFirst DEF TInv
  <2>4. \A r \in Runtimes : (InMap(r)' <=> InMap(r)) /\ (InMap(r) => rt'[r].session = rt[r].session)
    BY <1>s, <2>2, InMapIsKnown DEF InMap
  <2>5. QED
    BY <1>s, <2>1, <2>2, <2>3, <2>4, SubscribedKept
<1>8. ASSUME NEW s \in Sessions, Logs(s) \/ RunStartsOrEnds(s)
      PROVE  Subscribed'
  <2>1. /\ UNCHANGED <<watched, map, rt, socket, conn, resumed>>
        /\ \A i \in 1..Len(toPage') : toPage'[i].op \in {"attach", "resume"} =>
              i \in 1..Len(toPage) /\ toPage'[i] = toPage[i]
    BY <1>8, NotifySends
  <2>2. \A r \in Runtimes : InMap(r)' <=> InMap(r)
    BY <2>1 DEF InMap
  <2>3. QED
    BY <2>1, <2>2 DEF Subscribed
<1>9. CASE Dies \/ Lost \/ \E k \in BOOLEAN : ConnectFails(k)
  <2>1. socket' # "live"
    BY <1>9 DEF Dies, HostUp, Lost, ConnectFails, Wired
  <2>2. QED
    BY <2>1 DEF Subscribed
<1>10. CASE Retries \/ RestartHost \/ ReconnectNow \/ UserCalls \/ UNCHANGED vars
  <2>1. /\ UNCHANGED <<watched, map, rt, toPage, socket, resumed>>
        /\ conn' = conn \/ conn' = "connecting"
    BY <1>10 DEF Retries, RestartHost, ReconnectNow, UserCalls, Connecting, vars
  <2>2. \A r \in Runtimes : InMap(r)' <=> InMap(r)
    BY <2>1 DEF InMap
  <2>3. QED
    BY <2>1, <2>2 DEF Subscribed
<1>11. QED
    BY <1>1, <1>2, <1>3, <1>4, <1>5, <1>6, <1>7, <1>8, <1>9, <1>10
    DEF Next, HostNext, Arrives, LinkNext, RuntimeNext

-----------------------------------------------------------------------------
(* Who is followed *)

\* A session that is watched, or will be once the page resumes.
Asked(s) == s \in watched \/ \E i \in 1..Len(toHost) : toHost[i].op = "resume" /\ toHost[i].session = s

\* The end of its subscription is on its way, or waits for the connection.
Left(s) ==
    \/ \E i \in 1..Len(toHost) : toHost[i].op = "unsubscribe" /\ toHost[i].session = s
    \/ \E i \in 1..Len(queue) : queue[i].op = "unsubscribe" /\ rt[queue[i].of].session = s

HasFollower(s) == \E r \in Runtimes : InMap(r) /\ rt[r].session = s

Followed == \A s \in Sessions : Asked(s) => Left(s) \/ HasFollower(s)

\* What waits for the connection goes out, or the next runtime is asked for: who left is still leaving,
\* and only who is in the map is asked for.
LEMMA FollowedResumes ==
    ASSUME TInv, Followed, Grown, UNCHANGED <<map, watched>>, toHost = <<>>, NEW requested,
           Opens(<<>>) \/ ResumeWith(NextToResume(requested), <<>>),
           \A r \in Runtimes : ~Untried(r) => rt'[r].session = rt[r].session
    PROVE  Followed'
<1>1. \A r \in Runtimes : InMap(r) => InMap(r)' /\ rt'[r].session = rt[r].session
    BY InMapIsKnown DEF InMap
<1>2. \A s : HasFollower(s) => HasFollower(s)'
    BY <1>1 DEF HasFollower
<1>3. \A i \in 1..Len(queue) : queue[i].of \in Runtimes /\ rt'[queue[i].of].session = rt[queue[i].of].session
    BY Members DEF TInv, Known, Call
<1>4. Len(<<>>) = 0
    OBVIOUS
<1>5. CASE Opens(<<>>)
  <2>1. /\ Len(toHost') = Len(queue)
        /\ \A i \in 1..Len(toHost') :
             toHost'[i].op = queue[i].op /\ toHost'[i].session = rt[queue[i].of].session /\ queue[i] \in Call
    BY <1>3, <1>5, OpensSends
  <2>2. \A s : Left(s) => Left(s)'
    BY <1>4, <2>1 DEF Left
  <2>3. \A s : Asked(s)' => Asked(s)
    BY <1>4, <2>1 DEF Asked, Call
  <2>4. QED
    BY <1>2, <2>2, <2>3 DEF Followed
<1>6. CASE ~Opens(<<>>)
  <2>1. /\ queue' = queue /\ Len(toHost') = 1 /\ toHost'[1].op = "resume"
        /\ \E i \in 1..Len(map) : map[i] \in Runtimes /\ toHost'[1].session = rt'[map[i]].session
    BY <1>6, ResumeSends
  <2>2. \A s : Left(s) => Left(s)'
    BY <1>3, <1>4, <2>1 DEF Left
  <2>3. ASSUME NEW s, Asked(s)', ~Asked(s)
        PROVE  HasFollower(s)'
    <3>1. s = toHost'[1].session
        BY <2>1, <2>3 DEF Asked
    <3>2. PICK i \in 1..Len(map) : map[i] \in Runtimes /\ s = rt'[map[i]].session
        BY <2>1, <3>1
    <3>3. InMap(map[i])
        BY <3>2 DEF InMap
    <3>4. QED
        BY <1>1, <3>2, <3>3 DEF HasFollower
  <2>4. QED
    BY <1>2, <2>2, <2>3 DEF Followed
<1>7. QED
    BY <1>5, <1>6

\* A step that asks for no more, drops no unsubscription and no follower.
LEMMA FollowedKept ==
    ASSUME TInv, Followed, watched' \subseteq watched, toHost' = toHost, queue' = queue,
           \A r \in Runtimes : InMap(r) => InMap(r)',
           \A r \in Runtimes : ~Untried(r) => rt'[r].session = rt[r].session
    PROVE  Followed'
<1>1. \A s : HasFollower(s) => HasFollower(s)'
    BY InMapIsKnown DEF HasFollower
<1>2. \A i \in 1..Len(queue) : queue[i].of \in Runtimes /\ rt'[queue[i].of].session = rt[queue[i].of].session
    BY Members DEF TInv, Known, Call
<1>3. \A s : Left(s) => Left(s)'
    BY <1>2 DEF Left
<1>4. \A s : Asked(s)' => Asked(s)
    BY DEF Asked
<1>5. QED
    BY <1>1, <1>3, <1>4 DEF Followed

\* With no connection nothing is asked for.
LEMMA NothingAsked ==
    ASSUME watched' = {}, toHost' = <<>>
    PROVE  Followed'
<1>1. Len(toHost') = 0
    OBVIOUS
<1>2. QED
    BY <1>1 DEF Followed, Asked

\* Every step leaves it so.
LEMMA FollowedStep ==
    ASSUME TInv, Wired, Attaching, Once, Followers, Followed, [Next]_vars
    PROVE  Followed'
<1> USE DEF host, link, page, seen
<1>s. \A r \in Runtimes : ~Untried(r) => rt'[r].session = rt[r].session
    BY RuntimesGrow DEF Forward
<1>1. CASE Serve
  <2> DEFINE request == toHost[1]
  <2>1. /\ conn \in {"resuming", "open"} /\ 1 \in 1..Len(toHost) /\ Len(toHost') = Len(toHost) - 1
        /\ \A i \in 1..Len(toHost') : i + 1 \in 1..Len(toHost) /\ toHost'[i] = toHost[i + 1]
        /\ UNCHANGED <<rt, map, queue>> /\ request.of \in Runtimes
        /\ \/ request.op = "unsubscribe" /\ watched' = watched \ {request.session}
           \/ request.op \in {"attach", "resume"} /\ watched' = watched \cup {request.session}
    BY <1>1, ServeSends
  <2>n. Len(toHost) \in Nat
    BY Members DEF TInv
  <2>2. \A i \in 1..Len(toHost) : i # 1 => i - 1 \in 1..Len(toHost') /\ toHost'[i - 1] = toHost[i]
    BY <2>1, <2>n
  <2>3. \A s : HasFollower(s) => HasFollower(s)'
    BY <2>1 DEF HasFollower, InMap
  <2>4. ASSUME NEW s, Left(s), ~(request.op = "unsubscribe" /\ request.session = s)
        PROVE  Left(s)'
    BY <2>1, <2>2, <2>4 DEF Left
  <2>5. CASE request.op = "unsubscribe"
    <3>1. \A i \in 1..Len(toHost) : toHost[i].op # "resume"
        BY <2>1, <2>5 DEF Wired
    <3>2. \A s : Asked(s)' => Asked(s) /\ s # request.session
        BY <2>1, <2>5, <3>1 DEF Asked
    <3>3. QED
        BY <2>3, <2>4, <3>2 DEF Followed
  <2>6. CASE request.op # "unsubscribe"
    <3>1. \A s : Asked(s)' => Asked(s) \/ (s = request.session /\ request.op = "attach")
        BY <2>1, <2>6 DEF Asked
    <3>2. request.op = "attach" => HasFollower(request.session)
        BY <2>1 DEF HasFollower, Attaching, Followers
    <3>3. QED
        BY <2>3, <2>4, <2>6, <3>1, <3>2 DEF Followed
  <2>7. QED
    BY <2>5, <2>6
<1>2. CASE BacklogArrives
  <2>1. toHost = <<>> /\ Grown /\ UNCHANGED <<map, watched>>
    BY <1>2, ResumeMeansResuming, BacklogIsGrown DEF BacklogArrives
  <2>2. ResumeWith(NextToResume(resumed \cup {Head(toPage).of}), <<>>)
    BY <1>2, <2>1 DEF BacklogArrives
  <2>3. QED
    BY <1>s, <2>1, <2>2, FollowedResumes
<1>3. CASE Connects
  <2>1. toHost = <<>> /\ Grown /\ UNCHANGED <<map, watched>>
    BY <1>3, SameIsGrown DEF Connects, Wired
  <2>2. Opens(<<>>) \/ ResumeWith(NextToResume({}), <<>>)
    BY <1>3 DEF Connects
  <2>3. QED
    BY <1>s, <2>1, <2>2, FollowedResumes
<1>4. ASSUME NEW r \in Runtimes, NEW s \in Sessions, Start(r, s)
      PROVE  Followed'
  <2> DEFINE call == [op |-> "attach", of |-> r]
  <2>1. Calls(call, rt') /\ call \in Call /\ call.op = "attach" /\ rt'[r].session = s /\ s # None
        /\ rt' \in [Runtimes -> RtRecord] /\ call.of = r
    BY <1>4, StartIsGrown DEF Grown
  <2>2. map' = Append(map, r) /\ UNCHANGED watched
    BY <1>4 DEF Start
  <2> HIDE DEF call
  <2>3. \A q \in Runtimes : InMap(q) => InMap(q)'
    BY <2>2, MapGrows
  <2>4. \A q : HasFollower(q) => HasFollower(q)'
    BY <1>s, <2>3, InMapIsKnown DEF HasFollower
  <2>5. \A i \in 1..Len(queue) : queue[i].of \in Runtimes /\ rt'[queue[i].of].session = rt[queue[i].of].session
    BY <1>s, Members DEF TInv, Known, Call
  <2>6. \/ /\ queue' = queue /\ Len(toHost) \in Nat /\ Len(toHost') = Len(toHost) + 1
           /\ \A i \in 1..Len(toHost) : toHost'[i] = toHost[i]
           /\ toHost'[Len(toHost) + 1].op = "attach"
        \/ /\ toHost' = toHost /\ Len(queue) \in Nat /\ Len(queue') = Len(queue) + 1
           /\ \A i \in 1..Len(queue) : queue'[i] = queue[i]
    BY <2>1, CallsSends
  <2>7. \A q : Left(q) => Left(q)'
    <3>1. \A i \in 1..Len(queue) : i \in 1..Len(queue') /\ queue'[i] = queue[i]
      BY <2>6
    <3>2. \A i \in 1..Len(toHost) : i \in 1..Len(toHost') /\ toHost'[i] = toHost[i]
      BY <2>6
    <3>3. QED
      BY <2>5, <3>1, <3>2 DEF Left
  <2>8. \A q : Asked(q)' => Asked(q)
    BY <2>2, <2>6 DEF Asked
  <2>9. QED
    BY <2>4, <2>7, <2>8 DEF Followed
<1>5. ASSUME NEW r \in Runtimes, Stop(r)
      PROVE  Followed'
  <2>1. /\ rt[r].stage = "live" /\ watched' = watched
        /\ \A q \in Runtimes : q # r => (InMap(q)' <=> InMap(q))
        /\ \A q \in Runtimes : rt'[q].session = rt[q].session
    BY <1>5, StopLeaves
  <2>2. CASE UNCHANGED <<toHost, queue>> /\ conn = "none"
    <3>1. watched' = {} /\ toHost' = <<>>
        BY <2>1, <2>2 DEF Wired
    <3>2. QED
        BY <3>1, NothingAsked
  <2>3. CASE UNCHANGED <<toHost, queue>> /\ ~InMap(r)
    BY <1>s, <2>1, <2>3, FollowedKept
  <2>4. CASE ~UNCHANGED <<toHost, queue>>
    <3>1. \/ /\ queue' = queue /\ Len(toHost) \in Nat /\ Len(toHost') = Len(toHost) + 1
             /\ \A i \in 1..Len(toHost) : toHost'[i] = toHost[i]
             /\ toHost'[Len(toHost) + 1].op = "unsubscribe" /\ toHost'[Len(toHost) + 1].session = rt[r].session
          \/ /\ toHost' = toHost /\ Len(queue) \in Nat /\ Len(queue') = Len(queue) + 1
             /\ \A i \in 1..Len(queue) : queue'[i] = queue[i]
             /\ queue'[Len(queue) + 1].op = "unsubscribe" /\ queue'[Len(queue) + 1].of = r
        BY <1>5, <2>4, StopLeaves
    <3>2. \A i \in 1..Len(queue) : queue[i].of \in Runtimes
        BY Members DEF TInv, Call
    <3>3. \A q : Left(q) => Left(q)'
        BY <2>1, <3>1, <3>2 DEF Left
    <3>g. PICK gone : gone = rt[r].session
        OBVIOUS
    <3>4. Left(gone)'
        BY <2>1, <3>1, <3>g DEF Left
    <3>5. \A q : Asked(q)' => Asked(q)
        BY <2>1, <3>1 DEF Asked
    <3>6. \A q : HasFollower(q) => HasFollower(q)' \/ q = gone
        BY <2>1, <3>g DEF HasFollower
    <3>7. QED
        BY <3>3, <3>4, <3>5, <3>6 DEF Followed
  <2>5. QED
    BY <1>5, <2>2, <2>3, <2>4, StopLeaves
<1>6. CASE Dies \/ Lost \/ \E k \in BOOLEAN : ConnectFails(k)
  <2>1. watched' = {} /\ toHost' = <<>>
    BY <1>6 DEF Dies, Lost, ConnectFails, Wired
  <2>2. QED
    BY <2>1, NothingAsked
<1>7. ASSUME NEW s \in Sessions, Logs(s) \/ RunStartsOrEnds(s)
      PROVE  Followed'
  <2>1. UNCHANGED <<watched, toHost, queue, map, rt>>
    BY <1>7, NotifySends
  <2>2. QED
    BY <1>s, <2>1, FollowedKept DEF InMap
<1>8. CASE EventArrives \/ DeltaArrives \/ Attached \/ Retries \/ RestartHost \/ ReconnectNow \/ UserCalls \/ UNCHANGED vars
  <2>1. UNCHANGED <<watched, toHost, queue, map>>
    BY <1>8 DEF EventArrives, DeltaArrives, Attached, Retries, RestartHost, ReconnectNow, UserCalls, vars
  <2>2. QED
    BY <1>s, <2>1, FollowedKept DEF InMap
<1>9. QED
    BY <1>1, <1>2, <1>3, <1>4, <1>5, <1>6, <1>7, <1>8 DEF Next, HostNext, Arrives, LinkNext, RuntimeNext

-----------------------------------------------------------------------------
(* What a runtime is told of its run *)

\* A message that tells `r`, which follows `s`, whether the session runs.
Tells(m, r, s) == (m.op = "delta" /\ m.session = s) \/ IsAnswer(m, r)

\* The `k`th message of `wire` is the last that tells `r`, now `x`, and says `value`; with none, `x` says so.
ToldLastAt(k, wire, r, x, value) ==
    /\ k = 0 => x.streaming = value
    /\ k # 0 => Tells(wire[k], r, x.session) /\ wire[k].running = value
    /\ \A j \in 1..Len(wire) : j > k => ~Tells(wire[j], r, x.session)

LastTold(wire, r, x, value) == \E k \in 0..Len(wire) : ToldLastAt(k, wire, r, x, value)

\* A runtime of a watched session that is live, or will be, is told in the end what the Host's session is.
Told ==
    \A r \in Runtimes : InMap(r) /\ rt[r].session \in watched /\ Counts(toPage, r, rt[r], Len(toPage) + 1)
       => LastTold(toPage, r, rt[r], running[rt[r].session])

\* A message that arrives is taken over.
LEMMA ToldTaken ==
    ASSUME TInv, Told, Arrival, ArrivedExactly
    PROVE  Told'
<1>1. /\ Len(toPage) \in Nat /\ Len(toPage') = Len(toPage) - 1 /\ 1 \in 1..Len(toPage)
      /\ \A i \in 1..Len(toPage') : i + 1 \in 1..Len(toPage) /\ toPage'[i] = toPage[i + 1]
    BY TakingFirst, Members DEF TInv, Arrival
<1>2. UNCHANGED <<watched, running>> /\ \A r \in Runtimes : (InMap(r)' <=> InMap(r)) /\ rt'[r].session = rt[r].session
    BY DEF Arrival, ArrivedExactly, InMap
<1>3. ASSUME NEW r \in Runtimes, Counts(toPage', r, rt'[r], Len(toPage') + 1)
      PROVE  Counts(toPage, r, rt[r], Len(toPage) + 1)
  <2>1. CASE rt'[r].stage = "live"
    BY <1>1, <2>1 DEF Counts, Arrival
  <2>2. CASE rt'[r].stage # "live"
    <3>1. PICK j \in 1..Len(toPage') : toPage'[j].op = "attach" /\ toPage'[j].of = r
        BY <1>3, <2>2 DEF Counts
    <3>2. j + 1 \in 1..Len(toPage) /\ j + 1 < Len(toPage) + 1
        BY <1>1, <3>1
    <3>3. QED
        BY <1>1, <3>1, <3>2 DEF Counts
  <2>3. QED
    BY <2>1, <2>2
<1>4. ASSUME NEW r \in Runtimes, InMap(r), NEW value, NEW k \in 0..Len(toPage), ToldLastAt(k, toPage, r, rt[r], value)
      PROVE  LastTold(toPage', r, rt'[r], value)
  <2>1. rt'[r].streaming = IF Tells(toPage[1], r, rt[r].session) THEN toPage[1].running ELSE rt[r].streaming
    BY <1>4 DEF ArrivedExactly, Tells
  <2>2. \A j \in 1..Len(toPage') : j + 1 > k => ~Tells(toPage'[j], r, rt'[r].session)
    BY <1>1, <1>2, <1>4 DEF ToldLastAt
  <2>3. CASE k \in {0, 1}
    <3>1. rt'[r].streaming = value
        BY <1>1, <1>4, <2>1, <2>3 DEF ToldLastAt
    <3>2. ToldLastAt(0, toPage', r, rt'[r], value)
        BY <2>2, <2>3, <3>1 DEF ToldLastAt
    <3>3. QED
        BY <1>1, <3>2 DEF LastTold
  <2>4. CASE k \notin {0, 1}
    <3>1. k - 1 \in 1..Len(toPage') /\ toPage'[k - 1] = toPage[k]
        BY <1>1, <2>4
    <3>2. ToldLastAt(k - 1, toPage', r, rt'[r], value)
        BY <1>2, <1>4, <2>2, <2>4, <3>1 DEF ToldLastAt
    <3>3. QED
        BY <1>1, <3>1, <3>2 DEF LastTold
  <2>5. QED
    BY <2>3, <2>4
<1>5. QED
    BY <1>2, <1>3, <1>4 DEF Told, LastTold

\* A step that sends nothing and has nobody become live.
LEMMA ToldKept ==
    ASSUME TInv, Told, toPage' = toPage, \A s \in watched' : s \in watched /\ running'[s] = running[s],
           \A r \in Runtimes : InMap(r)' => InMap(r) \/ (Untried(r) /\ rt'[r].stage = "attaching"),
           \A r \in Runtimes : InMap(r) =>
             /\ rt'[r].session = rt[r].session /\ rt'[r].streaming = rt[r].streaming
             /\ rt'[r].stage = "live" => rt[r].stage = "live"
    PROVE  Told'
<1>1. ASSUME NEW r \in Runtimes, InMap(r)', ~InMap(r)
      PROVE  ~Counts(toPage', r, rt'[r], Len(toPage') + 1)
  <2>1. \A j \in 1..Len(toPage) : toPage[j].op = "attach" => toPage[j].of # r
    BY <1>1 DEF TInv, Known
  <2>2. QED
    BY <1>1, <2>1 DEF Counts
<1>2. ASSUME NEW r \in Runtimes, InMap(r), Counts(toPage', r, rt'[r], Len(toPage') + 1)
      PROVE  Counts(toPage, r, rt[r], Len(toPage) + 1)
    BY <1>2 DEF Counts
<1>3. ASSUME NEW r \in Runtimes, InMap(r), NEW value, LastTold(toPage, r, rt[r], value)
      PROVE  LastTold(toPage', r, rt'[r], value)
    BY <1>3 DEF LastTold, ToldLastAt
<1>4. QED
    BY <1>1, <1>2, <1>3 DEF Told

\* A message that is sent tells whom it makes live, and those whose session starts or ends its run.
LEMMA ToldSent ==
    ASSUME TInv, Told, UNCHANGED <<map, rt>>, Len(toPage') = Len(toPage) + 1,
           \A i \in 1..Len(toPage) : toPage'[i] = toPage[i], NEW m, toPage'[Len(toPage) + 1] = m,
           \A r \in Runtimes : InMap(r) /\ rt[r].session \in watched' =>
              IF Tells(m, r, rt[r].session) THEN m.running = running'[rt[r].session]
              ELSE rt[r].session \in watched /\ running'[rt[r].session] = running[rt[r].session]
    PROVE  Told'
<1> DEFINE end == Len(toPage) + 1
<1>1. Len(toPage) \in Nat /\ Len(toPage') = end /\ end \in 1..Len(toPage') /\ toPage'[end] = m
    BY Members DEF TInv
<1>2. ASSUME NEW r \in Runtimes, InMap(r), rt[r].session \in watched', Counts(toPage', r, rt'[r], end + 1)
      PROVE  LastTold(toPage', r, rt'[r], running'[rt[r].session])
  <2>1. CASE Tells(m, r, rt[r].session)
    <3>1. ToldLastAt(end, toPage', r, rt'[r], running'[rt[r].session])
        BY <1>1, <1>2, <2>1 DEF ToldLastAt
    <3>2. QED
        BY <1>1, <3>1 DEF LastTold
  <2>2. CASE ~Tells(m, r, rt[r].session)
    <3>1. ~(m.op = "attach" /\ m.of = r)
        BY <2>2 DEF Tells, IsAnswer
    <3>2. Counts(toPage, r, rt[r], end)
        BY <1>1, <1>2, <3>1 DEF Counts
    <3>3. PICK k \in 0..Len(toPage) : ToldLastAt(k, toPage, r, rt[r], running[rt[r].session])
        BY <1>2, <2>2, <3>2 DEF Told, LastTold
    <3>4. k \in 0..Len(toPage') /\ ToldLastAt(k, toPage', r, rt'[r], running'[rt[r].session])
        BY <1>1, <1>2, <2>2, <3>3 DEF ToldLastAt
    <3>5. QED
        BY <3>4 DEF LastTold
  <2>3. QED
    BY <2>1, <2>2
<1>3. \A r \in Runtimes : InMap(r)' <=> InMap(r)
    BY DEF InMap
<1>4. QED
    BY <1>1, <1>2, <1>3 DEF Told

\* What an answer says of the run is what the Host's session is.
LEMMA AnswersSay ==
    ASSUME TInv, Serve, toPage' # toPage
    PROVE  toPage'[Len(toPage) + 1].running = running[toHost[1].session]
<1>1. toPage \in Seq(Message) /\ toHost[1] = Head(toHost)
    BY Members DEF TInv, Serve
<1>2. toPage' = Append(toPage, [op |-> toHost[1].op, of |-> toHost[1].of, after |-> toHost[1].after,
                                last |-> log[toHost[1].session], running |-> running[toHost[1].session]])
    BY <1>1 DEF Serve
<1>3. QED
    BY <1>1, <1>2

\* So does the message of a run that starts or ends.
LEMMA RunsAreTold ==
    ASSUME TInv, NEW s \in Sessions, RunStartsOrEnds(s)
    PROVE  /\ running' = [running EXCEPT ![s] = ~@] /\ UNCHANGED <<watched, map, rt, log>>
           /\ \/ s \notin watched /\ toPage' = toPage
              \/ /\ s \in watched /\ Len(toPage) \in Nat /\ Len(toPage') = Len(toPage) + 1
                 /\ \A i \in 1..Len(toPage) : toPage'[i] = toPage[i]
                 /\ LET m == toPage'[Len(toPage) + 1] IN m.op = "delta" /\ m.session = s /\ m.running = running'[s]
<1>1. toPage \in Seq(Message) /\ running \in [Sessions -> BOOLEAN]
    BY Members DEF TInv, TypeOK
<1> DEFINE m == [op |-> "delta", session |-> s, running |-> ~running[s]]
<1>2. running' = [running EXCEPT ![s] = ~@] /\ UNCHANGED <<watched, map, rt, log>>
      /\ toPage' = IF s \in watched THEN Append(toPage, m) ELSE toPage
    BY DEF RunStartsOrEnds, Notify, page
<1>3. m.op = "delta" /\ m.session = s /\ m.running = running'[s]
    BY <1>1, <1>2
<1> HIDE DEF m
<1>4. QED
    BY <1>1, <1>2, <1>3

\* A logged event says nothing of it.
LEMMA LogsTellNothing ==
    ASSUME TInv, NEW s \in Sessions, Logs(s)
    PROVE  /\ UNCHANGED <<running, watched, map, rt>>
           /\ \/ toPage' = toPage
              \/ /\ Len(toPage) \in Nat /\ Len(toPage') = Len(toPage) + 1
                 /\ \A i \in 1..Len(toPage) : toPage'[i] = toPage[i]
                 /\ toPage'[Len(toPage) + 1].op = "event"
<1>1. UNCHANGED <<running, watched, map, rt>>
    BY DEF Logs, page
<1>2. toPage \in Seq(Message)
    BY Members DEF TInv
<1>3. toPage' = (IF s \in watched THEN Append(toPage, [op |-> "event", session |-> s, seq |-> log[s] + 1]) ELSE toPage)
    BY DEF Logs, Notify
<1>4. QED
    BY <1>1, <1>2, <1>3

\* Nothing else that leaves a session watched says anything of a run.
LEMMA StreamsOn ==
    ASSUME TInv, [Next]_vars, ~Arrives, ~Serve, ~\E s \in Sessions : Logs(s) \/ RunStartsOrEnds(s), watched' # {}
    PROVE  running' = running /\ \A r \in Runtimes : InMap(r) => rt'[r].streaming = rt[r].streaming
<1> USE DEF host, link, page, seen
<1>t. rt \in [Runtimes -> RtRecord]
    BY Members DEF TInv
<1>1. running' = running
    BY DEF Next, HostNext, LinkNext, RuntimeNext, Dies, Connects, Lost, Retries, RestartHost, ReconnectNow, UserCalls,
           ConnectFails, Start, Stop, vars
<1>2. CASE Lost \/ \E k \in BOOLEAN : ConnectFails(k)
  <2>1. rt' = [r \in Runtimes |-> IF rt[r].stage = "attaching" THEN [rt[r] EXCEPT !.stage = "failed"] ELSE rt[r]]
    BY <1>2 DEF Lost, ConnectFails, StartsFail
  <2>2. QED
    BY <1>t, <1>1, <2>1 DEF RtRecord
<1>3. ASSUME NEW r \in Runtimes, Stop(r)
      PROVE  \A q \in Runtimes : rt'[q].streaming = rt[q].streaming
  <2>1. rt' = [rt EXCEPT ![r].stage = "stopped"]
    BY <1>3 DEF Stop
  <2>2. QED
    BY <1>t, <2>1 DEF RtRecord
<1>4. ASSUME NEW r \in Runtimes, NEW s \in Sessions, Start(r, s)
      PROVE  \A q \in Runtimes : InMap(q) => rt'[q].streaming = rt[q].streaming
  <2>1. Untried(r) /\ \A q \in Runtimes : q # r => rt'[q] = rt[q]
    BY <1>4, StartIsGrown
  <2>2. QED
    BY <2>1, InMapIsKnown
<1>5. CASE rt' = rt
    BY <1>1, <1>5
<1>6. QED
    BY <1>1, <1>2, <1>3, <1>4, <1>5
    DEF Next, HostNext, LinkNext, RuntimeNext, Dies, Connects, Retries, RestartHost, ReconnectNow, UserCalls, vars

\* Every step leaves it so.
LEMMA ToldStep ==
    ASSUME TInv, Wired, Attaching, Followers, Told, [Next]_vars
    PROVE  Told'
<1> USE DEF host, link, page, seen
<1>1. CASE Arrives
    BY <1>1, ArrivalShape, ArrivesExactly, ToldTaken
<1>2. CASE Serve
  <2> DEFINE request == toHost[1]
             answer == toPage'[Len(toPage) + 1]
  <2>1. /\ 1 \in 1..Len(toHost) /\ request.session \in Sessions /\ request.of \in Runtimes
        /\ UNCHANGED <<running, map, rt>>
        /\ \/ request.op = "unsubscribe" /\ toPage' = toPage /\ watched' = watched \ {request.session}
           \/ /\ request.op \in {"attach", "resume"} /\ watched' = watched \cup {request.session}
              /\ Len(toPage') = Len(toPage) + 1 /\ \A i \in 1..Len(toPage) : toPage'[i] = toPage[i]
              /\ answer.op = request.op /\ answer.of = request.of
    BY <1>2, ServeSends
  <2>2. CASE toPage' = toPage
    <3>1. \A s \in watched' : s \in watched /\ running'[s] = running[s]
        BY <2>1, <2>2, Members DEF TInv
    <3>2. \A r \in Runtimes : InMap(r)' <=> InMap(r)
        BY <2>1 DEF InMap
    <3>3. QED
        BY <2>1, <2>2, <3>1, <3>2, ToldKept
  <2>3. CASE toPage' # toPage
    <3>1. rt[request.of].session = request.session
        BY <2>1 DEF Followers
    <3>2. Alone(request.of)
      <4>1. CASE request.op = "resume"
        BY <2>1, <4>1 DEF Followers
      <4>2. CASE request.op = "attach"
        BY <2>1, <4>2 DEF Followers, Attaching
      <4>3. QED
        BY <2>1, <2>3, <4>1, <4>2
    <3>3. answer.running = running[request.session]
        BY <1>2, <2>3, AnswersSay
    <3>4. PICK m : m = answer
        OBVIOUS
    <3>5. /\ toPage'[Len(toPage) + 1] = m /\ m.op = request.op /\ m.of = request.of
          /\ m.running = running[request.session] /\ request.op \in {"attach", "resume"}
          /\ watched' = watched \cup {request.session} /\ UNCHANGED <<running, map, rt>>
          /\ Len(toPage') = Len(toPage) + 1 /\ \A i \in 1..Len(toPage) : toPage'[i] = toPage[i]
        BY <2>1, <2>3, <3>3, <3>4
    <3> HIDE DEF request, answer
    <3>6. \A r \in Runtimes : InMap(r) /\ rt[r].session \in watched' =>
              IF Tells(m, r, rt[r].session) THEN m.running = running'[rt[r].session]
              ELSE rt[r].session \in watched /\ running'[rt[r].session] = running[rt[r].session]
        BY <3>1, <3>2, <3>5 DEF Tells, IsAnswer, Alone
    <3>7. QED
        BY <3>5, <3>6, ToldSent
  <2>4. QED
    BY <2>2, <2>3
<1>3. ASSUME NEW s \in Sessions, RunStartsOrEnds(s)
      PROVE  Told'
  <2>1. PICK m : m = toPage'[Len(toPage) + 1]
    OBVIOUS
  <2>2. /\ running' = [running EXCEPT ![s] = ~@] /\ UNCHANGED <<watched, map, rt, log>>
        /\ \/ s \notin watched /\ toPage' = toPage
           \/ /\ s \in watched /\ Len(toPage) \in Nat /\ Len(toPage') = Len(toPage) + 1
              /\ \A i \in 1..Len(toPage) : toPage'[i] = toPage[i]
              /\ m.op = "delta" /\ m.session = s /\ m.running = running'[s]
    BY <1>3, <2>1, RunsAreTold
  <2>3. /\ \A q \in Sessions : q # s => running'[q] = running[q]
        /\ watched \subseteq Sessions
    BY <2>2 DEF TInv, TypeOK
  <2>4. CASE s \notin watched /\ toPage' = toPage
    <3>1. \A q \in watched' : q \in watched /\ running'[q] = running[q]
        BY <2>2, <2>3, <2>4
    <3>2. \A r \in Runtimes : InMap(r)' <=> InMap(r)
        BY <2>2 DEF InMap
    <3>3. QED
        BY <2>2, <2>4, <3>1, <3>2, ToldKept
  <2>5. CASE ~(s \notin watched /\ toPage' = toPage)
    <3>1. \A r \in Runtimes : InMap(r) /\ rt[r].session \in watched' =>
              IF Tells(m, r, rt[r].session) THEN m.running = running'[rt[r].session]
              ELSE rt[r].session \in watched /\ running'[rt[r].session] = running[rt[r].session]
        BY <2>2, <2>3, <2>5 DEF Tells, IsAnswer
    <3>2. QED
        BY <2>1, <2>2, <2>5, <3>1, ToldSent
  <2>6. QED
    BY <2>4, <2>5
<1>4. ASSUME NEW s \in Sessions, Logs(s)
      PROVE  Told'
  <2>1. PICK m : m = toPage'[Len(toPage) + 1]
    OBVIOUS
  <2>2. /\ UNCHANGED <<running, watched, map, rt>>
        /\ \/ toPage' = toPage
           \/ /\ Len(toPage) \in Nat /\ Len(toPage') = Len(toPage) + 1
              /\ \A i \in 1..Len(toPage) : toPage'[i] = toPage[i]
              /\ m.op = "event"
    BY <1>4, <2>1, LogsTellNothing
  <2>3. CASE toPage' = toPage
    <3>1. \A q \in watched' : q \in watched /\ running'[q] = running[q]
        BY <2>2
    <3>2. \A r \in Runtimes : InMap(r)' <=> InMap(r)
        BY <2>2 DEF InMap
    <3>3. QED
        BY <2>2, <2>3, <3>1, <3>2, ToldKept
  <2>4. CASE toPage' # toPage
    <3>1. \A r \in Runtimes : ~Tells(m, r, rt[r].session)
        BY <2>2, <2>4 DEF Tells, IsAnswer
    <3>2. QED
        BY <2>1, <2>2, <2>4, <3>1, ToldSent
  <2>5. QED
    BY <2>3, <2>4
<1>5. CASE ~Arrives /\ ~Serve /\ ~\E s \in Sessions : Logs(s) \/ RunStartsOrEnds(s)
  <2>1. /\ toPage' \in {toPage, <<>>} /\ watched' \in {watched, {}}
        /\ toPage' # toPage => watched' = {}
    BY <1>5, WireStep
  <2>2. CASE watched' = {}
    BY <2>2 DEF Told
  <2>3. CASE watched' # {}
    <3>1. toPage' = toPage /\ watched' = watched
        BY <2>1, <2>3
    <3>2. running' = running /\ \A r \in Runtimes : InMap(r) => rt'[r].streaming = rt[r].streaming
        BY <1>5, <2>3, StreamsOn
    <3>3. CASE \E r \in Runtimes, s \in Sessions : Start(r, s)
      <4>1. PICK r \in Runtimes, s \in Sessions : Start(r, s)
        BY <3>3
      <4>2. /\ Untried(r) /\ rt'[r].stage = "attaching" /\ map' = Append(map, r)
            /\ \A q \in Runtimes : q # r => rt'[q] = rt[q]
        BY <4>1, StartIsGrown DEF Start
      <4>3. \A q \in Runtimes : InMap(q)' => InMap(q) \/ q = r
        BY <4>2, MapGrows
      <4>4. \A q \in Runtimes : InMap(q) => q # r
        BY <4>2, InMapIsKnown
      <4>5. QED
        BY <3>1, <3>2, <4>2, <4>3, <4>4, ToldKept
    <3>4. CASE ~\E r \in Runtimes, s \in Sessions : Start(r, s)
      <4>1. \A r \in Runtimes : InMap(r)' => InMap(r)
        BY <3>4, MapShrinks
      <4>2. \A r \in Runtimes : rt'[r].session = rt[r].session /\ (rt'[r].stage = "live" => rt[r].stage = "live")
        BY <1>5, <3>4, QuietStep
      <4>3. QED
        BY <3>1, <3>2, <4>1, <4>2, ToldKept
    <3>5. QED
        BY <3>3, <3>4
  <2>4. QED
    BY <2>2, <2>3
<1>6. QED
    BY <1>1, <1>2, <1>3, <1>4, <1>5

-----------------------------------------------------------------------------
(* The page catches up *)

Converging == Gapless /\ Once /\ Behind /\ Departed /\ Subscribed /\ Followed /\ Told

\* Nobody has started at the start.
LEMMA ConvergingInit == Init => Converging
<1> SUFFICES ASSUME Init PROVE Converging
    OBVIOUS
<1>1. Gapless
    BY GaplessInit
<1>2. toPage = <<>> /\ toHost = <<>> /\ map = <<>> /\ queue = <<>> /\ watched = {} /\ socket = "none"
    BY DEF Init
<1>3. Len(toPage) = 0 /\ Len(toHost) = 0 /\ Len(map) = 0 /\ Len(queue) = 0
    BY <1>2
<1>4. \A r \in Runtimes : rt[r].stage = "new"
    BY DEF Init
<1>5. Once /\ Behind /\ Departed
    BY <1>3, <1>4 DEF Once, Behind, Departed, Untried
<1>6. Subscribed /\ Followed /\ Told
    BY <1>2, <1>3 DEF Subscribed, Followed, Asked, Told
<1>7. QED
    BY <1>1, <1>5, <1>6 DEF Converging

\* With the connection open and nothing under way, that is to have caught up.
LEMMA ConvergedIsCaughtUp == Converging => CaughtUp
<1> SUFFICES ASSUME Converging, conn = "open", socket = "live", toHost = <<>>
             PROVE  /\ \A s \in watched : \E r \in Runtimes : rt[r].session = s /\ InMap(r)
                    /\ toPage = <<>> => \A r \in Runtimes : InMap(r) /\ rt[r].stage = "live" =>
                         rt[r].lastSeq = log[rt[r].session] /\ rt[r].streaming = running[rt[r].session]
    BY DEF CaughtUp
<1>0. TInv /\ Wired /\ Counted /\ Behind /\ Subscribed /\ Followed /\ Told /\ Len(<<>>) = 0
    BY DEF Converging, Gapless
<1>1. ASSUME NEW s \in watched
      PROVE  \E r \in Runtimes : rt[r].session = s /\ InMap(r)
  <2>1. s \in Sessions /\ Asked(s)
    BY <1>0, <1>1 DEF TInv, TypeOK, Asked
  <2>2. queue = <<>>
    BY <1>0 DEF Wired
  <2>3. ~Left(s)
    BY <1>0, <2>2 DEF Left
  <2>4. QED
    BY <1>0, <2>1, <2>3 DEF Followed, HasFollower
<1>2. ASSUME toPage = <<>>, NEW r \in Runtimes, InMap(r), rt[r].stage = "live"
      PROVE  rt[r].lastSeq = log[rt[r].session] /\ rt[r].streaming = running[rt[r].session]
  <2>1. rt[r].session \in watched
    BY <1>0, <1>2 DEF Subscribed
  <2>2. PICK s \in Sessions : s = rt[r].session
    BY <1>0, <2>1 DEF TInv, TypeOK
  <2>3. Counts(toPage, r, rt[r], Len(toPage) + 1)
    BY <1>2 DEF Counts
  <2>4. log[s] <= rt[r].lastSeq
    BY <1>0, <1>2, <2>1, <2>2, <2>3 DEF Counted, ToTheEnd, Reached
  <2>5. rt[r].lastSeq <= log[s]
    BY <1>0, <1>2, <2>2 DEF Behind, Untried
  <2>6. rt[r].lastSeq \in Nat /\ log[s] \in Nat
    BY <1>0, Numbers
  <2>7. rt[r].streaming = running[s]
    BY <1>0, <1>2, <2>1, <2>2, <2>3 DEF Told, LastTold, ToldLastAt
  <2>8. QED
    BY <2>2, <2>4, <2>5, <2>6, <2>7
<1>3. QED
    BY <1>1, <1>2

\* Two runtimes never share a session, and none starts while the page has lost its connection: then,
\* after any crashes and reconnections, an open connection with nothing under way means that every live
\* runtime has seen its whole log and knows whether its session runs, and that only sessions somebody
\* follows are watched.
THEOREM PageCatchesUp ==
    ASSUME ~SharedSession, ~StartsOffline
    PROVE  Spec => []CaughtUp
<1>1. ASSUME Converging, [Next]_vars
      PROVE  Converging'
  <2>0. TInv /\ Wired /\ NoneWaits /\ Attaching /\ Followers /\ Counted /\ Covered /\ OpenedPast
        /\ Once /\ Behind /\ Departed /\ Subscribed /\ Followed /\ Told
    BY <1>1 DEF Converging, Gapless
  <2>1. Gapless'
    BY <1>1, GaplessStep DEF Converging
  <2>2. Once' /\ Behind'
    BY <1>1, <2>0, OnceStep, BehindStep
  <2>3. Departed'
    BY <1>1, <2>0, DepartedStep
  <2>4. Subscribed'
    BY <1>1, <2>0, SubscribedStep
  <2>5. Followed'
    BY <1>1, <2>0, FollowedStep
  <2>6. Told'
    BY <1>1, <2>0, ToldStep
  <2>7. QED
    BY <2>1, <2>2, <2>3, <2>4, <2>5, <2>6 DEF Converging
<1>2. QED
    BY <1>1, ConvergingInit, ConvergedIsCaughtUp, PTL DEF Spec
=============================================================================
