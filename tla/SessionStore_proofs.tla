------------------------ MODULE SessionStore_proofs -------------------------
(***************************************************************************)
(* Proofs about SessionStore: it is well-typed whatever happens, and as     *)
(* long as its assumptions hold (Calm) memory, file and client agree and    *)
(* the store implements SessionHistory.  That nobody new gets hold of a     *)
(* deleted session needs none of the assumptions.                           *)
(*                                                                          *)
(* The inductive invariant says that there is one place where the session   *)
(* is: whoever will still write to it (a run, a compaction, a request past  *)
(* its get) does so through the open object, and the file holds exactly     *)
(* that object's events.                                                    *)
(***************************************************************************)
EXTENDS SessionStore, TLAPS, SequenceTheorems

\* Requests past a get have an object once the load they share is over.
Served == ~loading.active => \A i \in 1..Len(chunk) : chunk[i].object # 0

TInv == TypeOK /\ Served

\* The file is whole, and what is being loaded from it is all there is in it.
FileIsWhole ==
    /\ ~file.torn
    /\ ~file.exists => file.events = <<>>
    /\ loading.active => file.exists /\ loading.events = file.events

\* Whoever will write does so through the open object.
WritersAreOpen ==
    /\ \A i \in 1..Len(chunk) : chunk[i].object = open
    /\ run # 0 => run = open
    /\ compacting \subseteq {open}

\* A request to delete the session has come alone, and finds no compaction under way.
DeletesAlone ==
    \A i \in 1..Len(chunk) : chunk[i].kind = "delete" => Len(chunk) = 1 /\ compacting = {}

IInv ==
    /\ TInv /\ FileIsWhole /\ WritersAreOpen /\ DeletesAlone
    /\ HoldsCount /\ FileIsLog /\ ClientInSync /\ ToldIsStored

-----------------------------------------------------------------------------
\* A line added to a well-typed file leaves a well-typed file.
LEMMA WriteLineType ==
    ASSUME NEW f \in Files, NEW id \in Ids, NEW seq \in Nat
    PROVE  WriteLine(f, id, seq) \in Files
<1>1. <<>> \in Seq(Ids) /\ <<id>> \in Seq(Ids)
    OBVIOUS
<1>2. f.events \in Seq(Ids) /\ Append(f.events, id) \in Seq(Ids)
    BY DEF Files
<1>3. CASE ~f.exists
    BY <1>1, <1>3 DEF WriteLine, Files
<1>4. CASE f.exists /\ (f.torn \/ seq # Len(f.events) + 1)
    BY <1>4 DEF WriteLine, Files
<1>5. CASE f.exists /\ ~(f.torn \/ seq # Len(f.events) + 1)
    BY <1>2, <1>5 DEF WriteLine, Files
<1>6. QED
    BY <1>3, <1>4, <1>5

\* What one event appended through a known object does, field by field.
LEMMA AppendToType ==
    ASSUME TInv, NEW o \in 1..Made, AppendTo(o)
    PROVE  /\ file' \in Files
           /\ objects' \in Seq(Seq(Ids)) /\ Made' = Made
           /\ objects'[o] = Append(objects[o], written + 1)
           /\ objects[o] \in Seq(Ids)
           /\ written' \in 0..MaxEvents /\ written + 1 \in Ids
           /\ seen' \in Seq(Ids)
<1>1. written + 1 \in Ids /\ written' = written + 1 /\ written' \in 0..MaxEvents
    BY BoundsAssumption DEF TInv, TypeOK, AppendTo, Ids
<1>2. objects \in Seq(Seq(Ids)) /\ o \in 1..Len(objects) /\ objects[o] \in Seq(Ids)
    BY DEF TInv, TypeOK, Made
<1>3. Append(objects[o], written + 1) \in Seq(Ids) /\ Len(objects[o]) + 1 \in Nat
    BY <1>1, <1>2
<1>4. objects' = [objects EXCEPT ![o] = Append(objects[o], written + 1)]
    BY DEF AppendTo
<1>5. /\ objects' \in Seq(Seq(Ids)) /\ Made' = Made
      /\ objects'[o] = Append(objects[o], written + 1)
    BY <1>2, <1>3, <1>4, ExceptSeq DEF Made
<1>6. file' \in Files
    BY <1>1, <1>3, WriteLineType DEF AppendTo, TInv, TypeOK
<1>7. seen' \in Seq(Ids)
  <2>1. seen \in Seq(Ids) /\ Append(seen, written + 1) \in Seq(Ids)
    BY <1>1 DEF TInv, TypeOK, Ids
  <2>2. QED
    BY <2>1 DEF AppendTo, Receive
<1>8. QED
    BY <1>1, <1>2, <1>5, <1>6, <1>7

\* The next request is a request, has an object, and leaves a shorter chunk.
LEMMA ResumedType ==
    ASSUME TInv, NEW k, Resumed(k)
    PROVE  /\ Head(chunk).object \in 1..Made /\ k \in Kinds
           /\ chunk' \in Seq(Requests(Made)) /\ Len(chunk') = Len(chunk) - 1 /\ Len(chunk') <= MaxChunk
           /\ \A i \in 1..Len(chunk') : chunk'[i] = chunk[i + 1] /\ i + 1 \in 1..Len(chunk)
           /\ ~loading.active
<1>1. chunk \in Seq(Requests(Made)) /\ chunk # <<>> /\ ~loading.active /\ chunk' = Tail(chunk)
    BY DEF TInv, TypeOK, Resumed, Requests
<1>2. Head(chunk) = chunk[1] /\ Len(chunk) \in Nat /\ Len(chunk) >= 1
    BY <1>1
<1>3. chunk[1] \in Requests(Made) /\ chunk[1].object # 0 /\ chunk[1].kind = k
    BY <1>1, <1>2 DEF TInv, Served, Resumed
<1>4. Head(chunk).object \in 1..Made /\ k \in Kinds
    BY <1>2, <1>3 DEF Requests, Made, TInv, TypeOK
<1>5. /\ Tail(chunk) \in Seq(Requests(Made)) /\ Len(Tail(chunk)) = Len(chunk) - 1
      /\ \A i \in 1..Len(Tail(chunk)) : Tail(chunk)[i] = chunk[i + 1]
    BY <1>1, HeadTailProperties
<1>6. Len(chunk) - 1 <= MaxChunk
    BY <1>2, BoundsAssumption DEF TInv, TypeOK
<1>7. QED
    BY <1>1, <1>2, <1>4, <1>5, <1>6

\* The start is well-typed.
LEMMA TInvInit == Init => TInv
<1>. SUFFICES ASSUME Init PROVE TInv
    OBVIOUS
<1>1. << <<>> >> \in Seq(Seq(Ids)) /\ Len(<< <<>> >>) = 1 /\ <<>> \in Seq(Ids)
    OBVIOUS
<1>2. <<>> \in Seq(Requests(Made)) /\ Len(<<>>) = 0
    OBVIOUS
<1>3. /\ file \in Files /\ objects \in Seq(Seq(Ids)) /\ Made = 1 /\ open = 1
      /\ loading \in Loads /\ ~loading.active
    BY <1>1 DEF Init, NoFile, NotLoading, Files, Loads, Made
<1>4. /\ holds = 0 /\ run = 0 /\ compacting = {} /\ chunk = <<>> /\ seen = <<>>
      /\ written = 0 /\ subscribed = FALSE
    BY DEF Init
<1>5. MaxObjects \in Nat \ {0} /\ MaxChunk \in Nat \ {0} /\ MaxEvents \in Nat
    BY BoundsAssumption
<1>6. TypeOK
  <2>1. Made \in 1..MaxObjects /\ open \in 0..Made /\ holds \in Nat /\ run \in 0..Made
        /\ compacting \subseteq 1..Made /\ written \in 0..MaxEvents
    BY <1>3, <1>4, <1>5
  <2>2. chunk \in Seq(Requests(Made)) /\ Len(chunk) <= MaxChunk
    BY <1>2, <1>4, <1>5
  <2>3. subscribed \in BOOLEAN /\ seen \in Seq(Ids)
    BY <1>1, <1>4
  <2>4. QED
    BY <1>3, <2>1, <2>2, <2>3 DEF TypeOK
<1>7. Served
    BY <1>2, <1>4 DEF Served
<1>8. QED
    BY <1>6, <1>7 DEF TInv

\* Every step keeps the types.
LEMMA TInvNext == TInv /\ [Next]_vars => TInv'
<1>. SUFFICES ASSUME TInv, [Next]_vars PROVE TInv'
    OBVIOUS
<1>t. /\ file \in Files
      /\ objects \in Seq(Seq(Ids)) /\ Made \in 1..MaxObjects
      /\ open \in 0..Made
      /\ loading \in Loads
      /\ holds \in Nat
      /\ run \in 0..Made
      /\ compacting \subseteq 1..Made
      /\ chunk \in Seq(Requests(Made)) /\ Len(chunk) <= MaxChunk
      /\ subscribed \in BOOLEAN
      /\ seen \in Seq(Ids)
      /\ written \in 0..MaxEvents
      /\ loading.active => open = 0 /\ chunk # <<>>
    BY DEF TInv, TypeOK
<1>v. /\ file.events \in Seq(Ids) /\ loading.events \in Seq(Ids) /\ loading.active \in BOOLEAN
      /\ Len(chunk) \in Nat /\ Made = Len(objects)
      /\ <<>> \in Seq(Requests(Made)) /\ <<>> \in Seq(Ids) /\ Len(<<>>) = 0
  <2>1. file.events \in Seq(Ids)
    BY <1>t DEF Files
  <2>2. loading.events \in Seq(Ids) /\ loading.active \in BOOLEAN
    BY <1>t DEF Loads
  <2>3. Len(chunk) \in Nat
    BY <1>t
  <2>4. QED
    BY <2>1, <2>2, <2>3 DEF Made
<1>m. UNCHANGED objects => Made' = Made
    BY DEF Made
<1>u. MaxEvents \in Nat /\ MaxObjects \in Nat \ {0} /\ MaxChunk \in Nat \ {0} /\ TornWrites \in BOOLEAN
    BY BoundsAssumption
<1>1. CASE Arrive
  <2>0. PICK n \in 1..MaxChunk : \E kinds \in [1..n -> Kinds] :
           chunk' = [i \in 1..n |-> [kind |-> kinds[i], object |-> open]]
    BY <1>1 DEF Arrive
  <2>1. PICK kinds \in [1..n -> Kinds] :
           chunk' = [i \in 1..n |-> [kind |-> kinds[i], object |-> open]]
    BY <2>0
  <2>2. /\ chunk' \in Seq(Requests(Made)) /\ Len(chunk') = n /\ n <= MaxChunk /\ chunk' # <<>>
        /\ \A i \in 1..Len(chunk') : chunk'[i].object = open
    <3>1. \A i \in 1..n : [kind |-> kinds[i], object |-> open] \in Requests(Made)
      BY <2>1, <1>t DEF Requests
    <3>2. n \in Nat /\ n >= 1 /\ n <= MaxChunk
      BY <1>u
    <3>3. chunk' \in Seq(Requests(Made)) /\ Len(chunk') = n
      BY <2>1, <3>1, <3>2
    <3>4. \A i \in 1..n : chunk'[i].object = open
      BY <2>1
    <3>5. QED
      BY <3>2, <3>3, <3>4
  <2>3. loading' \in Loads /\ (loading'.active <=> open = 0)
    BY <1>1, <1>t, <1>v DEF Arrive, NotLoading, Loads
  <2>4. TypeOK'
    BY <1>1, <1>t, <1>v, <1>m, <2>2, <2>3 DEF Arrive, TypeOK
  <2>5. Served'
    BY <1>1, <2>2, <2>3 DEF Served
  <2>6. QED
    BY <2>4, <2>5 DEF TInv
<1>2. CASE Loaded
  <2>1. /\ objects' \in Seq(Seq(Ids)) /\ Made' = Made + 1 /\ Made' \in 1..MaxObjects
    <3>1. objects' = Append(objects, loading.events) /\ Made < MaxObjects
      BY <1>2 DEF Loaded
    <3>2. objects' \in Seq(Seq(Ids)) /\ Len(objects') = Len(objects) + 1
      BY <3>1, <1>t, <1>v
    <3>3. QED
      BY <3>1, <3>2, <1>t, <1>v, <1>u DEF Made
  <2>2. /\ chunk' \in Seq(Requests(Made')) /\ Len(chunk') = Len(chunk)
        /\ \A i \in 1..Len(chunk') : chunk'[i].object = Made + 1
    <3>1. chunk' = [i \in 1..Len(chunk) |-> [chunk[i] EXCEPT !.object = Made + 1]]
      BY <1>2 DEF Loaded
    <3>2. \A i \in 1..Len(chunk) :
             /\ [chunk[i] EXCEPT !.object = Made + 1] \in Requests(Made')
             /\ [chunk[i] EXCEPT !.object = Made + 1].object = Made + 1
      <4>1. \A i \in 1..Len(chunk) : chunk[i] \in Requests(Made)
        BY <1>t
      <4>2. Made + 1 \in 0..Made'
        BY <1>t, <2>1
      <4>3. QED
        BY <4>1, <4>2 DEF Requests
    <3>3. chunk' \in Seq(Requests(Made')) /\ Len(chunk') = Len(chunk)
      BY <3>1, <3>2, <1>v
    <3>4. QED
      BY <3>1, <3>2, <3>3
  <2>3. TypeOK'
    <3>1. /\ open' = Made + 1 /\ loading' = NotLoading
          /\ UNCHANGED <<file, holds, run, compacting, subscribed, seen, written>>
      BY <1>2 DEF Loaded
    <3>2. loading' \in Loads /\ ~loading'.active
      BY <3>1, <1>v DEF NotLoading, Loads
    <3>3. open' \in 0..Made' /\ run' \in 0..Made' /\ compacting' \subseteq 1..Made'
      BY <3>1, <1>t, <2>1
    <3>4. QED
      BY <1>t, <2>1, <2>2, <3>1, <3>2, <3>3 DEF TypeOK
  <2>4. Served'
    BY <1>t, <1>v, <2>2 DEF Served
  <2>5. QED
    BY <2>3, <2>4 DEF TInv
<1>3. CASE Subscribe
  <2>1. /\ Head(chunk).object \in 1..Made /\ chunk' \in Seq(Requests(Made))
        /\ Len(chunk') = Len(chunk) - 1 /\ Len(chunk') <= MaxChunk /\ ~loading.active
        /\ \A i \in 1..Len(chunk') : chunk'[i] = chunk[i + 1] /\ i + 1 \in 1..Len(chunk)
    BY <1>3, ResumedType DEF Subscribe
  <2>2. seen' \in Seq(Ids)
    <3> DEFINE events == objects[Head(chunk).object]
    <3>1. events \in Seq(Ids) /\ Len(events) \in Nat /\ Len(seen) + 1 \in Nat \ {0}
      <4>1. events \in Seq(Ids)
        BY <1>t, <1>v, <2>1
      <4>2. QED
        BY <4>1, <1>t
    <3>2. SubSeq(events, Len(seen) + 1, Len(events)) \in Seq(Ids)
      BY <3>1, SubSeqProperties
    <3>3. seen' = seen \o SubSeq(events, Len(seen) + 1, Len(events))
      BY <1>3 DEF Subscribe
    <3>4. QED
      BY <3>2, <3>3, <1>t
  <2>3. holds' \in Nat
    BY <1>3, <1>t, <1>v DEF Subscribe
  <2>4. TypeOK'
    <3>1. subscribed' = TRUE /\ UNCHANGED <<file, objects, open, loading, run, compacting, written>>
      BY <1>3 DEF Subscribe
    <3>2. QED
      BY <1>t, <1>m, <2>1, <2>2, <2>3, <3>1 DEF TypeOK
  <2>5. Served'
    BY <2>1 DEF Served, TInv
  <2>6. QED
    BY <2>4, <2>5 DEF TInv
<1>4. CASE AppendOne
  <2>1. /\ Head(chunk).object \in 1..Made /\ chunk' \in Seq(Requests(Made))
        /\ Len(chunk') = Len(chunk) - 1 /\ Len(chunk') <= MaxChunk /\ ~loading.active
        /\ \A i \in 1..Len(chunk') : chunk'[i] = chunk[i + 1] /\ i + 1 \in 1..Len(chunk)
    BY <1>4, ResumedType DEF AppendOne
  <2>2. /\ file' \in Files /\ objects' \in Seq(Seq(Ids)) /\ Made' = Made
        /\ written' \in 0..MaxEvents /\ seen' \in Seq(Ids)
    BY <1>4, <2>1, AppendToType DEF AppendOne
  <2>3. TypeOK'
    <3>1. UNCHANGED <<open, loading, holds, run, compacting, subscribed>>
      BY <1>4 DEF AppendOne
    <3>2. QED
      BY <1>t, <2>1, <2>2, <3>1 DEF TypeOK
  <2>4. Served'
    BY <2>1 DEF Served, TInv
  <2>5. QED
    BY <2>3, <2>4 DEF TInv
<1>5. CASE Prompt
  <2>1. /\ Head(chunk).object \in 1..Made /\ chunk' \in Seq(Requests(Made))
        /\ Len(chunk') = Len(chunk) - 1 /\ Len(chunk') <= MaxChunk /\ ~loading.active
        /\ \A i \in 1..Len(chunk') : chunk'[i] = chunk[i + 1] /\ i + 1 \in 1..Len(chunk)
    BY <1>5, ResumedType DEF Prompt
  <2>2. Served'
    BY <2>1 DEF Served, TInv
  <2>3. CASE run # 0
    <3>1. UNCHANGED <<file, objects, holds, run, seen, written, open, loading, compacting, subscribed>>
      BY <1>5, <2>3 DEF Prompt
    <3>2. TypeOK'
      BY <1>t, <1>m, <2>1, <3>1 DEF TypeOK
    <3>3. QED
      BY <2>2, <3>2 DEF TInv
  <2>4. CASE run = 0
    <3>1. /\ file' \in Files /\ objects' \in Seq(Seq(Ids)) /\ Made' = Made
          /\ written' \in 0..MaxEvents /\ seen' \in Seq(Ids)
      BY <1>5, <2>1, <2>4, AppendToType DEF Prompt
    <3>2. /\ run' = Head(chunk).object /\ holds' = holds + 1
          /\ UNCHANGED <<open, loading, compacting, subscribed>>
      BY <1>5, <2>4 DEF Prompt
    <3>3. run' \in 0..Made' /\ holds' \in Nat
      BY <1>t, <2>1, <3>1, <3>2
    <3>4. TypeOK'
      BY <1>t, <2>1, <3>1, <3>2, <3>3 DEF TypeOK
    <3>5. QED
      BY <2>2, <3>4 DEF TInv
  <2>5. QED
    BY <2>3, <2>4
<1>6. CASE Compact \/ Delete
  <2>1. /\ Head(chunk).object \in 1..Made /\ chunk' \in Seq(Requests(Made))
        /\ Len(chunk') = Len(chunk) - 1 /\ Len(chunk') <= MaxChunk /\ ~loading.active
        /\ \A i \in 1..Len(chunk') : chunk'[i] = chunk[i + 1] /\ i + 1 \in 1..Len(chunk)
    BY <1>6, ResumedType DEF Compact, Delete
  <2>2. Served'
    BY <2>1 DEF Served, TInv
  <2>3. CASE Compact
    <3>1. TypeOK'
      BY <1>t, <1>v, <1>m, <2>1, <2>3 DEF Compact, TypeOK, memory
    <3>2. QED
      BY <2>2, <3>1 DEF TInv
  <2>4. CASE Delete
    <3>1. NoFile \in Files
      BY <1>t, <1>v DEF NoFile, Files
    <3>2. UNCHANGED <<objects, loading, run, compacting, written>> /\ Made' = Made
      BY <2>4, <1>m DEF Delete
    <3>3. /\ file' \in Files /\ open' \in 0..Made /\ holds' \in Nat
          /\ subscribed' \in BOOLEAN /\ seen' \in Seq(Ids)
      <4>1. CASE UNCHANGED <<file, open, holds, subscribed, seen>>
        <5>1. file' = file /\ open' = open /\ holds' = holds /\ subscribed' = subscribed /\ seen' = seen
          BY <4>1
        <5>2. QED
          BY <5>1, <1>t
      <4>2. CASE /\ file' = NoFile /\ open' = 0 /\ holds' = 0
                 /\ subscribed' = FALSE /\ seen' = <<>>
        <5>1. 0 \in 0..Made /\ 0 \in Nat
          BY <1>t
        <5>2. QED
          BY <4>2, <5>1, <1>v, <3>1
      <4>3. QED
        BY <2>4, <4>1, <4>2 DEF Delete
    <3>4. TypeOK'
      BY <1>t, <2>1, <3>2, <3>3 DEF TypeOK
    <3>5. QED
      BY <2>2, <3>4 DEF TInv
  <2>5. QED
    BY <1>6, <2>3, <2>4
<1>7. CASE RunAppends
  <2>1. /\ file' \in Files /\ objects' \in Seq(Seq(Ids)) /\ Made' = Made
        /\ written' \in 0..MaxEvents /\ seen' \in Seq(Ids)
    BY <1>7, <1>t, <1>v, AppendToType DEF RunAppends
  <2>2. TypeOK'
    BY <1>7, <1>t, <1>v, <1>m, <2>1 DEF RunAppends, TypeOK
  <2>3. QED
    BY <1>7, <2>2 DEF TInv, Served, RunAppends
<1>8. CASE Compacted
  <2>1. PICK o \in compacting :
           /\ compacting' = compacting \ {o}
           /\ AppendTo(o) \/ UNCHANGED <<file, objects, seen, written>>
    BY <1>8 DEF Compacted
  <2>2. /\ file' \in Files /\ objects' \in Seq(Seq(Ids)) /\ Made' = Made
        /\ written' \in 0..MaxEvents /\ seen' \in Seq(Ids)
    BY <1>t, <1>v, <2>1, AppendToType DEF Made
  <2>3. TypeOK'
    BY <1>8, <1>t, <1>v, <1>m, <2>1, <2>2 DEF Compacted, TypeOK
  <2>4. QED
    BY <1>8, <2>3 DEF TInv, Served, Compacted
<1>9. CASE RunSettles \/ Unsubscribe \/ Sweep
  <2>1. holds' \in Nat
    BY <1>9, <1>t, <1>v DEF RunSettles, Unsubscribe, Sweep, Unhold
  <2>2. /\ UNCHANGED <<file, objects, loading, compacting, chunk, seen, written>>
        /\ Made' = Made /\ ~loading.active
        /\ open' \in 0..Made /\ run' \in 0..Made /\ subscribed' \in BOOLEAN
    <3>1. CASE RunSettles
      BY <3>1, <1>t, <1>m DEF RunSettles, Quiet
    <3>2. CASE Unsubscribe
      BY <3>2, <1>t, <1>m DEF Unsubscribe, Quiet
    <3>3. CASE Sweep
      BY <3>3, <1>t, <1>m DEF Sweep, Quiet
    <3>4. QED
      BY <1>9, <3>1, <3>2, <3>3
  <2>3. TypeOK'
    BY <1>t, <2>1, <2>2 DEF TypeOK
  <2>4. Served'
    BY <2>2 DEF Served, TInv
  <2>5. QED
    BY <2>3, <2>4 DEF TInv
<1>10. CASE Restart
  <2>1. file' \in Files /\ written' \in 0..MaxEvents
    <3>1. CASE UNCHANGED <<file, written>>
      BY <1>t, <1>v, <3>1
    <3>2. CASE /\ written < MaxEvents
               /\ \E o \in Appending : file' = WriteLine(file, written + 1, Len(objects[o]) + 1)
               /\ written' = written + 1
      <4>1. PICK o \in Appending : file' = WriteLine(file, written + 1, Len(objects[o]) + 1)
        BY <3>2
      <4>2. o \in 1..Made
        <5>1. CASE chunk = <<>>
          <6>1. o = run /\ run # 0
            BY <5>1, <4>1 DEF Appending
          <6>2. QED
            BY <6>1, <1>t
        <5>2. CASE chunk # <<>>
          <6>1. ~loading.active /\ o = chunk[1].object /\ 1 \in 1..Len(chunk)
            BY <5>2, <1>t, <1>v, <4>1 DEF Appending
          <6>2. chunk[1] \in Requests(Made) /\ chunk[1].object # 0
            BY <6>1, <1>t, <1>v DEF TInv, Served
          <6>3. chunk[1].object \in 0..Made
            BY <6>2 DEF Requests
          <6>4. QED
            BY <6>1, <6>2, <6>3, <1>t
        <5>3. QED
          BY <5>1, <5>2
      <4>3. objects[o] \in Seq(Ids) /\ Len(objects[o]) + 1 \in Nat /\ written + 1 \in Ids
        <5>1. objects[o] \in Seq(Ids)
          BY <4>2, <1>t, <1>v
        <5>2. written + 1 \in Ids
          BY <3>2, <1>t, <1>u DEF Ids
        <5>3. QED
          BY <5>1, <5>2
      <4>4. file' \in Files
        BY <4>1, <4>3, <1>t, WriteLineType
      <4>5. QED
        BY <3>2, <4>4, <1>t, <1>u
    <3>3. CASE file' = [file EXCEPT !.torn = TRUE] /\ UNCHANGED written
      BY <3>3, <1>t, <1>v DEF Files
    <3>4. QED
      BY <1>10, <3>1, <3>2, <3>3 DEF Restart
  <2>2. /\ open' = 0 /\ loading' = NotLoading /\ holds' = 0 /\ run' = 0 /\ compacting' = {}
        /\ chunk' = <<>> /\ subscribed' = FALSE /\ UNCHANGED <<objects, seen>> /\ Made' = Made
    BY <1>10, <1>m DEF Restart
  <2>3. NotLoading \in Loads /\ ~NotLoading.active
    BY <1>v DEF NotLoading, Loads
  <2>4. TypeOK'
    <3>1. /\ open' \in 0..Made' /\ holds' \in Nat /\ run' \in 0..Made' /\ compacting' \subseteq 1..Made'
          /\ objects' \in Seq(Seq(Ids)) /\ Made' \in 1..MaxObjects
      BY <1>t, <2>2
    <3>2. chunk' \in Seq(Requests(Made')) /\ Len(chunk') <= MaxChunk
      BY <1>v, <1>u, <2>2
    <3>3. loading' \in Loads /\ ~loading'.active /\ subscribed' \in BOOLEAN /\ seen' \in Seq(Ids)
      BY <1>t, <2>2, <2>3
    <3>4. QED
      BY <2>1, <3>1, <3>2, <3>3 DEF TypeOK
  <2>5. Served'
    BY <1>v, <2>2 DEF Served
  <2>6. QED
    BY <2>4, <2>5 DEF TInv
<1>11. CASE UNCHANGED vars
    BY <1>11 DEF vars, TInv, TypeOK, Served, Made
<1>12. QED
    BY <1>1, <1>2, <1>3, <1>4, <1>5, <1>6, <1>7, <1>8, <1>9, <1>10, <1>11 DEF Next

\* The store is well-typed in every state, torn lines, slow summaries and
\* deletions under a compaction included.
THEOREM TypeCorrect == Spec => []TypeOK
<1>1. TInv => TypeOK
    BY DEF TInv
<1>2. QED
    BY <1>1, TInvInit, TInvNext, PTL DEF Spec

-----------------------------------------------------------------------------
\* A line appended to a whole file at its end is the next event of the log.
LEMMA WholeLine ==
    ASSUME NEW f \in Files, f.exists, ~f.torn, NEW id
    PROVE  /\ WriteLine(f, id, Len(f.events) + 1).events = Append(f.events, id)
           /\ WriteLine(f, id, Len(f.events) + 1).exists
           /\ ~WriteLine(f, id, Len(f.events) + 1).torn
    BY DEF WriteLine, Files

\* What a client lacks, added to what it has, is everything.
LEMMA CatchUp ==
    ASSUME NEW S, NEW s \in Seq(S), NEW e \in Seq(S),
           Len(s) <= Len(e), \A i \in 1..Len(s) : s[i] = e[i]
    PROVE  s \o SubSeq(e, Len(s) + 1, Len(e)) = e
<1> DEFINE rest == SubSeq(e, Len(s) + 1, Len(e))
<1>1. Len(s) \in Nat /\ Len(e) \in Nat
    OBVIOUS
<1>2. \A i \in (Len(s) + 1)..Len(e) : e[i] \in S
    BY <1>1
<1>3. /\ rest \in Seq(S) /\ Len(rest) = Len(e) - Len(s)
      /\ \A i \in 1..(Len(e) - Len(s)) : rest[i] = e[Len(s) + i]
  <2>1. /\ rest \in Seq(S)
        /\ Len(rest) = IF Len(s) + 1 <= Len(e) THEN Len(e) - (Len(s) + 1) + 1 ELSE 0
        /\ \A i \in 1..(Len(e) - (Len(s) + 1) + 1) : rest[i] = e[(Len(s) + 1) + i - 1]
    BY <1>1, <1>2, SubSeqProperties
  <2>2. QED
    BY <1>1, <2>1
<1>4. /\ s \o rest \in Seq(S) /\ Len(s \o rest) = Len(e)
      /\ \A i \in 1..Len(e) : (s \o rest)[i] = IF i <= Len(s) THEN s[i] ELSE rest[i - Len(s)]
    BY <1>1, <1>3, ConcatProperties
<1>5. \A i \in 1..Len(e) : (s \o rest)[i] = e[i]
    BY <1>1, <1>3, <1>4
<1>. HIDE DEF rest
<1>6. s \o rest = e
    BY <1>4, <1>5, SeqEqual
<1>7. QED
    BY <1>6 DEF rest

\* An event appended through the open object keeps memory, file and client one.
LEMMA AppendToKeeps ==
    ASSUME IInv, open # 0, AppendTo(open), UNCHANGED <<open, loading, subscribed>>
    PROVE  FileIsWhole' /\ FileIsLog' /\ ClientInSync' /\ ToldIsStored'
<1> DEFINE id == written + 1
<1>1. /\ TInv /\ open \in 1..Made /\ file \in Files /\ objects \in Seq(Seq(Ids))
      /\ seen \in Seq(Ids) /\ ~loading.active
    BY DEF IInv, TInv, TypeOK, Made
<1>2. /\ file.exists /\ ~file.torn /\ file.events = objects[open]
      /\ file.events \in Seq(Ids) /\ Len(file.events) \in Nat
    BY <1>1 DEF IInv, FileIsLog, FileIsWhole, Files
<1>3. objects'[open] = Append(file.events, id) /\ id \in Ids
    BY <1>1, <1>2, AppendToType
<1>4. file'.events = Append(file.events, id) /\ file'.exists /\ ~file'.torn
    BY <1>1, <1>2, WholeLine DEF AppendTo
<1>5. /\ Len(file'.events) = Len(file.events) + 1
      /\ \A i \in 1..Len(file.events) : file'.events[i] = file.events[i]
    BY <1>2, <1>3, <1>4, AppendProperties
<1>6. /\ Len(seen) \in Nat /\ Len(seen) <= Len(file.events)
      /\ \A i \in 1..Len(seen) : seen[i] = file.events[i]
    BY <1>1 DEF IInv, ToldIsStored
<1>7. subscribed => seen' = file'.events
  <2>1. subscribed => seen = file.events
    BY <1>2 DEF IInv, ClientInSync
  <2>2. subscribed => seen' = Receive(id, Len(file.events) + 1)
    BY <1>2 DEF AppendTo
  <2>3. QED
    BY <1>2, <1>4, <2>1, <2>2 DEF Receive
<1>8. ~subscribed => seen' = seen
    BY DEF AppendTo
<1>9. ToldIsStored'
    BY <1>2, <1>5, <1>6, <1>7, <1>8 DEF ToldIsStored
<1>10. FileIsWhole' /\ FileIsLog' /\ ClientInSync'
    BY <1>1, <1>3, <1>4, <1>7 DEF FileIsWhole, FileIsLog, ClientInSync
<1>11. QED
    BY <1>9, <1>10

\* A request goes on with the open object, and so do those behind it.
LEMMA ResumedOpen ==
    ASSUME IInv, NEW k, Resumed(k)
    PROVE  /\ Head(chunk).object = open /\ open \in 1..Made /\ k \in Kinds /\ ~loading.active
           /\ \A i \in 1..Len(chunk') : chunk'[i].object = open /\ chunk'[i].kind # "delete"
           /\ k = "delete" => chunk' = <<>> /\ compacting = {}
<1>1. /\ chunk # <<>> /\ Head(chunk) = chunk[1] /\ 1 \in 1..Len(chunk) /\ Head(chunk).kind = k
      /\ chunk \in Seq(Requests(Made)) /\ chunk' = Tail(chunk)
    BY DEF Resumed, IInv, TInv, TypeOK
<1>2. TInv /\ DeletesAlone /\ \A i \in 1..Len(chunk) : chunk[i].object = open
    BY DEF IInv, WritersAreOpen
<1>3. /\ Head(chunk).object \in 1..Made /\ k \in Kinds /\ ~loading.active
      /\ Len(chunk') = Len(chunk) - 1
      /\ \A i \in 1..Len(chunk') : chunk'[i] = chunk[i + 1] /\ i + 1 \in 1..Len(chunk)
    BY <1>2, ResumedType
<1>4. \A i \in 1..Len(chunk') : chunk'[i].object = open /\ chunk'[i].kind # "delete"
  <2>1. ASSUME NEW i \in 1..Len(chunk') PROVE Len(chunk) # 1
    <3>1. SUFFICES ASSUME Len(chunk) = 1 PROVE FALSE
      OBVIOUS
    <3>2. Len(chunk') = 0
      BY <1>3, <3>1
    <3>3. QED
      BY <2>1, <3>2
  <2>2. QED
    BY <1>2, <1>3, <2>1 DEF DeletesAlone
<1>5. ASSUME k = "delete" PROVE chunk' = <<>> /\ compacting = {}
  <2>1. Len(chunk) = 1 /\ compacting = {}
    BY <1>1, <1>2, <1>5 DEF DeletesAlone
  <2>2. Len(Tail(chunk)) = 0 /\ Tail(chunk) \in Seq(Requests(Made))
    BY <1>1, <1>3, <2>1
  <2>3. QED
    BY <1>1, <2>1, <2>2, EmptySeq
<1>6. QED
    BY <1>1, <1>2, <1>3, <1>4, <1>5

\* No step puts a request to delete beside another one, or a compaction under it.
LEMMA DeletesStayAlone ==
    ASSUME Calm, IInv, [Next]_vars PROVE DeletesAlone'
<1>1. chunk \in Seq(Requests(Made)) /\ DeletesAlone
    BY DEF IInv, TInv, TypeOK
<1>2. CASE Arrive
  <2>1. PICK n \in 1..MaxChunk : \E kinds \in [1..n -> Kinds] :
           /\ (\E i \in 1..n : kinds[i] = "delete") => DeletesRace \/ (n = 1 /\ compacting = {})
           /\ chunk' = [i \in 1..n |-> [kind |-> kinds[i], object |-> open]]
    BY <1>2 DEF Arrive
  <2>2. PICK kinds \in [1..n -> Kinds] :
           /\ (\E i \in 1..n : kinds[i] = "delete") => DeletesRace \/ (n = 1 /\ compacting = {})
           /\ chunk' = [i \in 1..n |-> [kind |-> kinds[i], object |-> open]]
    BY <2>1
  <2>3. Len(chunk') = n
    BY <2>2, BoundsAssumption
  <2>4. compacting' = compacting /\ ~DeletesRace
    BY <1>2 DEF Arrive, Calm
  <2>5. QED
    BY <2>2, <2>3, <2>4 DEF DeletesAlone
<1>3. CASE Loaded
  <2>1. /\ chunk' = [i \in 1..Len(chunk) |-> [chunk[i] EXCEPT !.object = Made + 1]]
        /\ compacting' = compacting
    BY <1>3 DEF Loaded
  <2>2. \A i \in 1..Len(chunk) : [chunk[i] EXCEPT !.object = Made + 1].kind = chunk[i].kind
    BY <1>1 DEF Requests
  <2>3. Len(chunk') = Len(chunk)
    BY <1>1, <2>1
  <2>4. QED
    BY <1>1, <2>1, <2>2, <2>3 DEF DeletesAlone
<1>4. CASE Subscribe \/ AppendOne \/ Prompt \/ Compact \/ Delete
  <2>1. \E k \in Kinds : Resumed(k)
    BY <1>4 DEF Subscribe, AppendOne, Prompt, Compact, Delete, Kinds
  <2>2. \A i \in 1..Len(chunk') : chunk'[i].kind # "delete"
    BY <2>1, ResumedOpen
  <2>3. QED
    BY <2>2 DEF DeletesAlone
<1>5. CASE Compacted
    BY <1>5 DEF Compacted, Quiet, DeletesAlone
<1>6. CASE RunAppends \/ RunSettles \/ Unsubscribe \/ Sweep \/ UNCHANGED vars
    BY <1>1, <1>6 DEF RunAppends, RunSettles, Unsubscribe, Sweep, memory, vars, DeletesAlone
<1>7. CASE Restart
    BY <1>7 DEF Restart, DeletesAlone
<1>8. QED
    BY <1>2, <1>3, <1>4, <1>5, <1>6, <1>7 DEF Next

\* The invariant holds at the start.
LEMMA IInvInit == Init => IInv
<1>. SUFFICES ASSUME Init PROVE IInv
    OBVIOUS
<1>1. /\ file = [exists |-> TRUE, events |-> <<>>, torn |-> FALSE]
      /\ objects[1] = <<>> /\ open = 1 /\ ~loading.active
      /\ chunk = <<>> /\ run = 0 /\ compacting = {} /\ holds = 0 /\ subscribed = FALSE /\ seen = <<>>
    BY DEF Init, NoFile, NotLoading
<1>2. TInv
    BY TInvInit
<1>3. FileIsWhole /\ WritersAreOpen /\ DeletesAlone
    BY <1>1 DEF FileIsWhole, WritersAreOpen, DeletesAlone
<1>4. HoldsCount /\ FileIsLog /\ ClientInSync /\ ToldIsStored
    BY <1>1 DEF HoldsCount, FileIsLog, ClientInSync, ToldIsStored
<1>5. QED
    BY <1>2, <1>3, <1>4 DEF IInv

\* Every step keeps the invariant.
LEMMA IInvNext == ASSUME Calm PROVE IInv /\ [Next]_vars => IInv'
<1>. SUFFICES ASSUME IInv, [Next]_vars PROVE IInv'
    OBVIOUS
<1>t. TInv' /\ DeletesAlone'
    BY TInvNext, DeletesStayAlone DEF IInv
<1>o. /\ TInv /\ file \in Files /\ objects \in Seq(Seq(Ids)) /\ Made = Len(objects) /\ Made \in Nat
      /\ open \in 0..Made /\ run \in 0..Made /\ compacting \subseteq 1..Made /\ holds \in Nat
      /\ chunk \in Seq(Requests(Made)) /\ Len(chunk) <= MaxChunk /\ seen \in Seq(Ids)
      /\ loading.active => open = 0 /\ chunk # <<>>
    BY DEF IInv, TInv, TypeOK, Made
<1>i. FileIsWhole /\ WritersAreOpen /\ HoldsCount /\ FileIsLog /\ ClientInSync /\ ToldIsStored
    BY DEF IInv
<1>c. ~TornWrites /\ ~SlowSummaries
    BY DEF Calm
\* A step that leaves the file, the log and the client alone.
<1>k. ASSUME UNCHANGED <<file, objects, seen>>, open' = open \/ open' = 0,
             subscribed' => subscribed /\ open' = open
      PROVE  FileIsLog' /\ ClientInSync' /\ ToldIsStored'
    BY <1>i, <1>k DEF FileIsLog, ClientInSync, ToldIsStored
<1>1. CASE Arrive
  <2>1. PICK n \in 1..MaxChunk : \E kinds \in [1..n -> Kinds] :
           chunk' = [i \in 1..n |-> [kind |-> kinds[i], object |-> open]]
    BY <1>1 DEF Arrive
  <2>2. \A i \in 1..Len(chunk') : chunk'[i].object = open
    BY <2>1, BoundsAssumption
  <2>3. FileIsWhole'
    BY <1>1, <1>i DEF Arrive, FileIsWhole, NotLoading
  <2>4. WritersAreOpen' /\ HoldsCount'
    BY <1>1, <1>i, <2>2 DEF Arrive, WritersAreOpen, HoldsCount
  <2>5. FileIsLog' /\ ClientInSync' /\ ToldIsStored'
    BY <1>1, <1>k DEF Arrive
  <2>6. QED
    BY <1>t, <2>3, <2>4, <2>5 DEF IInv
<1>2. CASE Loaded
  <2>1. /\ open = 0 /\ open' = Made + 1 /\ chunk' = [i \in 1..Len(chunk) |-> [chunk[i] EXCEPT !.object = Made + 1]]
        /\ file.exists /\ loading.events = file.events
    BY <1>2, <1>o, <1>i DEF Loaded, FileIsWhole
  <2>2. objects'[open'] = file.events
    <3>1. loading.events \in Seq(Ids)
      BY <1>o, <2>1 DEF Files
    <3>2. QED
      BY <1>2, <1>o, <2>1, <3>1, AppendProperties DEF Loaded
  <2>3. /\ run = 0 /\ compacting = {} /\ holds = 0 /\ ~subscribed
    BY <1>o, <1>i, <2>1 DEF WritersAreOpen, HoldsCount
  <2>4. \A i \in 1..Len(chunk') : chunk'[i].object = open'
    <3>1. Len(chunk) \in Nat /\ \A i \in 1..Len(chunk) : chunk[i] \in Requests(Made)
      BY <1>o
    <3>2. Len(chunk') = Len(chunk)
      BY <2>1, <3>1
    <3>3. \A i \in 1..Len(chunk) : [chunk[i] EXCEPT !.object = Made + 1].object = Made + 1
      BY <3>1 DEF Requests
    <3>4. QED
      BY <2>1, <3>1, <3>2, <3>3
  <2>5. FileIsWhole' /\ WritersAreOpen' /\ HoldsCount'
    BY <1>2, <1>i, <2>3, <2>4 DEF Loaded, FileIsWhole, WritersAreOpen, HoldsCount, NotLoading
  <2>6. FileIsLog' /\ ClientInSync' /\ ToldIsStored'
    BY <1>2, <1>i, <2>1, <2>2, <2>3 DEF Loaded, FileIsLog, ClientInSync, ToldIsStored
  <2>7. QED
    BY <1>t, <2>5, <2>6 DEF IInv
<1>3. CASE Subscribe
  <2>1. /\ Head(chunk).object = open /\ open \in 1..Made
        /\ \A i \in 1..Len(chunk') : chunk'[i].object = open
    BY <1>3, ResumedOpen DEF Subscribe
  <2>2. file.exists /\ file.events = objects[open] /\ objects[open] \in Seq(Ids)
    BY <1>o, <1>i, <2>1 DEF FileIsLog
  <2>3. seen' = file.events
    <3>1. Len(seen) <= Len(file.events) /\ \A i \in 1..Len(seen) : seen[i] = file.events[i]
      BY <1>i DEF ToldIsStored
    <3>2. seen \o SubSeq(file.events, Len(seen) + 1, Len(file.events)) = file.events
      BY <1>o, <2>2, <3>1, CatchUp
    <3>3. QED
      BY <1>3, <2>1, <2>2, <3>2 DEF Subscribe
  <2>4. FileIsWhole' /\ WritersAreOpen'
    BY <1>3, <1>i, <2>1 DEF Subscribe, FileIsWhole, WritersAreOpen
  <2>5. HoldsCount'
    BY <1>3, <1>o, <1>i, <2>1 DEF Subscribe, HoldsCount
  <2>6. FileIsLog' /\ ClientInSync' /\ ToldIsStored'
    <3>1. file' = file /\ objects' = objects /\ open' = open /\ open # 0
      BY <1>3, <2>1 DEF Subscribe
    <3>2. Len(file.events) <= Len(file.events)
      BY <2>2
    <3>3. QED
      BY <2>2, <2>3, <3>1, <3>2 DEF FileIsLog, ClientInSync, ToldIsStored
  <2>7. QED
    BY <1>t, <2>4, <2>5, <2>6 DEF IInv
<1>4. CASE AppendOne
  <2>1. /\ Head(chunk).object = open /\ open \in 1..Made
        /\ \A i \in 1..Len(chunk') : chunk'[i].object = open
    BY <1>4, ResumedOpen DEF AppendOne
  <2>2. FileIsWhole' /\ FileIsLog' /\ ClientInSync' /\ ToldIsStored'
    BY <1>4, <2>1, AppendToKeeps DEF AppendOne
  <2>3. WritersAreOpen' /\ HoldsCount'
    BY <1>4, <1>i, <2>1 DEF AppendOne, WritersAreOpen, HoldsCount
  <2>4. QED
    BY <1>t, <2>2, <2>3 DEF IInv
<1>5. CASE Prompt
  <2>1. /\ Head(chunk).object = open /\ open \in 1..Made
        /\ \A i \in 1..Len(chunk') : chunk'[i].object = open
    BY <1>5, ResumedOpen DEF Prompt
  <2>2. CASE run # 0
    <3>1. FileIsWhole' /\ WritersAreOpen' /\ HoldsCount'
      BY <1>5, <1>i, <2>1, <2>2 DEF Prompt, FileIsWhole, WritersAreOpen, HoldsCount
    <3>2. FileIsLog' /\ ClientInSync' /\ ToldIsStored'
      BY <1>5, <1>k, <2>2 DEF Prompt
    <3>3. QED
      BY <1>t, <3>1, <3>2 DEF IInv
  <2>3. CASE run = 0
    <3>1. FileIsWhole' /\ FileIsLog' /\ ClientInSync' /\ ToldIsStored'
      BY <1>5, <2>1, <2>3, AppendToKeeps DEF Prompt
    <3>2. WritersAreOpen'
      BY <1>5, <1>i, <2>1, <2>3 DEF Prompt, WritersAreOpen
    <3>3. HoldsCount'
      BY <1>5, <1>o, <1>i, <2>1, <2>3 DEF Prompt, HoldsCount
    <3>4. QED
      BY <1>t, <3>1, <3>2, <3>3 DEF IInv
  <2>4. QED
    BY <2>2, <2>3
<1>6. CASE Compact
  <2>1. /\ Head(chunk).object = open /\ open \in 1..Made
        /\ \A i \in 1..Len(chunk') : chunk'[i].object = open
    BY <1>6, ResumedOpen DEF Compact
  <2>2. compacting' \subseteq {open}
    BY <1>6, <1>i, <2>1 DEF Compact, WritersAreOpen
  <2>3. FileIsWhole' /\ WritersAreOpen' /\ HoldsCount'
    BY <1>6, <1>i, <2>1, <2>2 DEF Compact, memory, FileIsWhole, WritersAreOpen, HoldsCount
  <2>4. FileIsLog' /\ ClientInSync' /\ ToldIsStored'
    BY <1>6, <1>k DEF Compact, memory
  <2>5. QED
    BY <1>t, <2>3, <2>4 DEF IInv
<1>7. CASE Delete
  <2>1. /\ Head(chunk).object = open /\ open \in 1..Made /\ ~loading.active
        /\ chunk' = <<>> /\ compacting = {}
    BY <1>7, ResumedOpen DEF Delete
  <2>2. CASE run # 0
    <3>1. FileIsWhole' /\ WritersAreOpen' /\ HoldsCount'
      BY <1>7, <1>i, <2>1, <2>2 DEF Delete, FileIsWhole, WritersAreOpen, HoldsCount
    <3>2. FileIsLog' /\ ClientInSync' /\ ToldIsStored'
      BY <1>7, <1>k, <2>2 DEF Delete
    <3>3. QED
      BY <1>t, <3>1, <3>2 DEF IInv
  <2>3. CASE run = 0
    <3>1. /\ file' = NoFile /\ open' = 0 /\ holds' = 0 /\ subscribed' = FALSE /\ seen' = <<>>
          /\ UNCHANGED <<loading, run, compacting>>
      BY <1>7, <2>3 DEF Delete
    <3>2. FileIsWhole' /\ WritersAreOpen'
      BY <2>1, <2>3, <3>1 DEF NoFile, FileIsWhole, WritersAreOpen
    <3>3. HoldsCount' /\ FileIsLog' /\ ClientInSync' /\ ToldIsStored'
      BY <2>3, <3>1 DEF NoFile, HoldsCount, FileIsLog, ClientInSync, ToldIsStored
    <3>4. QED
      BY <1>t, <3>2, <3>3 DEF IInv
  <2>4. QED
    BY <2>2, <2>3
<1>8. CASE RunAppends
  <2>1. run = open /\ open # 0
    BY <1>8, <1>i DEF RunAppends, WritersAreOpen
  <2>2. FileIsWhole' /\ FileIsLog' /\ ClientInSync' /\ ToldIsStored'
    BY <1>8, <2>1, AppendToKeeps DEF RunAppends
  <2>3. WritersAreOpen' /\ HoldsCount'
    BY <1>8, <1>i DEF RunAppends, WritersAreOpen, HoldsCount
  <2>4. QED
    BY <1>t, <2>2, <2>3 DEF IInv
<1>9. CASE RunSettles
  <2>1. FileIsWhole' /\ WritersAreOpen'
    BY <1>9, <1>i DEF RunSettles, FileIsWhole, WritersAreOpen
  <2>2. HoldsCount'
    BY <1>9, <1>o, <1>i DEF RunSettles, HoldsCount, Unhold
  <2>3. FileIsLog' /\ ClientInSync' /\ ToldIsStored'
    BY <1>9, <1>k DEF RunSettles
  <2>4. QED
    BY <1>t, <2>1, <2>2, <2>3 DEF IInv
<1>10. CASE Compacted
  <2>1. PICK o \in compacting :
           /\ compacting' = compacting \ {o}
           /\ AppendTo(o) \/ UNCHANGED <<file, objects, seen, written>>
    BY <1>10 DEF Compacted
  <2>2. o = open /\ open # 0
    BY <1>o, <1>i, <2>1 DEF WritersAreOpen
  <2>3. WritersAreOpen' /\ HoldsCount'
    BY <1>10, <1>i, <2>1 DEF Compacted, WritersAreOpen, HoldsCount
  <2>4. CASE AppendTo(o)
    <3>1. FileIsWhole' /\ FileIsLog' /\ ClientInSync' /\ ToldIsStored'
      BY <1>10, <2>2, <2>4, AppendToKeeps DEF Compacted
    <3>2. QED
      BY <1>t, <2>3, <3>1 DEF IInv
  <2>5. CASE UNCHANGED <<file, objects, seen, written>>
    <3>1. FileIsWhole'
      BY <1>10, <1>i, <2>5 DEF Compacted, FileIsWhole
    <3>2. FileIsLog' /\ ClientInSync' /\ ToldIsStored'
      BY <1>10, <1>k, <2>5 DEF Compacted
    <3>3. QED
      BY <1>t, <2>3, <3>1, <3>2 DEF IInv
  <2>6. QED
    BY <2>1, <2>4, <2>5
<1>11. CASE Unsubscribe
  <2>1. FileIsWhole' /\ WritersAreOpen'
    BY <1>11, <1>i DEF Unsubscribe, memory, FileIsWhole, WritersAreOpen
  <2>2. HoldsCount'
    BY <1>11, <1>o, <1>i DEF Unsubscribe, HoldsCount, Unhold
  <2>3. FileIsLog' /\ ClientInSync' /\ ToldIsStored'
    BY <1>11, <1>k DEF Unsubscribe
  <2>4. QED
    BY <1>t, <2>1, <2>2, <2>3 DEF IInv
<1>12. CASE Sweep
  <2>1. chunk = <<>> /\ ~loading.active /\ holds = 0 /\ open # 0
    BY <1>12 DEF Sweep, Quiet
  <2>2. run = 0 /\ ~subscribed /\ compacting = {}
    <3>1. run = 0 /\ ~subscribed
      BY <1>i, <2>1 DEF HoldsCount
    <3>2. open \notin compacting
      BY <1>12, <1>c DEF Sweep
    <3>3. QED
      BY <1>i, <3>1, <3>2 DEF WritersAreOpen
  <2>3. FileIsWhole' /\ WritersAreOpen' /\ HoldsCount'
    BY <1>12, <1>i, <2>1, <2>2 DEF Sweep, FileIsWhole, WritersAreOpen, HoldsCount
  <2>4. FileIsLog' /\ ClientInSync' /\ ToldIsStored'
    BY <1>12, <1>k, <2>2 DEF Sweep
  <2>5. QED
    BY <1>t, <2>3, <2>4 DEF IInv
<1>13. CASE Restart
  <2>1. /\ open' = 0 /\ ~loading'.active /\ holds' = 0 /\ run' = 0 /\ compacting' = {}
        /\ chunk' = <<>> /\ subscribed' = FALSE /\ UNCHANGED <<objects, seen>>
    BY <1>13 DEF Restart, NotLoading
  <2>2. /\ ~file'.torn /\ (file'.exists <=> file.exists)
        /\ \/ file'.events = file.events
           \/ /\ file.exists
              /\ Len(file'.events) = Len(file.events) + 1
              /\ \A i \in 1..Len(file.events) : file'.events[i] = file.events[i]
    <3>1. CASE file' = file
      BY <3>1, <1>i DEF FileIsWhole
    <3>2. CASE written < MaxEvents /\ \E o \in Appending : file' = WriteLine(file, written + 1, Len(objects[o]) + 1)
      <4>1. PICK o \in Appending : file' = WriteLine(file, written + 1, Len(objects[o]) + 1)
        BY <3>2
      <4>2. o = open /\ open # 0
        <5>1. o \in 1..Made /\ o = open
          BY <4>1, <1>o, <1>i DEF Appending, WritersAreOpen, IInv, TInv, Served
        <5>2. QED
          BY <5>1
      <4>3. file.exists /\ ~file.torn /\ file.events = objects[open] /\ file.events \in Seq(Ids)
        BY <4>2, <1>o, <1>i DEF FileIsLog, FileIsWhole, Files
      <4>4. file'.events = Append(file.events, written + 1) /\ file'.exists /\ ~file'.torn
        BY <4>1, <4>2, <4>3, <1>o, WholeLine
      <4>5. written + 1 \in Ids
        BY <3>2, BoundsAssumption DEF IInv, TInv, TypeOK, Ids
      <4>6. QED
        BY <4>3, <4>4, <4>5, AppendProperties
    <3>3. QED
      BY <1>13, <1>c, <3>1, <3>2 DEF Restart
  <2>3. FileIsWhole' /\ WritersAreOpen'
    BY <1>i, <2>1, <2>2 DEF FileIsWhole, WritersAreOpen
  <2>4. HoldsCount' /\ FileIsLog' /\ ClientInSync'
    BY <2>1 DEF HoldsCount, FileIsLog, ClientInSync
  <2>5. ToldIsStored'
    <3>1. Len(file.events) \in Nat /\ Len(seen) \in Nat
      BY <1>o DEF Files
    <3>2. QED
      BY <1>i, <2>1, <2>2, <3>1 DEF ToldIsStored
  <2>6. QED
    BY <1>t, <2>3, <2>4, <2>5 DEF IInv
<1>14. CASE UNCHANGED vars
  <2>1. FileIsWhole' /\ WritersAreOpen' /\ HoldsCount'
    BY <1>14, <1>i DEF vars, FileIsWhole, WritersAreOpen, HoldsCount
  <2>2. FileIsLog' /\ ClientInSync' /\ ToldIsStored'
    BY <1>14, <1>k DEF vars
  <2>3. QED
    BY <1>t, <2>1, <2>2 DEF IInv
<1>15. QED
    BY <1>1, <1>2, <1>3, <1>4, <1>5, <1>6, <1>7, <1>8, <1>9, <1>10, <1>11, <1>12, <1>13, <1>14 DEF Next

-----------------------------------------------------------------------------
\* An open session has a file, and so has one that is being loaded.
OpenIsOnDisk == (open # 0 => file.exists) /\ (loading.active => file.exists /\ open = 0)

\* A line makes a file, or leaves it there.
LEMMA LinesExist == ASSUME NEW f \in Files, NEW id, NEW seq PROVE WriteLine(f, id, seq).exists
BY DEF WriteLine, Files

\* It stays so whatever deletes race, lines are torn and summaries take their time.
LEMMA OpenStaysOnDisk == TInv /\ OpenIsOnDisk /\ [Next]_vars => OpenIsOnDisk'
<1>. SUFFICES ASSUME TInv, OpenIsOnDisk, [Next]_vars PROVE OpenIsOnDisk'
    OBVIOUS
<1>. USE DEF OpenIsOnDisk
<1>t. file \in Files
    BY DEF TInv, TypeOK
<1>a. ASSUME NEW o, AppendTo(o) PROVE file'.exists
    BY <1>t, <1>a, LinesExist DEF AppendTo
<1>1. CASE Arrive
    BY <1>1 DEF Arrive, Quiet, NotLoading
<1>2. CASE Loaded
    BY <1>2 DEF Loaded, NotLoading
<1>3. CASE Subscribe
    BY <1>3 DEF Subscribe
<1>4. CASE AppendOne \/ RunAppends
    BY <1>4, <1>a DEF AppendOne, RunAppends
<1>5. CASE Prompt \/ Compacted
    BY <1>5, <1>a DEF Prompt, Compacted
<1>6. CASE Compact
    BY <1>6 DEF Compact, memory
<1>7. CASE Delete
    BY <1>7 DEF Delete, Resumed
<1>8. CASE RunSettles \/ Unsubscribe \/ Sweep
    BY <1>8 DEF RunSettles, Unsubscribe, Sweep, memory
<1>9. CASE Restart
    BY <1>9 DEF Restart, NotLoading
<1>10. CASE UNCHANGED vars
    BY <1>10 DEF vars
<1>q. QED
    BY <1>1, <1>2, <1>3, <1>4, <1>5, <1>6, <1>7, <1>8, <1>9, <1>10 DEF Next

\* The next request's object is one that could write already, and those behind it could too.
LEMMA ResumedWrites ==
    ASSUME TInv, NEW k, Resumed(k)
    PROVE  /\ Head(chunk).object \in Writers
           /\ \A i \in 1..Len(chunk') : chunk'[i].object \in Writers \cup {0}
<1>1. /\ Head(chunk) = chunk[1] /\ 1 \in 1..Len(chunk) /\ chunk[1].object # 0
      /\ \A i \in 1..Len(chunk') : chunk'[i] = chunk[i + 1] /\ i + 1 \in 1..Len(chunk)
  <2>1. chunk \in Seq(Requests(Made)) /\ chunk # <<>> /\ ~loading.active
    BY DEF TInv, TypeOK, Resumed
  <2>2. Head(chunk) = chunk[1] /\ 1 \in 1..Len(chunk)
    BY <2>1
  <2>3. QED
    BY <2>1, <2>2, ResumedType DEF TInv, Served
<1>2. QED
    BY <1>1 DEF Writers

\* What is done with a deleted session, and how it comes to be one.
LEMMA DeletedStep ==
    ASSUME TInv, OpenIsOnDisk, [Next]_vars
    PROVE  /\ file.exists /\ ~file'.exists => run = 0
           /\ ~file.exists => Writers' \subseteq Writers /\ (file'.exists => Writers # {})
<1>t. file \in Files /\ chunk \in Seq(Requests(Made)) /\ compacting \subseteq 1..Made
    BY DEF TInv, TypeOK
<1>a. ASSUME NEW o, AppendTo(o) PROVE file'.exists
    BY <1>t, <1>a, LinesExist DEF AppendTo
\* A step that adds no writer, and writes through one if it writes.
<1>w. ASSUME run' \in Writers \cup {0}, compacting' \subseteq Writers \cup {0},
             \A i \in 1..Len(chunk') : chunk'[i].object \in Writers \cup {0}
      PROVE  Writers' \subseteq Writers
    BY <1>w DEF Writers
<1>s. /\ run \in Writers \cup {0} /\ compacting \subseteq Writers
      /\ \A i \in 1..Len(chunk) : chunk[i].object \in Writers \cup {0}
  <2>1. 0 \notin compacting
    BY <1>t
  <2>2. QED
    BY <2>1 DEF Writers
<1>1. CASE Arrive \/ Loaded
  <2>1. file.exists /\ file' = file
    BY <1>1 DEF Arrive, Loaded, OpenIsOnDisk
  <2>2. QED
    BY <2>1
<1>2. CASE Subscribe \/ AppendOne \/ Prompt \/ Compact
  <2>1. PICK k : Resumed(k)
    BY <1>2 DEF Subscribe, AppendOne, Prompt, Compact
  <2>2. /\ Head(chunk).object \in Writers
        /\ \A i \in 1..Len(chunk') : chunk'[i].object \in Writers \cup {0}
    BY <2>1, ResumedWrites
  <2>3. /\ run' \in {run, Head(chunk).object} /\ compacting' \subseteq compacting \cup {Head(chunk).object}
        /\ file' = file \/ file'.exists
    BY <1>2, <1>a DEF Subscribe, AppendOne, Prompt, Compact, memory
  <2>4. run' \in Writers \cup {0} /\ compacting' \subseteq Writers \cup {0}
    BY <1>s, <2>2, <2>3
  <2>5. Writers' \subseteq Writers
    BY <1>w, <2>2, <2>4
  <2>6. QED
    BY <2>2, <2>3, <2>5
<1>3. CASE Delete
  <2>1. \A i \in 1..Len(chunk') : chunk'[i].object \in Writers \cup {0}
    BY <1>3, ResumedWrites DEF Delete
  <2>2. /\ UNCHANGED <<run, compacting>> /\ ~NoFile.exists
        /\ file' = file \/ (run = 0 /\ file' = NoFile)
    BY <1>3 DEF Delete, NoFile
  <2>3. Writers' \subseteq Writers
    BY <1>s, <1>w, <2>1, <2>2
  <2>4. QED
    BY <2>2, <2>3
<1>4. CASE RunAppends
  <2>1. run # 0 /\ AppendTo(run) /\ UNCHANGED <<run, compacting, chunk>>
    BY <1>4 DEF RunAppends
  <2>2. Writers' = Writers /\ run \in Writers
    BY <2>1 DEF Writers
  <2>3. QED
    BY <1>a, <2>1, <2>2
<1>5. CASE Compacted
  <2>1. PICK o \in compacting :
           compacting' = compacting \ {o} /\ (AppendTo(o) \/ UNCHANGED file)
    BY <1>5 DEF Compacted
  <2>2. UNCHANGED <<run, chunk>>
    BY <1>5 DEF Compacted
  <2>3. o \in Writers /\ Writers' \subseteq Writers
    BY <1>s, <1>w, <2>1, <2>2
  <2>4. QED
    BY <1>a, <2>1, <2>3
<1>6. CASE RunSettles \/ Unsubscribe \/ Sweep \/ UNCHANGED vars
  <2>1. run' \in {run, 0} /\ UNCHANGED <<file, compacting, chunk>>
    BY <1>6 DEF RunSettles, Unsubscribe, Sweep, memory, vars
  <2>2. run' \in Writers \cup {0} /\ \A i \in 1..Len(chunk') : chunk'[i].object \in Writers \cup {0}
    BY <1>s, <2>1
  <2>3. Writers' \subseteq Writers
    BY <1>s, <1>w, <2>1, <2>2
  <2>4. QED
    BY <2>1, <2>3
<1>7. CASE Restart
  <2>1. Writers' = {}
    BY <1>7 DEF Restart, Writers
  <2>2. Appending \subseteq Writers
    <3>1. chunk # <<>> /\ ~loading.active => Head(chunk).object \in Writers
      <4>1. chunk # <<>> => Head(chunk) = chunk[1] /\ 1 \in 1..Len(chunk)
        BY <1>t
      <4>2. QED
        BY <4>1 DEF TInv, Served, Writers
    <3>2. QED
      BY <3>1 DEF Appending, Writers
  <2>3. \/ file' = file
        \/ file'.exists /\ Appending # {}
    BY <1>7, <1>t, LinesExist DEF Restart, Files
  <2>4. QED
    BY <2>1, <2>2, <2>3
<1>q. QED
    BY <1>1, <1>2, <1>3, <1>4, <1>5, <1>6, <1>7 DEF Next

\* Whatever deletes race, lines are torn and summaries take their time: no session is deleted under its
\* run, no request that comes after a deletion gets hold of the session, and only what held its object
\* at the deletion can write the log again (session.delete, Sessions.delete, JsonlStorage.append).
THEOREM NobodyGetsTheDeleted == Spec => DeletedIsLeft
<1>1. Init => TInv /\ OpenIsOnDisk
    BY TInvInit DEF Init, OpenIsOnDisk, NoFile, NotLoading
<1>2. TInv /\ OpenIsOnDisk /\ [Next]_vars => (TInv /\ OpenIsOnDisk)'
    BY TInvNext, OpenStaysOnDisk
<1>3. TInv /\ OpenIsOnDisk /\ [Next]_vars => [LeavesDeleted]_vars
    BY DeletedStep DEF LeavesDeleted
<1>4. QED
    BY <1>1, <1>2, <1>3, PTL DEF Spec, DeletedIsLeft

-----------------------------------------------------------------------------
\* While the store's assumptions hold, the invariant does.
THEOREM Invariant == ASSUME Calm PROVE Spec => []IInv
<1>1. Init => IInv
    BY IInvInit
<1>2. IInv /\ [Next]_vars => IInv'
    BY IInvNext
<1>3. QED
    BY <1>1, <1>2, PTL DEF Spec

\* No second Session object for the log is ever written through (Sessions.hold).
THEOREM OnlyOneObject == ASSUME Calm PROVE Spec => []OneObject
<1>1. IInv => OneObject
  <2>1. SUFFICES ASSUME IInv, NEW w \in Writers PROVE w = open
    BY DEF OneObject
  <2>2. QED
    BY <2>1 DEF Writers, IInv, WritersAreOpen
<1>2. QED
    BY <1>1, Invariant, PTL

\* The open session is the one on disk, a subscribed client has all of it, and
\* nobody has been told of an event that the disk has not.
THEOREM MemoryFileClient ==
    ASSUME Calm PROVE Spec => [](FileIsLog /\ ClientInSync /\ ToldIsStored)
<1>1. IInv => FileIsLog /\ ClientInSync /\ ToldIsStored
    BY DEF IInv
<1>2. QED
    BY <1>1, Invariant, PTL

\* What the Host holds of the open session in memory is what its file has, event
\* for event (Session.append, JsonlLog.append, Sessions.read).
THEOREM FileFollowsMemory == ASSUME Calm PROVE Spec => []FileIsLog
<1>1. IInv => FileIsLog
    BY DEF IInv
<1>2. QED
    BY <1>1, Invariant, PTL

\* Nobody is told of an event that is not on disk, so that a crash takes back
\* nothing that a client has seen (Session.append writes before it notifies).
THEOREM StoredBeforeTold == ASSUME Calm PROVE Spec => []ToldIsStored
<1>1. IInv => ToldIsStored
    BY DEF IInv
<1>2. QED
    BY <1>1, Invariant, PTL

\* A session is held once for its run and once for its subscription, and what
\* is held stays in memory.
THEOREM HoldsAreCounted == ASSUME Calm PROVE Spec => []HoldsCount
<1>1. IInv => HoldsCount
    BY DEF IInv
<1>2. QED
    BY <1>1, Invariant, PTL

\* What any step makes of the file: nothing, one more event, or no file at all.
LEMMA FileSteps ==
    ASSUME Calm, IInv, [Next]_vars
    PROVE  \/ UNCHANGED file
           \/ file.exists /\ \E id \in Ids : file'.events = Append(file.events, id)
           \/ Delete /\ file' = NoFile /\ seen' = <<>>
<1>. USE DEF IInv
<1>o. /\ TInv /\ file \in Files /\ objects \in Seq(Seq(Ids)) /\ open \in 0..Made
      /\ compacting \subseteq 1..Made /\ (loading.active => open = 0)
    BY DEF TInv, TypeOK
<1>1. ASSUME open # 0, NEW id, file' = WriteLine(file, id, Len(objects[open]) + 1), id \in Ids
      PROVE  file.exists /\ \E e \in Ids : file'.events = Append(file.events, e)
  <2>1. file.exists /\ ~file.torn /\ file.events = objects[open]
    BY <1>1 DEF FileIsLog, FileIsWhole
  <2>2. QED
    BY <1>o, <1>1, <2>1, WholeLine
<1>2. ASSUME open # 0, AppendTo(open)
      PROVE  file.exists /\ \E e \in Ids : file'.events = Append(file.events, e)
  <2>1. written + 1 \in Ids
    BY <1>2, BoundsAssumption DEF AppendTo, TInv, TypeOK, Ids
  <2>2. QED
    BY <1>1, <1>2, <2>1 DEF AppendTo
<1>3. ASSUME NEW k, Resumed(k)
      PROVE  Head(chunk).object = open /\ open # 0
    BY <1>3, ResumedOpen
<1>4. CASE AppendOne \/ Prompt
    BY <1>2, <1>3, <1>4 DEF AppendOne, Prompt
<1>5. CASE RunAppends \/ Compacted
  <2>1. \A o \in compacting : o = open /\ open # 0
    BY <1>o DEF WritersAreOpen
  <2>2. QED
    BY <1>2, <1>5, <2>1 DEF RunAppends, Compacted, WritersAreOpen
<1>6. CASE Delete
    BY <1>6 DEF Delete
<1>7. CASE Restart
  <2>1. ASSUME NEW o \in Appending
        PROVE  o = open /\ open # 0
    BY <1>o, <2>1 DEF Appending, WritersAreOpen, TInv, Served, TypeOK
  <2>2. written < MaxEvents => written + 1 \in Ids
    BY BoundsAssumption DEF TInv, TypeOK, Ids
  <2>3. QED
    BY <1>1, <1>7, <2>1, <2>2 DEF Restart, Calm
<1>8. CASE Arrive \/ Loaded \/ Subscribe \/ Compact \/ RunSettles \/ Unsubscribe \/ Sweep \/ UNCHANGED vars
    BY <1>8 DEF Arrive, Loaded, Subscribe, Compact, RunSettles, Unsubscribe, Sweep, vars
<1>9. QED
    BY <1>4, <1>5, <1>6, <1>7, <1>8 DEF Next

\* A client is only ever told more, until the session is deleted.
LEMMA SeenSteps ==
    ASSUME IInv, [Next]_vars
    PROVE  Len(seen) <= Len(seen') \/ (file' = NoFile /\ seen' = <<>>)
<1>1. seen \in Seq(Ids) /\ Len(seen) \in Nat /\ TInv
    BY DEF IInv, TInv, TypeOK
<1>2. ASSUME NEW o, AppendTo(o) PROVE Len(seen) <= Len(seen')
  <2>1. written + 1 \in Ids
    BY <1>2, BoundsAssumption DEF AppendTo, IInv, TInv, TypeOK, Ids
  <2>2. Len(Append(seen, written + 1)) = Len(seen) + 1
    BY <1>1, <2>1, AppendProperties
  <2>3. QED
    BY <1>1, <1>2, <2>2 DEF AppendTo, Receive
<1>3. CASE Subscribe
  <2>1. Len(seen') >= Len(seen)
    <3> DEFINE events == objects[open]
    <3>1. Head(chunk).object = open /\ open \in 1..Made
      BY <1>3, ResumedOpen DEF Subscribe
    <3>2. events \in Seq(Ids)
      BY <3>1 DEF IInv, TInv, TypeOK, Made
    <3>3. SubSeq(events, Len(seen) + 1, Len(events)) \in Seq(Ids)
      BY <1>1, <3>2, SubSeqProperties
    <3>4. seen' = seen \o SubSeq(events, Len(seen) + 1, Len(events))
      BY <1>3, <3>1 DEF Subscribe
    <3>. HIDE DEF events
    <3>5. QED
      BY <1>1, <3>3, <3>4, ConcatProperties
  <2>2. QED
    BY <1>1, <2>1
<1>4. CASE AppendOne \/ Prompt \/ RunAppends \/ Compacted
    BY <1>1, <1>2, <1>4 DEF AppendOne, Prompt, RunAppends, Compacted
<1>5. CASE Delete
    BY <1>1, <1>5 DEF Delete
<1>6. CASE Arrive \/ Loaded \/ Compact \/ RunSettles \/ Unsubscribe \/ Sweep \/ Restart \/ UNCHANGED vars
    BY <1>1, <1>6 DEF Arrive, Loaded, Compact, RunSettles, Unsubscribe, Sweep, Restart, vars
<1>7. QED
    BY <1>3, <1>4, <1>5, <1>6 DEF Next

\* A sequence that another one starts with is the beginning of it.
LEMMA PrefixIsSubSeq ==
    ASSUME NEW S, NEW s \in Seq(S), NEW e \in Seq(S),
           Len(s) <= Len(e), \A i \in 1..Len(s) : s[i] = e[i]
    PROVE  Len(s) \in 0..Len(e) /\ s = SubSeq(e, 1, Len(s))
<1> DEFINE beginning == SubSeq(e, 1, Len(s))
<1>1. Len(s) \in Nat /\ Len(e) \in Nat
    OBVIOUS
<1>2. \A i \in 1..Len(s) : e[i] \in S
    BY <1>1
<1>3. /\ beginning \in Seq(S) /\ Len(beginning) = Len(s)
      /\ \A i \in 1..Len(s) : beginning[i] = e[i]
  <2>1. /\ beginning \in Seq(S)
        /\ Len(beginning) = IF 1 <= Len(s) THEN Len(s) - 1 + 1 ELSE 0
        /\ \A i \in 1..(Len(s) - 1 + 1) : beginning[i] = e[1 + i - 1]
    BY <1>1, <1>2, SubSeqProperties
  <2>2. QED
    BY <1>1, <2>1
<1>. HIDE DEF beginning
<1>4. s = beginning
    BY <1>1, <1>3, SeqEqual
<1>5. QED
    BY <1>1, <1>4 DEF beginning

\* The store implements SessionHistory: one history that only grows until it is
\* deleted, and a client that is told nothing but a beginning of it.
THEOREM ImplementsHistory == ASSUME Calm PROVE Spec => KeepsHistory
<1>1. Init => History!Init
    BY DEF Init, NoFile, History!Init
<1>2. IInv /\ IInv' /\ [Next]_vars => [History!Next]_<<file.events, seen>>
  <2>1. SUFFICES ASSUME IInv, IInv', [Next]_vars PROVE History!Next
    OBVIOUS
  <2>2. CASE file' = NoFile /\ seen' = <<>>
    BY <2>2 DEF NoFile, History!Next, History!Forget
  <2>3. CASE Len(seen) <= Len(seen') /\ ~(file' = NoFile /\ seen' = <<>>)
    <3>1. UNCHANGED file.events \/ \E id \in Ids : file'.events = Append(file.events, id)
      BY <2>1, <2>3, FileSteps
    <3>2. /\ Len(seen') \in 0..Len(file'.events)
          /\ seen' = SubSeq(file'.events, 1, Len(seen'))
      <4>1. seen' \in Seq(Ids) /\ file'.events \in Seq(Ids)
        BY <2>1 DEF IInv, TInv, TypeOK, Files
      <4>2. Len(seen') <= Len(file'.events) /\ \A i \in 1..Len(seen') : seen'[i] = file'.events[i]
        BY <2>1 DEF IInv, ToldIsStored
      <4>3. QED
        BY <4>1, <4>2, PrefixIsSubSeq
    <3>3. Len(seen') \in Len(seen)..Len(file'.events)
      BY <2>1, <2>3, <3>2 DEF IInv, TInv, TypeOK
    <3>4. History!Advance
      BY <3>1, <3>2, <3>3 DEF History!Advance
    <3>5. QED
      BY <3>4 DEF History!Next
  <2>4. QED
    BY <2>1, <2>2, <2>3, SeenSteps
<1>3. QED
    BY <1>1, <1>2, Invariant, PTL DEF Spec, KeepsHistory, History!Spec
=============================================================================
