--------------------------- MODULE Schedule_proofs ---------------------------
(***************************************************************************)
(* Proofs about Schedule, for any tasks, slots and crashes: an occurrence  *)
(* of a task runs at most once, whatever is written and wherever the Host  *)
(* dies; and what shows as running is running.                             *)
(***************************************************************************)
EXTENDS Schedule, FiniteSetTheorems, SequenceTheorems, TLAPS

-----------------------------------------------------------------------------
(* The inductive invariant                                                 *)

UniqueIds(list) == \A i, j \in DOMAIN list : list[i].id = list[j].id => i = j
DueOf(list) == {list[i].id : i \in {j \in DOMAIN list : list[j].next = "due"}}
RunningOf(list) == {list[i].id : i \in {j \in DOMAIN list : list[j].status = "running"}}
\* Two lists agree on every task but one.
SameBut(new, list, t) == DueOf(new) \ {t} = DueOf(list) \ {t} /\ RunningOf(new) \ {t} = RunningOf(list) \ {t}
ListType(list) == list \in Seq(Task) /\ UniqueIds(list)

Types ==
  /\ up \in BOOLEAN /\ crashes \in 0..MaxCrashes
  /\ ListType(tasks) /\ ListType(tasksFile)
  /\ running \in [Tasks -> {"none", "started", "cancelled"}]
  /\ timedOut \subseteq Running /\ rest \subseteq Tasks
  /\ runsFile \in [Tasks -> Statuses] /\ torn \in BOOLEAN
  /\ owed \in [Tasks -> 0..1] /\ ended \subseteq Tasks

\* What a handler has still to write is the end of what it writes.
Triggers == {"scheduled", "manual"}
Recorded(t, g) == <<<<"record", t, "running">>, <<"execute", t, g>>>>
Prompted(t, g) == <<<<"execute", t, g>>>>
Shown(t, outcome) == <<<<"status", t, outcome>>>>
Edited(t) == <<<<"persist", t, "edit">>>>
LoadStep == ({"record"} \X Tasks \X {"interrupted"}) \cup ({"persist"} \X Tasks \X {""})

Editing == \E t \in Tasks : pending = Edited(t) /\ t \notin DueOf(tasks) /\ rest = {}
\* A scheduled run has its task's next run written before its prompt is sent, and its occurrence is owed
\* until then.
Starting ==
  \E t \in Tasks, g \in Triggers :
    /\ t \in Running
    /\ \/ pending = RunSteps(t, g) /\ (g = "scheduled" => t \in DueOf(tasks))
       \/ pending \in {Recorded(t, g), Prompted(t, g)} /\ (g = "scheduled" => owed[t] = 1 /\ t \notin DueOf(tasks))
Ending == rest = {} /\ \E t \in Tasks, outcome \in Ends : pending \in {EndSteps(t, outcome), Shown(t, outcome)}
Loading == rest = {} /\ pending \in Seq(LoadStep)
Handling == pending = <<>> \/ Editing \/ Starting \/ Ending \/ Loading

Dead == ~up => tasks = <<>> /\ pending = <<>> /\ rest = {} /\ Running = {}
\* Those that tick has still to run are due.
Chosen == \A t \in rest : t \in DueOf(tasks) /\ t \notin Running
OwedWhenDue == \A t \in Tasks : t \in DueOf(tasks) \/ t \in DueOf(tasksFile) => owed[t] = 1
FileIsList == up => tasks = tasksFile \/ \E k \in DOMAIN pending : pending[k][1] = "persist"

EndIsWritten(kind, t) ==
  \E k \in DOMAIN pending : pending[k][1] = kind /\ pending[k][2] = t /\ pending[k][3] # "running"
RunsAreShown ==
  TearsLines \/ (/\ torn = FALSE
                 /\ \A t \in Tasks : up /\ runsFile[t] = "running" => t \in Running \/ EndIsWritten("record", t))
TasksAreShown == \A t \in Tasks : t \in RunningOf(tasks) => t \in Running \/ EndIsWritten("status", t)

IInv ==
  /\ Types /\ Handling /\ Dead /\ Chosen /\ OwedWhenDue /\ FileIsList
  /\ RunsAreShown /\ TasksAreShown

-----------------------------------------------------------------------------
(* Lists of tasks                                                          *)

\* A task's entry is what the list says of it.
LEMMA EntryIs ==
  ASSUME NEW list, ListType(list), NEW t \in IdsOf(list)
  PROVE  /\ t \in Tasks /\ Entry(list, t) \in Task /\ Entry(list, t).id = t
         /\ t \in DueOf(list) <=> Entry(list, t).next = "due"
         /\ t \in RunningOf(list) <=> Entry(list, t).status = "running"
  <1> DEFINE at == CHOOSE i \in DOMAIN list : list[i].id = t
  <1>1. at \in DOMAIN list /\ list[at].id = t
    BY DEF IdsOf
  <1>2. list[at] \in Task
    BY <1>1 DEF ListType
  <1>3. \A i \in DOMAIN list : list[i].id = t => i = at
    BY <1>1 DEF ListType, UniqueIds
  <1>4. Entry(list, t) = list[at]
    BY DEF Entry
  <1> HIDE DEF at
  <1>5. QED
    BY <1>1, <1>2, <1>3, <1>4 DEF DueOf, RunningOf, Task

\* What With makes of a list: the task's entry is new, the others are as they were.
LEMMA WithIs ==
  ASSUME NEW list, ListType(list), NEW t \in IdsOf(list), NEW task \in Task, task.id = t
  PROVE  /\ ListType(With(list, t, task))
         /\ t \in DueOf(With(list, t, task)) <=> task.next = "due"
         /\ t \in RunningOf(With(list, t, task)) <=> task.status = "running"
         /\ SameBut(With(list, t, task), list, t)
  <1> DEFINE new == With(list, t, task)
  <1>1. /\ DOMAIN new = DOMAIN list
        /\ \A i \in DOMAIN list : new[i] = IF list[i].id = t THEN task ELSE list[i]
    BY DEF With
  <1>2. DOMAIN list = 1..Len(list) /\ Len(list) \in Nat /\ \A i \in DOMAIN list : list[i] \in Task
    BY DEF ListType
  <1>3. new \in Seq(Task)
    BY <1>1, <1>2 DEF With
  <1> HIDE DEF new
  <1>4. \A i \in DOMAIN list : new[i].id = list[i].id
    BY <1>1
  <1>5. UniqueIds(new)
    BY <1>1, <1>4 DEF UniqueIds, ListType
  <1>6. PICK k \in DOMAIN list : list[k].id = t
    BY DEF IdsOf
  <1>7. t \in DueOf(new) <=> task.next = "due"
    BY <1>1, <1>4, <1>6 DEF DueOf
  <1>8. t \in RunningOf(new) <=> task.status = "running"
    BY <1>1, <1>4, <1>6 DEF RunningOf
  <1>9. SameBut(new, list, t)
    BY <1>1, <1>4 DEF SameBut, DueOf, RunningOf
  <1>10. QED
    BY <1>3, <1>5, <1>7, <1>8, <1>9 DEF new, ListType

LEMMA AppendIs ==
  ASSUME NEW list, ListType(list), NEW t, t \notin IdsOf(list), NEW task \in Task, task.id = t
  PROVE  /\ ListType(Append(list, task))
         /\ t \in DueOf(Append(list, task)) <=> task.next = "due"
         /\ t \in RunningOf(Append(list, task)) <=> task.status = "running"
         /\ SameBut(Append(list, task), list, t)
  <1> DEFINE new == Append(list, task)
  <1>1. DOMAIN list = 1..Len(list) /\ Len(list) \in Nat /\ list \in Seq(Task)
    BY DEF ListType
  <1>2. /\ new \in Seq(Task) /\ DOMAIN new = 1..(Len(list) + 1)
        /\ new[Len(list) + 1] = task /\ \A i \in DOMAIN list : new[i] = list[i]
    BY <1>1
  <1> HIDE DEF new
  <1>3. \A i \in DOMAIN list : list[i].id # t
    BY DEF IdsOf
  <1>4. \A i \in DOMAIN new : i = Len(list) + 1 \/ i \in DOMAIN list
    BY <1>1, <1>2
  <1>5. Len(list) + 1 \in DOMAIN new /\ DOMAIN list \subseteq DOMAIN new
    BY <1>1, <1>2
  <1>6. UniqueIds(new)
    BY <1>2, <1>3, <1>4 DEF UniqueIds, ListType
  <1>7. t \in DueOf(new) <=> task.next = "due"
    BY <1>2, <1>3, <1>4, <1>5 DEF DueOf
  <1>8. t \in RunningOf(new) <=> task.status = "running"
    BY <1>2, <1>3, <1>4, <1>5 DEF RunningOf
  <1>9. SameBut(new, list, t)
    BY <1>2, <1>4, <1>5 DEF SameBut, DueOf, RunningOf
  <1>10. QED
    BY <1>2, <1>6, <1>7, <1>8, <1>9 DEF new, ListType

LEMMA RemoveAtIs ==
  ASSUME NEW S, NEW list \in Seq(S), NEW at \in 1..Len(list)
  PROVE  /\ RemoveAt(list, at) \in Seq(S) /\ Len(RemoveAt(list, at)) = Len(list) - 1
         /\ \A i \in 1..(at - 1) : RemoveAt(list, at)[i] = list[i]
         /\ \A i \in at..(Len(list) - 1) : RemoveAt(list, at)[i] = list[i + 1]
  <1> DEFINE a == SubSeq(list, 1, at - 1)
             b == SubSeq(list, at + 1, Len(list))
  <1>1. Len(list) \in Nat /\ \A i \in 1..Len(list) : list[i] \in S
    OBVIOUS
  <1>2. a \in Seq(S) /\ Len(a) = at - 1 /\ \A i \in 1..(at - 1) : a[i] = list[i]
    <2>1. \A i \in 1..(at - 1) : list[i] \in S
      BY <1>1
    <2>2. QED
      BY <2>1, SubSeqProperties
  <1>3. b \in Seq(S) /\ Len(b) = Len(list) - at /\ \A i \in 1..(Len(list) - at) : b[i] = list[at + i]
    <2>1. \A i \in (at + 1)..Len(list) : list[i] \in S
      BY <1>1
    <2>2. /\ b \in Seq(S) /\ Len(b) = IF at + 1 <= Len(list) THEN Len(list) - (at + 1) + 1 ELSE 0
          /\ \A i \in 1..(Len(list) - (at + 1) + 1) : b[i] = list[at + 1 + i - 1]
      BY <1>1, <2>1, SubSeqProperties
    <2>3. QED
      BY <1>1, <2>2
  <1> HIDE DEF a, b
  <1>4. RemoveAt(list, at) = a \o b
    BY DEF RemoveAt, a, b
  <1>5. /\ a \o b \in Seq(S) /\ Len(a \o b) = Len(a) + Len(b)
        /\ \A i \in 1..(Len(a) + Len(b)) : (a \o b)[i] = IF i <= Len(a) THEN a[i] ELSE b[i - Len(a)]
    BY <1>2, <1>3, ConcatProperties
  <1>6. ASSUME NEW i \in at..(Len(list) - 1)
        PROVE  (a \o b)[i] = list[i + 1]
    <2>1. /\ i \in 1..(Len(a) + Len(b)) /\ ~(i <= Len(a))
          /\ i - Len(a) \in 1..(Len(list) - at) /\ at + (i - Len(a)) = i + 1
      BY <1>1, <1>2, <1>3
    <2>2. QED
      BY <2>1, <1>3, <1>5
  <1>7. \A i \in 1..(at - 1) : (a \o b)[i] = list[i]
    <2>1. \A i \in 1..(at - 1) : i \in 1..(Len(a) + Len(b)) /\ i <= Len(a)
      BY <1>1, <1>2, <1>3
    <2>2. QED
      BY <1>2, <1>5, <2>1
  <1>8. Len(a \o b) = Len(list) - 1
    BY <1>1, <1>2, <1>3, <1>5
  <1>9. QED
    BY <1>4, <1>5, <1>6, <1>7, <1>8

\* Deletion leaves the other entries.
LEMMA RemoveIs ==
  ASSUME NEW list, ListType(list), NEW t \in IdsOf(list), NEW new,
         new = RemoveAt(list, CHOOSE i \in DOMAIN list : list[i].id = t)
  PROVE  /\ ListType(new) /\ t \notin DueOf(new) /\ t \notin RunningOf(new)
         /\ SameBut(new, list, t)
  <1> DEFINE at == CHOOSE i \in DOMAIN list : list[i].id = t
  <1>1. at \in DOMAIN list /\ list[at].id = t /\ new = RemoveAt(list, at)
    BY DEF IdsOf
  <1> HIDE DEF at
  <1>2. list \in Seq(Task) /\ Len(list) \in Nat /\ DOMAIN list = 1..Len(list)
    BY DEF ListType
  <1>3. at \in 1..Len(list)
    BY <1>1, <1>2
  <1>4. /\ new \in Seq(Task) /\ Len(new) = Len(list) - 1
        /\ \A i \in 1..(at - 1) : new[i] = list[i]
        /\ \A i \in at..(Len(list) - 1) : new[i] = list[i + 1]
    BY <1>1, <1>2, <1>3, RemoveAtIs
  <1>5. DOMAIN new = 1..(Len(list) - 1)
    <2>1. DOMAIN new = 1..Len(new)
      BY <1>4, LenProperties
    <2>2. QED
      BY <1>4, <2>1
  \* Where an entry comes from, and where it goes.
  <1> DEFINE From(i) == IF i < at THEN i ELSE i + 1
             To(j) == IF j < at THEN j ELSE j - 1
  <1>6. \A i \in DOMAIN new : From(i) \in DOMAIN list /\ From(i) # at /\ new[i] = list[From(i)]
    <2> TAKE i \in DOMAIN new
    <2>1. i \in 1..(Len(list) - 1)
      BY <1>5
    <2>2. CASE i < at
      BY <2>1, <2>2, <1>2, <1>3, <1>4
    <2>3. CASE ~(i < at)
      BY <2>1, <2>3, <1>2, <1>3, <1>4
    <2>4. QED
      BY <2>2, <2>3
  <1>7. \A j \in DOMAIN list : j # at => To(j) \in DOMAIN new /\ new[To(j)] = list[j]
    <2> TAKE j \in DOMAIN list
    <2> HAVE j # at
    <2>1. j \in 1..Len(list)
      BY <1>2
    <2>2. CASE j < at
      BY <2>1, <2>2, <1>2, <1>3, <1>4, <1>5
    <2>3. CASE ~(j < at)
      <3>1. j - 1 \in at..(Len(list) - 1) /\ (j - 1) + 1 = j
        BY <2>1, <2>3, <1>2, <1>3
      <3>2. j - 1 \in DOMAIN new /\ new[j - 1] = list[j]
        BY <3>1, <1>2, <1>3, <1>4, <1>5
      <3>3. QED
        BY <3>2, <2>3
    <2>4. QED
      BY <2>2, <2>3
  <1>8. \A i, j \in DOMAIN new : From(i) = From(j) => i = j
    BY <1>2, <1>3, <1>5
  <1> HIDE DEF From, To
  <1>9. \A j \in DOMAIN list : list[j].id = t => j = at
    BY <1>1 DEF ListType, UniqueIds
  <1>10. UniqueIds(new)
    BY <1>6, <1>8 DEF UniqueIds, ListType
  <1>11. t \notin DueOf(new) /\ t \notin RunningOf(new)
    BY <1>6, <1>9 DEF DueOf, RunningOf
  <1>12. SameBut(new, list, t)
    <2>1. \A i \in DOMAIN new : \E j \in DOMAIN list : new[i] = list[j]
      BY <1>6
    <2>2. \A j \in DOMAIN list : list[j].id # t => \E i \in DOMAIN new : new[i] = list[j]
      BY <1>1, <1>7
    <2>3. ASSUME NEW u, u # t
          PROVE  /\ u \in DueOf(new) <=> u \in DueOf(list)
                 /\ u \in RunningOf(new) <=> u \in RunningOf(list)
      <3>1. u \in DueOf(new) <=> \E i \in DOMAIN new : new[i].next = "due" /\ new[i].id = u
        BY DEF DueOf
      <3>2. u \in DueOf(list) <=> \E j \in DOMAIN list : list[j].next = "due" /\ list[j].id = u
        BY DEF DueOf
      <3>3. u \in RunningOf(new) <=> \E i \in DOMAIN new : new[i].status = "running" /\ new[i].id = u
        BY DEF RunningOf
      <3>4. u \in RunningOf(list) <=> \E j \in DOMAIN list : list[j].status = "running" /\ list[j].id = u
        BY DEF RunningOf
      <3>5. u \in DueOf(new) <=> u \in DueOf(list)
        <4>1. ASSUME u \in DueOf(new) PROVE u \in DueOf(list)
          <5>1. PICK i \in DOMAIN new : new[i].next = "due" /\ new[i].id = u
            BY <3>1, <4>1
          <5>2. PICK j \in DOMAIN list : new[i] = list[j]
            BY <2>1
          <5>3. QED
            BY <3>2, <5>1, <5>2
        <4>2. ASSUME u \in DueOf(list) PROVE u \in DueOf(new)
          <5>1. PICK j \in DOMAIN list : list[j].next = "due" /\ list[j].id = u
            BY <3>2, <4>2
          <5>2. PICK i \in DOMAIN new : new[i] = list[j]
            BY <2>2, <2>3, <5>1
          <5>3. QED
            BY <3>1, <5>1, <5>2
        <4>3. QED
          BY <4>1, <4>2
      <3>6. u \in RunningOf(new) <=> u \in RunningOf(list)
        <4>1. ASSUME u \in RunningOf(new) PROVE u \in RunningOf(list)
          <5>1. PICK i \in DOMAIN new : new[i].status = "running" /\ new[i].id = u
            BY <3>3, <4>1
          <5>2. PICK j \in DOMAIN list : new[i] = list[j]
            BY <2>1
          <5>3. QED
            BY <3>4, <5>1, <5>2
        <4>2. ASSUME u \in RunningOf(list) PROVE u \in RunningOf(new)
          <5>1. PICK j \in DOMAIN list : list[j].status = "running" /\ list[j].id = u
            BY <3>4, <4>2
          <5>2. PICK i \in DOMAIN new : new[i] = list[j]
            BY <2>2, <2>3, <5>1
          <5>3. QED
            BY <3>3, <5>1, <5>2
        <4>3. QED
          BY <4>1, <4>2
      <3>7. QED
        BY <3>5, <3>6
    <2>4. QED
      BY <2>3 DEF SameBut
  <1>13. QED
    BY <1>4, <1>10, <1>11, <1>12 DEF ListType

\* What load makes of the file shows no run.
LEMMA MarkedIs ==
  ASSUME ListType(tasksFile)
  PROVE  /\ ListType(Marked)
         /\ \A t \in Tasks : (t \in DueOf(Marked) <=> t \in DueOf(tasksFile)) /\ t \notin RunningOf(Marked)
  <1>1. /\ DOMAIN Marked = DOMAIN tasksFile
        /\ \A i \in DOMAIN tasksFile : Marked[i] = Interrupted(tasksFile[i])
    BY DEF Marked
  <1>2. /\ DOMAIN tasksFile = 1..Len(tasksFile) /\ Len(tasksFile) \in Nat
        /\ \A i \in DOMAIN tasksFile : tasksFile[i] \in Task
    BY DEF ListType
  <1>3. ASSUME NEW task \in Task
        PROVE  /\ Interrupted(task) \in Task /\ Interrupted(task).id = task.id
               /\ Interrupted(task).next = task.next /\ Interrupted(task).status # "running"
    BY DEF Interrupted, Task, Statuses
  <1>4. Marked \in Seq(Task)
    BY <1>1, <1>2, <1>3 DEF Marked
  <1>5. UniqueIds(Marked)
    BY <1>1, <1>2, <1>3 DEF UniqueIds, ListType
  <1>6. QED
    BY <1>1, <1>2, <1>3, <1>4, <1>5 DEF ListType, DueOf, RunningOf

-----------------------------------------------------------------------------
(* Every step keeps the invariant                                          *)

LEMMA Initially == Init => IInv
  <1> SUFFICES ASSUME Init PROVE IInv
    OBVIOUS
  <1>1. tasks = <<>> /\ tasksFile = <<>>
    BY DEF Init
  <1>2. Running = {}
    BY DEF Init, Running
  <1>3. ListType(tasks) /\ ListType(tasksFile)
    <2>1. <<>> \in Seq(Task) /\ DOMAIN <<>> = {}
      OBVIOUS
    <2>2. QED
      BY <1>1, <2>1 DEF ListType, UniqueIds
  <1>4. Types
    <2>1. crashes \in 0..MaxCrashes
      <3>1. crashes = 0
        BY DEF Init
      <3>2. QED
        BY <3>1, ScheduleAssumption
    <2>2. running \in [Tasks -> {"none", "started", "cancelled"}]
      BY DEF Init
    <2>3. runsFile \in [Tasks -> Statuses] /\ owed \in [Tasks -> 0..1]
      <3>1. runsFile = [t \in Tasks |-> ""] /\ "" \in Statuses
        BY DEF Init, Statuses
      <3>2. owed = [t \in Tasks |-> 0]
        BY DEF Init
      <3>3. runsFile \in [Tasks -> Statuses]
        BY <3>1
      <3>4. owed \in [Tasks -> 0..1]
        BY <3>2
      <3>5. QED
        BY <3>3, <3>4
    <2>4. QED
      BY <1>3, <2>1, <2>2, <2>3 DEF Init, Types
  <1>5. \A t \in Tasks : t \notin DueOf(tasks) /\ t \notin DueOf(tasksFile) /\ t \notin RunningOf(tasks)
    BY <1>1 DEF DueOf, RunningOf
  <1>6. Handling /\ Dead /\ Chosen /\ OwedWhenDue /\ FileIsList
    BY <1>5 DEF Init, Handling, Dead, Chosen, OwedWhenDue, FileIsList
  <1>7. RunsAreShown /\ TasksAreShown
    <2>1. \A t \in Tasks : runsFile[t] # "running"
      BY DEF Init
    <2>2. QED
      BY <1>5, <2>1 DEF Init, RunsAreShown, TasksAreShown
  <1>8. QED
    BY <1>4, <1>6, <1>7 DEF IInv

LEMMA Stutters == IInv /\ UNCHANGED vars => IInv'
  <1> SUFFICES ASSUME IInv, UNCHANGED vars PROVE IInv'
    OBVIOUS
  <1> USE DEF vars
  <1>1. Types' /\ Dead' /\ Chosen' /\ OwedWhenDue' /\ FileIsList'
    BY DEF IInv, Types, Running, Dead, Chosen, OwedWhenDue, FileIsList
  <1>2. Handling'
    BY DEF IInv, Handling, Editing, Starting, Ending, Loading, Running
  <1>3. RunsAreShown' /\ TasksAreShown'
    BY DEF IInv, RunsAreShown, TasksAreShown, Running, EndIsWritten
  <1>4. QED
    BY <1>1, <1>2, <1>3 DEF IInv

\* Between handlers nothing is left to be written.
LEMMA BetweenHandlers ==
  ASSUME IInv, up, pending = <<>>
  PROVE  /\ tasks = tasksFile
         /\ \A t \in Tasks : t \in RunningOf(tasks) => t \in Running
         /\ ~TearsLines => torn = FALSE /\ \A t \in Tasks : runsFile[t] = "running" => t \in Running
  BY DEF IInv, FileIsList, TasksAreShown, RunsAreShown, EndIsWritten

\* The first writes of each handler are of its kind, and end what has to be ended.
LEMMA FirstWrites ==
  ASSUME NEW t \in Tasks
  PROVE  /\ pending' = Edited(t) => \E k \in DOMAIN pending' : pending'[k][1] = "persist"
         /\ \A outcome \in Ends :
              /\ pending' = EndSteps(t, outcome) => EndIsWritten("record", t)' /\ EndIsWritten("status", t)'
              /\ pending' = Shown(t, outcome) => EndIsWritten("status", t)'
  <1>1. ASSUME pending' = Edited(t) PROVE \E k \in DOMAIN pending' : pending'[k][1] = "persist"
    <2>1. 1 \in DOMAIN pending' /\ pending'[1][1] = "persist"
      BY <1>1 DEF Edited
    <2>2. QED
      BY <2>1
  <1>2. ASSUME NEW outcome \in Ends, pending' = EndSteps(t, outcome)
        PROVE  EndIsWritten("record", t)' /\ EndIsWritten("status", t)'
    <2>1. /\ 1 \in DOMAIN pending' /\ pending'[1] = <<"record", t, outcome>>
          /\ 2 \in DOMAIN pending' /\ pending'[2] = <<"status", t, outcome>>
      BY <1>2 DEF EndSteps
    <2>2. outcome # "running"
      BY DEF Ends
    <2>3. QED
      BY <2>1, <2>2 DEF EndIsWritten
  <1>3. ASSUME NEW outcome \in Ends, pending' = Shown(t, outcome)
        PROVE  EndIsWritten("status", t)'
    <2>1. 1 \in DOMAIN pending' /\ pending'[1] = <<"status", t, outcome>>
      BY <1>3 DEF Shown
    <2>2. outcome # "running"
      BY DEF Ends
    <2>3. QED
      BY <2>1, <2>2 DEF EndIsWritten
  <1>4. QED
    BY <1>1, <1>2, <1>3

LEMMA SaveKeeps ==
  ASSUME IInv, NEW t \in Tasks, NEW enabled \in BOOLEAN, Save(t, enabled)
  PROVE  IInv'
  <1> DEFINE task == [id |-> t, next |-> IF enabled THEN "later" ELSE "disabled",
                      status |-> IF t \in IdsOf(tasks) THEN Entry(tasks, t).status ELSE ""]
  <1>1. /\ up /\ pending = <<>> /\ rest = {}
        /\ tasks' = IF t \in IdsOf(tasks) THEN With(tasks, t, task) ELSE Append(tasks, task)
        /\ pending' = Edited(t)
        /\ UNCHANGED <<up, crashes, running, timedOut, rest, files, owed, ended>>
    BY DEF Save, Idle, Edited
  <1>2. ListType(tasks) /\ ListType(tasksFile)
    BY DEF IInv, Types
  <1>3. task \in Task /\ task.id = t /\ task.next # "due"
        /\ (task.status = "running" => t \in IdsOf(tasks) /\ Entry(tasks, t).status = "running")
    BY <1>2, EntryIs DEF Task, Statuses
  <1> HIDE DEF task
  <1>4. /\ ListType(tasks') /\ t \notin DueOf(tasks') /\ (t \in RunningOf(tasks') => t \in RunningOf(tasks))
        /\ SameBut(tasks', tasks, t)
    <2>1. CASE t \in IdsOf(tasks)
      <3>1. tasks' = With(tasks, t, task)
        BY <1>1, <2>1
      <3>2. t \in RunningOf(tasks) <=> Entry(tasks, t).status = "running"
        BY <1>2, <2>1, EntryIs
      <3>3. /\ ListType(With(tasks, t, task))
            /\ t \in DueOf(With(tasks, t, task)) <=> task.next = "due"
            /\ t \in RunningOf(With(tasks, t, task)) <=> task.status = "running"
            /\ SameBut(With(tasks, t, task), tasks, t)
        BY <1>2, <1>3, <2>1, WithIs
      <3>4. ListType(tasks') /\ t \notin DueOf(tasks')
        BY <1>3, <3>1, <3>3
      <3>5. t \in RunningOf(tasks') => t \in RunningOf(tasks)
        BY <1>3, <3>1, <3>2, <3>3
      <3>6. SameBut(tasks', tasks, t)
        BY <3>1, <3>3
      <3>7. QED
        BY <3>4, <3>5, <3>6
    <2>2. CASE t \notin IdsOf(tasks)
      <3>1. tasks' = Append(tasks, task)
        BY <1>1, <2>2
      <3>2. QED
        BY <1>2, <1>3, <2>2, <3>1, AppendIs
    <2>3. QED
      BY <2>1, <2>2
  <1>5. \A u \in Tasks : /\ u \in DueOf(tasks') => u \in DueOf(tasks)
                         /\ u \in RunningOf(tasks') => u \in RunningOf(tasks)
    BY <1>4 DEF SameBut
  <1>6. Types'
    BY <1>1, <1>4 DEF IInv, Types, files, Running
  <1>7. Handling'
    BY <1>1, <1>4 DEF Handling, Editing
  <1>8. Dead' /\ Chosen' /\ OwedWhenDue'
    BY <1>1, <1>5 DEF IInv, Dead, Chosen, OwedWhenDue, files
  <1>9. FileIsList'
    BY <1>1, FirstWrites DEF FileIsList
  <1>10. RunsAreShown' /\ TasksAreShown'
    BY <1>1, <1>5, BetweenHandlers DEF RunsAreShown, TasksAreShown, files, Running
  <1>11. QED
    BY <1>6, <1>7, <1>8, <1>9, <1>10 DEF IInv

LEMMA DeleteKeeps ==
  ASSUME IInv, NEW t \in Tasks, Delete(t)
  PROVE  IInv'
  <1>1. /\ up /\ pending = <<>> /\ rest = {} /\ t \in IdsOf(tasks)
        /\ tasks' = RemoveAt(tasks, CHOOSE i \in DOMAIN tasks : tasks[i].id = t)
        /\ pending' = Edited(t)
        /\ running' = IF t \in Running THEN [running EXCEPT ![t] = "cancelled"] ELSE running
        /\ UNCHANGED <<up, crashes, timedOut, rest, files, owed, ended>>
    BY DEF Delete, Idle, Edited
  <1>2. ListType(tasks) /\ running \in [Tasks -> {"none", "started", "cancelled"}]
    BY DEF IInv, Types
  <1>3. ListType(tasks') /\ t \notin DueOf(tasks') /\ t \notin RunningOf(tasks') /\ SameBut(tasks', tasks, t)
    BY <1>1, <1>2, RemoveIs
  <1>4. Running' = Running /\ running' \in [Tasks -> {"none", "started", "cancelled"}]
    BY <1>1, <1>2 DEF Running
  <1>5. \A u \in Tasks : /\ u \in DueOf(tasks') => u \in DueOf(tasks)
                         /\ u \in RunningOf(tasks') => u \in RunningOf(tasks)
    BY <1>3 DEF SameBut
  <1>6. Types'
    BY <1>1, <1>3, <1>4 DEF IInv, Types, files
  <1>7. Handling'
    BY <1>1, <1>3 DEF Handling, Editing
  <1>8. Dead' /\ Chosen' /\ OwedWhenDue'
    BY <1>1, <1>5 DEF IInv, Dead, Chosen, OwedWhenDue, files
  <1>9. FileIsList'
    BY <1>1, FirstWrites DEF FileIsList
  <1>10. RunsAreShown' /\ TasksAreShown'
    BY <1>1, <1>4, <1>5, BetweenHandlers DEF RunsAreShown, TasksAreShown, files
  <1>11. QED
    BY <1>6, <1>7, <1>8, <1>9, <1>10 DEF IInv

LEMMA CancelKeeps ==
  ASSUME IInv, NEW t \in Tasks, Cancel(t)
  PROVE  IInv'
  <1>1. /\ up /\ pending = <<>> /\ rest = {} /\ running[t] = "started"
        /\ running' = [running EXCEPT ![t] = "cancelled"]
        /\ UNCHANGED <<up, crashes, tasks, timedOut, pending, rest, files, owed, ended>>
    BY DEF Cancel, Idle
  <1>2. running \in [Tasks -> {"none", "started", "cancelled"}]
    BY DEF IInv, Types
  <1>3. Running' = Running /\ running' \in [Tasks -> {"none", "started", "cancelled"}]
    BY <1>1, <1>2 DEF Running
  <1>4. Types'
    BY <1>1, <1>3 DEF IInv, Types, files
  <1>5. Handling' /\ Dead' /\ Chosen' /\ OwedWhenDue' /\ FileIsList'
    BY <1>1, <1>3 DEF IInv, Handling, Dead, Chosen, OwedWhenDue, FileIsList, files
  <1>6. RunsAreShown' /\ TasksAreShown'
    BY <1>1, <1>3, BetweenHandlers DEF RunsAreShown, TasksAreShown, files
  <1>7. QED
    BY <1>4, <1>5, <1>6 DEF IInv

\* The occurrence is owed from the moment the task is due, in memory and in the file.
LEMMA ComesDueKeeps ==
  ASSUME IInv, NEW t \in Tasks, ComesDue(t)
  PROVE  IInv'
  <1> DEFINE due == With(tasksFile, t, [Entry(tasksFile, t) EXCEPT !.next = "due"])
  <1>1. /\ (up /\ pending = <<>> /\ rest = {}) \/ ~up
        /\ t \in IdsOf(tasksFile) /\ tasksFile' = due /\ tasks' = IF up THEN due ELSE tasks
        /\ owed' = [owed EXCEPT ![t] = 1]
        /\ UNCHANGED <<up, crashes, running, timedOut, pending, rest, runsFile, torn, ended>>
    BY DEF ComesDue, Idle
  <1>2. ListType(tasks) /\ ListType(tasksFile) /\ owed \in [Tasks -> 0..1]
    BY DEF IInv, Types
  <1>3. pending = <<>> /\ rest = {} /\ (up => tasks = tasksFile) /\ (~up => tasks = <<>>)
    BY <1>1, BetweenHandlers DEF IInv, Dead
  <1>4. /\ ListType(due) /\ t \in DueOf(due)
        /\ t \in RunningOf(due) <=> t \in RunningOf(tasksFile)
        /\ SameBut(due, tasksFile, t)
    <2>1. /\ Entry(tasksFile, t) \in Task /\ Entry(tasksFile, t).id = t
          /\ t \in RunningOf(tasksFile) <=> Entry(tasksFile, t).status = "running"
      BY <1>1, <1>2, EntryIs
    <2>2. /\ [Entry(tasksFile, t) EXCEPT !.next = "due"] \in Task
          /\ [Entry(tasksFile, t) EXCEPT !.next = "due"].id = t
          /\ [Entry(tasksFile, t) EXCEPT !.next = "due"].next = "due"
          /\ [Entry(tasksFile, t) EXCEPT !.next = "due"].status = Entry(tasksFile, t).status
      BY <2>1 DEF Task
    <2>3. /\ ListType(due)
          /\ t \in DueOf(due) <=> [Entry(tasksFile, t) EXCEPT !.next = "due"].next = "due"
          /\ t \in RunningOf(due) <=> [Entry(tasksFile, t) EXCEPT !.next = "due"].status = "running"
          /\ SameBut(due, tasksFile, t)
      BY <1>1, <1>2, <2>2, WithIs
    <2>4. QED
      BY <2>1, <2>2, <2>3
  <1> HIDE DEF due
  <1>5. \A u \in Tasks : /\ u \in DueOf(due) => u = t \/ u \in DueOf(tasksFile)
                         /\ u \in RunningOf(due) => u \in RunningOf(tasksFile)
    BY <1>4 DEF SameBut
  <1>6. owed' \in [Tasks -> 0..1] /\ owed'[t] = 1 /\ \A u \in Tasks : u # t => owed'[u] = owed[u]
    BY <1>1, <1>2
  <1>7. Types'
    <2>1. ListType(tasks') /\ ListType(tasksFile')
      BY <1>1, <1>2, <1>3, <1>4
    <2>2. QED
      BY <1>1, <1>6, <2>1 DEF IInv, Types, Running
  <1>8. Handling' /\ Dead' /\ Chosen' /\ FileIsList'
    BY <1>1, <1>3 DEF IInv, Handling, Dead, Chosen, FileIsList, Running
  <1>9. OwedWhenDue'
    <2>1. \A u \in Tasks : u \in DueOf(tasks') \/ u \in DueOf(tasksFile')
                             => u = t \/ u \in DueOf(tasks) \/ u \in DueOf(tasksFile)
      BY <1>1, <1>5
    <2>2. QED
      BY <1>6, <2>1 DEF IInv, OwedWhenDue
  <1>10. RunsAreShown'
    BY <1>1 DEF IInv, RunsAreShown, Running, EndIsWritten
  <1>11. TasksAreShown'
    <2>1. CASE up
      BY <1>1, <1>3, <1>5, <2>1, BetweenHandlers DEF TasksAreShown, Running
    <2>2. CASE ~up
      BY <1>1, <1>3, <2>2 DEF IInv, TasksAreShown, Running, EndIsWritten
    <2>3. QED
      BY <2>1, <2>2
  <1>12. QED
    BY <1>7, <1>8, <1>9, <1>10, <1>11 DEF IInv

LEMMA TickKeeps ==
  ASSUME IInv, Tick
  PROVE  IInv'
  <1>1. /\ up /\ pending = <<>> /\ rest = {}
        /\ rest' \subseteq {tasks[i].id : i \in DueIn(tasks)}
        /\ UNCHANGED <<up, crashes, tasks, running, timedOut, pending, files, owed, ended>>
    BY DEF Tick, Idle, First
  <1>2. ListType(tasks)
    BY DEF IInv, Types
  <1>3. \A t \in rest' : t \in Tasks /\ t \in DueOf(tasks) /\ t \notin Running
    <2>1. \A i \in DOMAIN tasks : tasks[i] \in Task
      BY <1>2 DEF ListType
    <2>2. QED
      BY <1>1, <2>1 DEF DueIn, DueOf, Task
  <1>4. Types'
    BY <1>1, <1>3 DEF IInv, Types, files, Running
  <1>5. Chosen'
    BY <1>1, <1>3 DEF Chosen, Running
  <1>6. Handling' /\ Dead' /\ OwedWhenDue' /\ FileIsList'
    BY <1>1 DEF IInv, Handling, Dead, OwedWhenDue, FileIsList, files
  <1>7. RunsAreShown' /\ TasksAreShown'
    BY <1>1, BetweenHandlers DEF RunsAreShown, TasksAreShown, files, Running
  <1>8. QED
    BY <1>4, <1>5, <1>6, <1>7 DEF IInv

\* A run that starts: by tick, of a task that is due, or by hand.
LEMMA RunStartsKeeps ==
  ASSUME IInv, up, pending = <<>>, NEW t \in Tasks, NEW g \in Triggers, t \notin Running,
         g = "scheduled" => t \in DueOf(tasks),
         running' = [running EXCEPT ![t] = "started"], pending' = RunSteps(t, g), rest' = rest \ {t},
         UNCHANGED <<up, crashes, tasks, timedOut, files, owed, ended>>
  PROVE  IInv'
  <1>1. running \in [Tasks -> {"none", "started", "cancelled"}]
    BY DEF IInv, Types
  <1>2. Running' = Running \cup {t} /\ running' \in [Tasks -> {"none", "started", "cancelled"}]
    BY <1>1 DEF Running
  <1>3. Types'
    BY <1>2 DEF IInv, Types, files
  <1>4. Handling'
    BY <1>2 DEF Handling, Starting
  <1>5. Dead' /\ Chosen' /\ OwedWhenDue'
    BY <1>2 DEF IInv, Dead, Chosen, OwedWhenDue, files
  <1>6. FileIsList'
    BY BetweenHandlers DEF FileIsList, files
  <1>7. RunsAreShown' /\ TasksAreShown'
    BY <1>2, BetweenHandlers DEF RunsAreShown, TasksAreShown, files
  <1>8. QED
    BY <1>3, <1>4, <1>5, <1>6, <1>7 DEF IInv

LEMMA RunNextKeeps ==
  ASSUME IInv, RunNext
  PROVE  IInv'
  <1>1. PICK i \in DOMAIN tasks :
          /\ tasks[i].id \in rest
          /\ running' = [running EXCEPT ![tasks[i].id] = "started"]
          /\ pending' = RunSteps(tasks[i].id, "scheduled")
          /\ rest' = rest \ {tasks[i].id}
    BY DEF RunNext
  <1>2. up /\ pending = <<>> /\ UNCHANGED <<up, crashes, tasks, timedOut, files, owed, ended>>
    BY DEF RunNext
  <1>3. tasks[i].id \in Tasks /\ tasks[i].id \in DueOf(tasks) /\ tasks[i].id \notin Running
    BY <1>1 DEF IInv, Types, Chosen
  <1>4. "scheduled" \in Triggers
    BY DEF Triggers
  <1>5. QED
    BY <1>1, <1>2, <1>3, <1>4, RunStartsKeeps

LEMMA RunNowKeeps ==
  ASSUME IInv, NEW t \in Tasks, RunNow(t)
  PROVE  IInv'
  <1>1. /\ up /\ pending = <<>> /\ rest = {} /\ t \notin Running
        /\ running' = [running EXCEPT ![t] = "started"] /\ pending' = RunSteps(t, "manual")
        /\ UNCHANGED <<up, crashes, tasks, timedOut, rest, files, owed, ended>>
    BY DEF RunNow, Idle
  <1>2. "manual" \in Triggers /\ "manual" # "scheduled" /\ rest' = rest \ {t}
    BY <1>1 DEF Triggers
  <1>3. QED
    BY <1>1, <1>2, RunStartsKeeps

LEMMA TimeoutKeeps ==
  ASSUME IInv, NEW t \in Tasks, Timeout(t)
  PROVE  IInv'
  <1>1. /\ up /\ pending = <<>> /\ rest = {} /\ t \in Running
        /\ timedOut' = timedOut \cup {t}
        /\ UNCHANGED <<up, crashes, tasks, running, pending, rest, files, owed, ended>>
    BY DEF Timeout, Idle
  <1>2. Types'
    BY <1>1 DEF IInv, Types, files, Running
  <1>3. Handling' /\ Dead' /\ Chosen' /\ OwedWhenDue' /\ FileIsList'
    BY <1>1 DEF IInv, Handling, Dead, Chosen, OwedWhenDue, FileIsList, files, Running
  <1>4. RunsAreShown' /\ TasksAreShown'
    BY <1>1, BetweenHandlers DEF RunsAreShown, TasksAreShown, files, Running
  <1>5. QED
    BY <1>2, <1>3, <1>4 DEF IInv

LEMMA RunEndsKeeps ==
  ASSUME IInv, NEW t \in Tasks, RunEnds(t)
  PROVE  IInv'
  <1>1. /\ up /\ pending = <<>> /\ rest = {}
        /\ running' = [running EXCEPT ![t] = "none"] /\ timedOut' = timedOut \ {t}
        /\ UNCHANGED <<up, crashes, tasks, rest, files, owed, ended>>
    BY DEF RunEnds, Idle
  <1>2. PICK outcome \in Ends : pending' = EndSteps(t, outcome)
    <2>1. Outcomes(t) \subseteq Ends
      BY DEF Outcomes, Ends
    <2>2. QED
      BY <2>1 DEF RunEnds
  <1>3. running \in [Tasks -> {"none", "started", "cancelled"}] /\ timedOut \subseteq Running
    BY DEF IInv, Types
  <1>4. Running' = Running \ {t} /\ running' \in [Tasks -> {"none", "started", "cancelled"}]
    BY <1>1, <1>3 DEF Running
  <1>5. EndIsWritten("record", t)' /\ EndIsWritten("status", t)'
    BY <1>2, FirstWrites
  <1>6. Types'
    BY <1>1, <1>3, <1>4 DEF IInv, Types, files
  <1>7. Handling'
    BY <1>1, <1>2 DEF Handling, Ending
  <1>8. Dead' /\ Chosen' /\ OwedWhenDue' /\ FileIsList'
    BY <1>1, BetweenHandlers DEF IInv, Dead, Chosen, OwedWhenDue, FileIsList, files
  <1>9. RunsAreShown' /\ TasksAreShown'
    BY <1>1, <1>4, <1>5, BetweenHandlers DEF RunsAreShown, TasksAreShown, files
  <1>10. QED
    BY <1>6, <1>7, <1>8, <1>9 DEF IInv

-----------------------------------------------------------------------------
(* The writes of a handler                                                 *)

Steps == {"persist", "start", "record", "status", "execute"} \X Tasks \X (Statuses \cup Triggers \cup {"edit"})

\* What is left of each handler's writes after the first of them.
LEMMA Shapes ==
  ASSUME NEW t \in Tasks, NEW g \in Ends \cup Triggers
  PROVE  /\ RunSteps(t, g) \in Seq(Steps) /\ RunSteps(t, g) # <<>>
         /\ Head(RunSteps(t, g)) = <<"start", t, g>> /\ Tail(RunSteps(t, g)) = Recorded(t, g)
         /\ Recorded(t, g) \in Seq(Steps) /\ Recorded(t, g) # <<>>
         /\ Head(Recorded(t, g)) = <<"record", t, "running">> /\ Tail(Recorded(t, g)) = Prompted(t, g)
         /\ Prompted(t, g) \in Seq(Steps) /\ Prompted(t, g) # <<>>
         /\ Head(Prompted(t, g)) = <<"execute", t, g>> /\ Tail(Prompted(t, g)) = <<>>
         /\ EndSteps(t, g) \in Seq(Steps) /\ EndSteps(t, g) # <<>>
         /\ Head(EndSteps(t, g)) = <<"record", t, g>> /\ Tail(EndSteps(t, g)) = Shown(t, g)
         /\ Shown(t, g) \in Seq(Steps) /\ Shown(t, g) # <<>>
         /\ Head(Shown(t, g)) = <<"status", t, g>> /\ Tail(Shown(t, g)) = <<>>
         /\ Edited(t) \in Seq(Steps) /\ Edited(t) # <<>>
         /\ Head(Edited(t)) = <<"persist", t, "edit">> /\ Tail(Edited(t)) = <<>>
  <1>1. /\ g \in Statuses \cup Triggers \cup {"edit"} /\ "running" \in Statuses \cup Triggers \cup {"edit"}
        /\ "edit" \in Statuses \cup Triggers \cup {"edit"}
    BY DEF Statuses
  <1>2. /\ <<"start", t, g>> \in Steps /\ <<"record", t, "running">> \in Steps /\ <<"execute", t, g>> \in Steps
        /\ <<"record", t, g>> \in Steps /\ <<"status", t, g>> \in Steps /\ <<"persist", t, "edit">> \in Steps
    BY <1>1 DEF Steps
  <1>3. ASSUME NEW a \in Steps
        PROVE  <<a>> \in Seq(Steps) /\ <<a>> # <<>> /\ Head(<<a>>) = a /\ Tail(<<a>>) = <<>>
    OBVIOUS
  <1>4. ASSUME NEW a \in Steps, NEW b \in Steps
        PROVE  <<a, b>> \in Seq(Steps) /\ <<a, b>> # <<>> /\ Head(<<a, b>>) = a /\ Tail(<<a, b>>) = <<b>>
    OBVIOUS
  <1>5. ASSUME NEW a \in Steps, NEW b \in Steps, NEW c \in Steps
        PROVE  /\ <<a, b, c>> \in Seq(Steps) /\ <<a, b, c>> # <<>>
               /\ Head(<<a, b, c>>) = a /\ Tail(<<a, b, c>>) = <<b, c>>
    OBVIOUS
  <1>6. QED
    BY <1>2, <1>3, <1>4, <1>5 DEF RunSteps, Recorded, Prompted, EndSteps, Shown, Edited

LEMMA LoadWrites ==
  ASSUME pending \in Seq(LoadStep), pending # <<>>
  PROVE  /\ pending \in Seq(Steps) /\ Tail(pending) \in Seq(LoadStep)
         /\ Head(pending)[2] \in Tasks
         /\ \/ Head(pending)[1] = "record" /\ Head(pending)[3] = "interrupted"
            \/ Head(pending)[1] = "persist" /\ Head(pending)[3] = ""
  <1>1. Head(pending) \in LoadStep /\ Tail(pending) \in Seq(LoadStep)
    BY HeadTailProperties
  <1>2. LoadStep \subseteq Steps
    BY DEF LoadStep, Steps, Statuses
  <1>3. pending \in Seq(Steps)
    BY <1>2
  <1>4. QED
    BY <1>1, <1>3 DEF LoadStep

\* The kind of the next write says which handler it is of.
LEMMA WhoseWrite ==
  ASSUME Handling, pending # <<>>, NEW kind, Head(pending)[1] = kind
  PROVE  /\ pending \in Seq(Steps)
         /\ kind = "persist" =>
              Loading \/ (rest = {} /\ \E t \in Tasks : pending = Edited(t) /\ t \notin DueOf(tasks))
         /\ kind = "start" => \E t \in Tasks, g \in Triggers :
              t \in Running /\ pending = RunSteps(t, g) /\ (g = "scheduled" => t \in DueOf(tasks))
         /\ kind = "record" =>
              \/ Loading
              \/ rest = {} /\ \E t \in Tasks, outcome \in Ends : pending = EndSteps(t, outcome)
              \/ \E t \in Tasks, g \in Triggers :
                   /\ t \in Running /\ pending = Recorded(t, g)
                   /\ g = "scheduled" => owed[t] = 1 /\ t \notin DueOf(tasks)
         /\ kind = "status" => rest = {} /\ \E t \in Tasks, outcome \in Ends : pending = Shown(t, outcome)
         /\ kind = "execute" => \E t \in Tasks, g \in Triggers :
              t \in Running /\ pending = Prompted(t, g) /\ (g = "scheduled" => owed[t] = 1 /\ t \notin DueOf(tasks))
  <1>1. CASE Loading
    <2>1. pending \in Seq(LoadStep)
      BY <1>1 DEF Loading
    <2>2. QED
      BY <1>1, <2>1, LoadWrites
  <1>2. CASE Editing
    <2>1. PICK t \in Tasks : pending = Edited(t) /\ t \notin DueOf(tasks) /\ rest = {}
      BY <1>2 DEF Editing
    <2>2. "manual" \in Ends \cup Triggers
      BY DEF Triggers
    <2>3. pending \in Seq(Steps) /\ kind = "persist"
      BY <2>1, <2>2, Shapes
    <2>4. QED
      BY <2>1, <2>3
  <1>3. CASE Ending
    <2>1. PICK t \in Tasks, outcome \in Ends : pending \in {EndSteps(t, outcome), Shown(t, outcome)}
      BY <1>3 DEF Ending
    <2>2. rest = {}
      BY <1>3 DEF Ending
    <2>3. CASE pending = EndSteps(t, outcome)
      <3>1. pending \in Seq(Steps) /\ kind = "record"
        BY <2>3, Shapes
      <3>2. QED
        BY <2>2, <2>3, <3>1
    <2>4. CASE pending = Shown(t, outcome)
      <3>1. pending \in Seq(Steps) /\ kind = "status"
        BY <2>4, Shapes
      <3>2. QED
        BY <2>2, <2>4, <3>1
    <2>5. QED
      BY <2>1, <2>3, <2>4
  <1>4. CASE Starting
    <2>1. PICK t \in Tasks, g \in Triggers :
            /\ t \in Running
            /\ \/ pending = RunSteps(t, g) /\ (g = "scheduled" => t \in DueOf(tasks))
               \/ /\ pending \in {Recorded(t, g), Prompted(t, g)}
                  /\ g = "scheduled" => owed[t] = 1 /\ t \notin DueOf(tasks)
      BY <1>4 DEF Starting
    <2>2. CASE pending = RunSteps(t, g) /\ (g = "scheduled" => t \in DueOf(tasks))
      <3>1. pending \in Seq(Steps) /\ kind = "start"
        BY <2>2, Shapes
      <3>2. QED
        BY <2>1, <2>2, <3>1
    <2>3. CASE pending = Recorded(t, g) /\ (g = "scheduled" => owed[t] = 1 /\ t \notin DueOf(tasks))
      <3>1. pending \in Seq(Steps) /\ kind = "record"
        BY <2>3, Shapes
      <3>2. QED
        BY <2>1, <2>3, <3>1
    <2>4. CASE pending = Prompted(t, g) /\ (g = "scheduled" => owed[t] = 1 /\ t \notin DueOf(tasks))
      <3>1. pending \in Seq(Steps) /\ kind = "execute"
        BY <2>4, Shapes
      <3>2. QED
        BY <2>1, <2>4, <3>1
    <2>5. QED
      BY <2>1, <2>2, <2>3, <2>4
  <1>5. QED
    BY <1>1, <1>2, <1>3, <1>4 DEF Handling

\* What is left after a write is what was there, but for that write.
LEMMA Left ==
  ASSUME NEW S, pending \in Seq(S), pending # <<>>, pending' = Tail(pending)
  PROVE  \A k \in DOMAIN pending : \/ k = 1 /\ pending[k] = Head(pending)
                                   \/ k - 1 \in DOMAIN pending' /\ pending'[k - 1] = pending[k]
  <1>1. /\ Tail(pending) \in Seq(S) /\ Len(Tail(pending)) = Len(pending) - 1
        /\ \A i \in 1..Len(Tail(pending)) : Tail(pending)[i] = pending[i + 1]
        /\ Head(pending) = pending[1]
    BY HeadTailProperties
  <1>2. Len(pending) \in Nat /\ DOMAIN pending = 1..Len(pending) /\ DOMAIN Tail(pending) = 1..Len(Tail(pending))
    BY <1>1
  <1>3. TAKE k \in DOMAIN pending
  <1>4. CASE k = 1
    BY <1>1, <1>4
  <1>5. CASE k # 1
    <2>1. k - 1 \in 1..Len(Tail(pending)) /\ (k - 1) + 1 = k
      BY <1>1, <1>2, <1>5
    <2>2. QED
      BY <1>1, <1>2, <2>1
  <1>6. QED
    BY <1>4, <1>5

\* A write of another kind, or for another task, leaves the end to be written.
LEMMA EndIsLeft ==
  ASSUME NEW S, pending \in Seq(S), pending # <<>>, pending' = Tail(pending),
         NEW kind, NEW t, EndIsWritten(kind, t), Head(pending)[1] # kind \/ Head(pending)[2] # t
  PROVE  EndIsWritten(kind, t)'
  <1>1. PICK k \in DOMAIN pending : pending[k][1] = kind /\ pending[k][2] = t /\ pending[k][3] # "running"
    BY DEF EndIsWritten
  <1>2. k - 1 \in DOMAIN pending' /\ pending'[k - 1] = pending[k]
    BY <1>1, Left
  <1>3. QED
    BY <1>1, <1>2 DEF EndIsWritten

\* A run that starts has no end of a run, and no list, to be written.
LEMMA StartingWrites ==
  ASSUME IInv, up, NEW t \in Tasks, NEW g \in Triggers, pending \in {RunSteps(t, g), Recorded(t, g), Prompted(t, g)}
  PROVE  /\ tasks = tasksFile
         /\ \A u \in Tasks : u \in RunningOf(tasks) => u \in Running
         /\ ~TearsLines => \A u \in Tasks : runsFile[u] = "running" => u \in Running
  <1>1. \A k \in DOMAIN pending : \/ pending[k] = <<"start", t, g>>
                                  \/ pending[k] = <<"record", t, "running">>
                                  \/ pending[k] = <<"execute", t, g>>
    <2>1. CASE pending = RunSteps(t, g)
      BY <2>1 DEF RunSteps
    <2>2. CASE pending = Recorded(t, g)
      BY <2>2 DEF Recorded
    <2>3. CASE pending = Prompted(t, g)
      BY <2>3 DEF Prompted
    <2>4. QED
      BY <2>1, <2>2, <2>3
  <1>2. \A k \in DOMAIN pending : /\ pending[k][1] # "persist" /\ pending[k][1] # "status"
                                  /\ pending[k][1] = "record" => pending[k][3] = "running"
    BY <1>1
  <1>3. QED
    BY <1>2 DEF IInv, FileIsList, RunsAreShown, TasksAreShown, EndIsWritten

\* A run that ended has no list to be written, and after its record no record.
LEMMA EndingWrites ==
  ASSUME IInv, up, NEW t \in Tasks, NEW outcome \in Ends, pending \in {EndSteps(t, outcome), Shown(t, outcome)}
  PROVE  /\ tasks = tasksFile
         /\ \A u \in Tasks : u \in RunningOf(tasks) => u \in Running \/ u = t
         /\ ~TearsLines => \A u \in Tasks : runsFile[u] = "running" =>
              u \in Running \/ (u = t /\ pending = EndSteps(t, outcome))
  <1>1. \A k \in DOMAIN pending : \/ pending[k] = <<"record", t, outcome>> /\ pending = EndSteps(t, outcome)
                                  \/ pending[k] = <<"status", t, outcome>>
    <2>1. CASE pending = EndSteps(t, outcome)
      BY <2>1 DEF EndSteps
    <2>2. CASE pending = Shown(t, outcome)
      BY <2>2 DEF Shown
    <2>3. QED
      BY <2>1, <2>2
  <1>2. \A k \in DOMAIN pending : /\ pending[k][1] # "persist" /\ pending[k][2] = t
                                  /\ pending[k][1] = "record" => pending = EndSteps(t, outcome)
    BY <1>1
  <1>3. QED
    BY <1>2 DEF IInv, FileIsList, RunsAreShown, TasksAreShown, EndIsWritten

\* updateTask: the task shows its status, in memory and in the file.
LEMMA UpdateIs ==
  ASSUME ListType(tasks), tasks = tasksFile, NEW status \in Statuses, NEW starts \in BOOLEAN,
         NEW t \in Tasks, Of = t, UpdateTask(status, starts)
  PROVE  /\ ListType(tasks') /\ tasksFile' = tasks'
         /\ \A u \in Tasks : u \in DueOf(tasks') => u \in DueOf(tasks) /\ ~(starts /\ u = t)
         /\ \A u \in Tasks : u # t /\ u \in DueOf(tasks) => u \in DueOf(tasks')
         /\ \A u \in Tasks : u \in RunningOf(tasks') => IF u = t THEN status = "running" ELSE u \in RunningOf(tasks)
  <1>1. CASE t \notin IdsOf(tasks)
    <2>1. tasks' = tasks /\ tasksFile' = tasks
      BY <1>1 DEF UpdateTask
    <2>2. t \notin DueOf(tasks) /\ t \notin RunningOf(tasks)
      BY <1>1 DEF DueOf, RunningOf, IdsOf
    <2>3. QED
      BY <2>1, <2>2
  <1>2. CASE t \in IdsOf(tasks)
    <2> DEFINE task == [Entry(tasks, t) EXCEPT !.status = status, !.next = IF starts THEN "later" ELSE @]
    <2>1. tasks' = With(tasks, t, task) /\ tasksFile' = tasks'
      BY <1>2 DEF UpdateTask
    <2>2. /\ Entry(tasks, t) \in Task /\ Entry(tasks, t).id = t
          /\ t \in DueOf(tasks) <=> Entry(tasks, t).next = "due"
      BY <1>2, EntryIs
    <2>3. /\ task \in Task /\ task.id = t /\ task.status = status
          /\ task.next = IF starts THEN "later" ELSE Entry(tasks, t).next
      BY <2>2 DEF Task
    <2> HIDE DEF task
    <2>4. /\ ListType(tasks')
          /\ t \in DueOf(tasks') <=> task.next = "due"
          /\ t \in RunningOf(tasks') <=> task.status = "running"
          /\ SameBut(tasks', tasks, t)
      BY <1>2, <2>1, <2>3, WithIs
    <2>5. \A u \in Tasks : u # t => /\ u \in DueOf(tasks') <=> u \in DueOf(tasks)
                                    /\ u \in RunningOf(tasks') <=> u \in RunningOf(tasks)
      BY <2>4 DEF SameBut
    <2>6. QED
      BY <2>1, <2>2, <2>3, <2>4, <2>5
  <1>3. QED
    BY <1>1, <1>2

\* The next run of a scheduled task is in the file before its prompt is sent.
LEMMA StartTaskKeeps ==
  ASSUME IInv, StartTask
  PROVE  IInv'
  <1>1. /\ up /\ pending # <<>> /\ Head(pending)[1] = "start" /\ pending' = Tail(pending)
        /\ UpdateTask("running", Argument = "scheduled") /\ ended' = ended \ {Of}
    BY DEF StartTask, Step
  <1>2. UNCHANGED <<up, crashes, running, timedOut, rest, runsFile, torn, owed>>
    BY <1>1 DEF UpdateTask
  <1>3. PICK t \in Tasks, g \in Triggers :
          t \in Running /\ pending = RunSteps(t, g) /\ (g = "scheduled" => t \in DueOf(tasks))
    BY <1>1, WhoseWrite DEF IInv
  <1>4. pending' = Recorded(t, g) /\ Of = t /\ Argument = g
    <2>1. Head(RunSteps(t, g)) = <<"start", t, g>> /\ Tail(RunSteps(t, g)) = Recorded(t, g)
      BY Shapes
    <2>2. QED
      BY <1>1, <1>3, <2>1 DEF Of, Argument
  <1>5. /\ tasks = tasksFile
        /\ \A u \in Tasks : u \in RunningOf(tasks) => u \in Running
        /\ ~TearsLines => \A u \in Tasks : runsFile[u] = "running" => u \in Running
    BY <1>1, <1>3, StartingWrites
  <1>6. ListType(tasks) /\ "running" \in Statuses
    BY DEF IInv, Types, Statuses
  <1>7. /\ ListType(tasks') /\ tasksFile' = tasks'
        /\ \A u \in Tasks : u \in DueOf(tasks') => u \in DueOf(tasks) /\ ~(g = "scheduled" /\ u = t)
        /\ \A u \in Tasks : u # t /\ u \in DueOf(tasks) => u \in DueOf(tasks')
        /\ \A u \in Tasks : u \in RunningOf(tasks') => u = t \/ u \in RunningOf(tasks)
    BY <1>1, <1>4, <1>5, <1>6, UpdateIs
  <1>8. Types'
    BY <1>1, <1>2, <1>7 DEF IInv, Types, Running
  <1>9. g = "scheduled" => owed[t] = 1
    BY <1>3 DEF IInv, OwedWhenDue
  <1>10. Handling'
    BY <1>2, <1>3, <1>4, <1>7, <1>9 DEF Handling, Starting, Running
  <1>11. Chosen'
    BY <1>2, <1>3, <1>7 DEF IInv, Types, Chosen, Running
  <1>12. Dead' /\ OwedWhenDue' /\ FileIsList'
    BY <1>1, <1>2, <1>7 DEF IInv, Dead, OwedWhenDue, FileIsList
  <1>13. RunsAreShown' /\ TasksAreShown'
    BY <1>2, <1>3, <1>5, <1>7 DEF IInv, RunsAreShown, TasksAreShown, Running
  <1>14. QED
    BY <1>8, <1>10, <1>11, <1>12, <1>13 DEF IInv

LEMMA ShowEndKeeps ==
  ASSUME IInv, ShowEnd
  PROVE  IInv'
  <1>1. /\ up /\ pending # <<>> /\ Head(pending)[1] = "status" /\ pending' = Tail(pending)
        /\ UpdateTask(Argument, FALSE) /\ ended' = ended
    BY DEF ShowEnd, Step
  <1>2. UNCHANGED <<up, crashes, running, timedOut, rest, runsFile, torn, owed>>
    BY <1>1 DEF UpdateTask
  <1>3. rest = {} /\ \E t \in Tasks, outcome \in Ends : pending = Shown(t, outcome)
    BY <1>1, WhoseWrite DEF IInv
  <1>4. PICK t \in Tasks, outcome \in Ends : pending = Shown(t, outcome)
    BY <1>3
  <1>5. pending' = <<>> /\ Of = t /\ Argument = outcome
    <2>1. Head(Shown(t, outcome)) = <<"status", t, outcome>> /\ Tail(Shown(t, outcome)) = <<>>
      BY Shapes
    <2>2. QED
      BY <1>1, <1>4, <2>1 DEF Of, Argument
  <1>6. /\ tasks = tasksFile
        /\ \A u \in Tasks : u \in RunningOf(tasks) => u \in Running \/ u = t
        /\ ~TearsLines => \A u \in Tasks : runsFile[u] = "running" => u \in Running
    <2>1. pending # EndSteps(t, outcome)
      <3>1. Head(EndSteps(t, outcome)) = <<"record", t, outcome>>
        BY Shapes
      <3>2. QED
        BY <1>1, <3>1
    <2>2. QED
      BY <1>1, <1>4, <2>1, EndingWrites
  <1>7. ListType(tasks) /\ outcome \in Statuses /\ outcome # "running"
    BY DEF IInv, Types, Statuses, Ends
  <1>8. /\ ListType(tasks') /\ tasksFile' = tasks'
        /\ \A u \in Tasks : u \in DueOf(tasks') => u \in DueOf(tasks)
        /\ \A u \in Tasks : u \in RunningOf(tasks') => IF u = t THEN outcome = "running" ELSE u \in RunningOf(tasks)
    BY <1>1, <1>5, <1>6, <1>7, UpdateIs
  <1>9. Types'
    BY <1>1, <1>2, <1>8 DEF IInv, Types, Running
  <1>10. Handling' /\ Dead' /\ Chosen' /\ FileIsList'
    BY <1>1, <1>2, <1>3, <1>5, <1>8 DEF IInv, Handling, Dead, Chosen, FileIsList
  <1>11. OwedWhenDue'
    BY <1>2, <1>8 DEF IInv, OwedWhenDue
  <1>12. RunsAreShown' /\ TasksAreShown'
    BY <1>2, <1>6, <1>7, <1>8 DEF IInv, RunsAreShown, TasksAreShown, Running
  <1>13. QED
    BY <1>9, <1>10, <1>11, <1>12 DEF IInv

LEMMA PersistKeeps ==
  ASSUME IInv, Persist
  PROVE  IInv'
  <1>1. /\ up /\ pending # <<>> /\ Head(pending)[1] = "persist" /\ pending' = Tail(pending)
        /\ tasksFile' = tasks
        /\ owed' = IF Argument = "edit" THEN [owed EXCEPT ![Of] = 0] ELSE owed
        /\ UNCHANGED <<up, crashes, tasks, running, timedOut, rest, runsFile, torn, ended>>
    BY DEF Persist, Step
  <1>2. /\ pending \in Seq(Steps)
        /\ Loading \/ (rest = {} /\ \E t \in Tasks : pending = Edited(t) /\ t \notin DueOf(tasks))
    BY <1>1, WhoseWrite DEF IInv
  <1>3. rest = {} /\ Handling' /\ (\A u \in Tasks : u \in DueOf(tasks) => owed'[u] = 1) /\ owed' \in [Tasks -> 0..1]
    <2>1. owed \in [Tasks -> 0..1] /\ \A u \in Tasks : u \in DueOf(tasks) => owed[u] = 1
      BY DEF IInv, Types, OwedWhenDue
    <2>2. CASE Loading
      <3>1. Tail(pending) \in Seq(LoadStep) /\ Argument = ""
        BY <1>1, <2>2, LoadWrites DEF Loading, Argument
      <3>2. owed' = owed
        BY <1>1, <3>1
      <3>3. Handling'
        BY <1>1, <2>2, <3>1 DEF Handling, Loading
      <3>4. QED
        BY <2>1, <2>2, <3>2, <3>3 DEF Loading
    <2>3. ASSUME rest = {}, NEW t \in Tasks, pending = Edited(t), t \notin DueOf(tasks)
          PROVE  /\ rest = {} /\ Handling' /\ (\A u \in Tasks : u \in DueOf(tasks) => owed'[u] = 1)
                 /\ owed' \in [Tasks -> 0..1]
      <3>1. "manual" \in Ends \cup Triggers
        BY DEF Triggers
      <3>2. pending' = <<>> /\ Of = t
        <4>1. Head(Edited(t)) = <<"persist", t, "edit">> /\ Tail(Edited(t)) = <<>>
          BY <3>1, Shapes
        <4>2. QED
          BY <1>1, <2>3, <4>1 DEF Of
      <3>3. Handling'
        BY <3>2 DEF Handling
      <3>4. \A u \in Tasks : u # t => owed'[u] = owed[u]
        BY <1>1, <2>1, <3>2
      <3>5. owed' \in [Tasks -> 0..1]
        BY <1>1, <2>1, <3>2
      <3>6. QED
        BY <2>1, <2>3, <3>3, <3>4, <3>5
    <2>4. QED
      BY <1>2, <2>2, <2>3
  <1>4. Types'
    BY <1>1, <1>3 DEF IInv, Types, Running
  <1>5. Dead' /\ Chosen' /\ OwedWhenDue' /\ FileIsList'
    BY <1>1, <1>3 DEF IInv, Dead, Chosen, OwedWhenDue, FileIsList
  <1>6. \A u \in Tasks : /\ EndIsWritten("record", u) => EndIsWritten("record", u)'
                         /\ EndIsWritten("status", u) => EndIsWritten("status", u)'
    BY <1>1, <1>2, EndIsLeft
  <1>7. RunsAreShown' /\ TasksAreShown'
    BY <1>1, <1>6 DEF IInv, RunsAreShown, TasksAreShown, Running
  <1>8. QED
    BY <1>3, <1>4, <1>5, <1>7 DEF IInv

LEMMA RecordRunKeeps ==
  ASSUME IInv, RecordRun
  PROVE  IInv'
  <1>1. /\ up /\ pending # <<>> /\ Head(pending)[1] = "record" /\ pending' = Tail(pending)
        /\ runsFile' = IF torn THEN runsFile ELSE [runsFile EXCEPT ![Of] = Argument]
        /\ torn' = FALSE
        /\ ended' = IF Argument \in Ends THEN ended \cup {Of} ELSE ended
        /\ UNCHANGED <<up, crashes, tasks, running, timedOut, rest, tasksFile, owed>>
    BY DEF RecordRun, Step
  <1>2. /\ pending \in Seq(Steps)
        /\ \/ Loading
           \/ rest = {} /\ \E t \in Tasks, outcome \in Ends : pending = EndSteps(t, outcome)
           \/ \E t \in Tasks, g \in Triggers :
                t \in Running /\ pending = Recorded(t, g) /\ (g = "scheduled" => owed[t] = 1 /\ t \notin DueOf(tasks))
    BY <1>1, WhoseWrite DEF IInv
  \* What is recorded is a run that is running, or the end of one; and the handler goes on.
  <1>3. Of \in Tasks /\ Argument \in Statuses /\ (Argument = "running" => Of \in Running) /\ Handling'
    <2>1. CASE Loading
      <3>1. Tail(pending) \in Seq(LoadStep) /\ Of \in Tasks /\ Argument = "interrupted"
        BY <1>1, <2>1, LoadWrites DEF Loading, Of, Argument
      <3>2. QED
        BY <1>1, <2>1, <3>1 DEF Handling, Loading, Statuses
    <2>2. ASSUME rest = {}, NEW t \in Tasks, NEW outcome \in Ends, pending = EndSteps(t, outcome)
          PROVE  Of \in Tasks /\ Argument \in Statuses /\ Argument # "running" /\ Handling'
      <3>0. Head(EndSteps(t, outcome)) = <<"record", t, outcome>> /\ Tail(EndSteps(t, outcome)) = Shown(t, outcome)
        BY Shapes
      <3>1. pending' = Shown(t, outcome) /\ Of = t /\ Argument = outcome
        BY <1>1, <2>2, <3>0 DEF Of, Argument
      <3>2. Argument \in Statuses /\ Argument # "running"
        BY <2>2, <3>1 DEF Statuses, Ends
      <3>3. rest' = {} /\ pending' \in {EndSteps(t, outcome), Shown(t, outcome)}
        BY <1>1, <2>2, <3>1
      <3>4. Ending'
        BY <3>3 DEF Ending
      <3>5. QED
        BY <3>1, <3>2, <3>4 DEF Handling
    <2>3. ASSUME NEW t \in Tasks, NEW g \in Triggers, t \in Running, pending = Recorded(t, g),
                 g = "scheduled" => owed[t] = 1 /\ t \notin DueOf(tasks)
          PROVE  Of \in Tasks /\ Argument \in Statuses /\ Of \in Running /\ Handling'
      <3>1. Head(Recorded(t, g)) = <<"record", t, "running">> /\ Tail(Recorded(t, g)) = Prompted(t, g)
        BY Shapes
      <3>2. pending' = Prompted(t, g) /\ Of = t /\ Argument = "running"
        BY <1>1, <2>3, <3>1 DEF Of, Argument
      <3>3. QED
        BY <1>1, <2>3, <3>2 DEF Handling, Starting, Statuses, Running
    <2>4. QED
      BY <1>2, <2>1, <2>2, <2>3
  <1>4. runsFile \in [Tasks -> Statuses]
    BY DEF IInv, Types
  <1>5. Types'
    BY <1>1, <1>3, <1>4 DEF IInv, Types, Running
  <1>6. Dead' /\ Chosen' /\ OwedWhenDue'
    BY <1>1 DEF IInv, Dead, Chosen, OwedWhenDue, Running
  <1>7. FileIsList'
    <2>1. CASE tasks = tasksFile
      BY <1>1, <2>1 DEF FileIsList
    <2>2. ASSUME NEW k \in DOMAIN pending, pending[k][1] = "persist"
          PROVE  FileIsList'
      <3>1. k - 1 \in DOMAIN pending' /\ pending'[k - 1] = pending[k]
        BY <1>1, <1>2, <2>2, Left
      <3>2. QED
        BY <2>2, <3>1 DEF FileIsList
    <2>3. QED
      BY <1>1, <2>1, <2>2 DEF IInv, FileIsList
  <1>8. TasksAreShown'
    <2>1. \A u \in Tasks : EndIsWritten("status", u) => EndIsWritten("status", u)'
      BY <1>1, <1>2, EndIsLeft
    <2>2. QED
      BY <1>1, <2>1 DEF IInv, TasksAreShown, Running
  <1>9. RunsAreShown'
    <2>1. SUFFICES ASSUME ~TearsLines, NEW u \in Tasks, runsFile'[u] = "running", u \notin Running
                   PROVE  EndIsWritten("record", u)'
      BY <1>1 DEF RunsAreShown, Running
    <2>2. ~torn /\ (runsFile[u] = "running" => EndIsWritten("record", u))
      BY <1>1, <2>1 DEF IInv, RunsAreShown
    <2>3. runsFile' = [runsFile EXCEPT ![Of] = Argument]
      BY <1>1, <2>2
    <2>4. u # Of /\ runsFile[u] = "running"
      BY <1>3, <1>4, <2>1, <2>3
    <2>5. QED
      BY <1>1, <1>2, <2>2, <2>4, EndIsLeft DEF Of
  <1>10. QED
    BY <1>3, <1>5, <1>6, <1>7, <1>8, <1>9 DEF IInv

\* The prompt of a scheduled run is sent once for the occurrence that is owed.
LEMMA ExecuteKeeps ==
  ASSUME IInv, Execute
  PROVE  IInv'
  <1>1. /\ up /\ pending # <<>> /\ Head(pending)[1] = "execute" /\ pending' = Tail(pending)
        /\ owed' = IF Argument = "scheduled" THEN [owed EXCEPT ![Of] = @ - 1] ELSE owed
        /\ UNCHANGED <<up, crashes, tasks, running, timedOut, rest, files, ended>>
    BY DEF Execute, Step
  <1>2. PICK t \in Tasks, g \in Triggers :
          t \in Running /\ pending = Prompted(t, g) /\ (g = "scheduled" => owed[t] = 1 /\ t \notin DueOf(tasks))
    BY <1>1, WhoseWrite DEF IInv
  <1>3. pending' = <<>> /\ Of = t /\ Argument = g
    <2>1. Head(Prompted(t, g)) = <<"execute", t, g>> /\ Tail(Prompted(t, g)) = <<>>
      BY Shapes
    <2>2. QED
      BY <1>1, <1>2, <2>1 DEF Of, Argument
  <1>4. /\ tasks = tasksFile
        /\ \A u \in Tasks : u \in RunningOf(tasks) => u \in Running
        /\ ~TearsLines => \A u \in Tasks : runsFile[u] = "running" => u \in Running
    BY <1>1, <1>2, StartingWrites
  <1>5. owed \in [Tasks -> 0..1]
    BY DEF IInv, Types
  <1>6. owed' \in [Tasks -> 0..1] /\ \A u \in Tasks : u \in DueOf(tasks) => owed'[u] = owed[u]
    BY <1>1, <1>2, <1>3, <1>5
  <1>7. Types'
    BY <1>1, <1>6 DEF IInv, Types, Running, files
  <1>8. Handling' /\ Dead' /\ Chosen' /\ FileIsList'
    BY <1>1, <1>3, <1>4 DEF IInv, Handling, Dead, Chosen, FileIsList, Running, files
  <1>9. OwedWhenDue'
    BY <1>1, <1>4, <1>6 DEF IInv, OwedWhenDue, files
  <1>10. RunsAreShown' /\ TasksAreShown'
    BY <1>1, <1>4 DEF IInv, RunsAreShown, TasksAreShown, Running, files
  <1>11. QED
    BY <1>7, <1>8, <1>9, <1>10 DEF IInv

\* Wherever a handler dies, what is owed stays so, and the history does not gain a run.
LEMMA CrashKeeps ==
  ASSUME IInv, Crash
  PROVE  IInv'
  <1>1. /\ crashes < MaxCrashes /\ up' = FALSE /\ crashes' = crashes + 1
        /\ tasks' = <<>> /\ running' = [t \in Tasks |-> "none"] /\ timedOut' = {} /\ pending' = <<>> /\ rest' = {}
        /\ torn' \in {torn} \cup (IF TearsLines /\ pending # <<>> /\ Head(pending)[1] = "record" THEN {TRUE} ELSE {})
        /\ UNCHANGED <<tasksFile, runsFile, owed, ended>>
    BY DEF Crash
  <1>2. Running' = {}
    BY <1>1 DEF Running
  <1>3. ListType(tasks')
    <2>1. <<>> \in Seq(Task) /\ DOMAIN <<>> = {}
      OBVIOUS
    <2>2. QED
      BY <1>1, <2>1 DEF ListType, UniqueIds
  <1>4. \A t \in Tasks : t \notin DueOf(tasks') /\ t \notin RunningOf(tasks')
    BY <1>1 DEF DueOf, RunningOf
  <1>5. Types'
    <2>1. crashes' \in 0..MaxCrashes
      BY <1>1, ScheduleAssumption DEF IInv, Types
    <2>2. running' \in [Tasks -> {"none", "started", "cancelled"}]
      BY <1>1
    <2>3. torn' \in BOOLEAN
      BY <1>1 DEF IInv, Types
    <2>4. QED
      BY <1>1, <1>3, <2>1, <2>2, <2>3 DEF IInv, Types
  <1>6. Handling' /\ Dead' /\ Chosen' /\ FileIsList'
    BY <1>1, <1>2 DEF Handling, Dead, Chosen, FileIsList
  <1>7. OwedWhenDue'
    BY <1>1, <1>4 DEF IInv, OwedWhenDue
  <1>8. RunsAreShown' /\ TasksAreShown'
    <2>1. ~TearsLines => torn' = torn
      BY <1>1
    <2>2. QED
      BY <1>1, <1>4, <2>1 DEF IInv, RunsAreShown, TasksAreShown
  <1>9. QED
    BY <1>5, <1>6, <1>7, <1>8 DEF IInv

\* load has the end of every run that the history shows as running to write, and then the list.
LEMMA LoadKeeps ==
  ASSUME IInv, Load
  PROVE  IInv'
  <1>1. /\ ~up /\ up' = TRUE /\ tasks' = Marked
        /\ UNCHANGED <<crashes, running, timedOut, rest, files, owed, ended>>
    BY DEF Load
  <1>2. PICK order \in [1..Cardinality(Unfinished) -> Unfinished] :
          Range(order) = Unfinished /\ pending' = LoadSteps(order)
    BY DEF Load
  <1>3. rest = {} /\ Running = {} /\ ListType(tasksFile)
    BY <1>1 DEF IInv, Dead, Types
  <1>4. Unfinished \subseteq Tasks /\ Cardinality(Unfinished) \in Nat
    <2>1. Unfinished \subseteq Tasks
      BY DEF Unfinished
    <2>2. IsFiniteSet(Unfinished)
      BY <2>1, ScheduleAssumption, FS_Subset
    <2>3. QED
      BY <2>1, <2>2, FS_CardinalityType
  <1> DEFINE records == [i \in DOMAIN order |-> <<"record", order[i], "interrupted">>]
             n == Cardinality(Unfinished)
  <1>5. records \in Seq(LoadStep) /\ DOMAIN records = 1..n /\ Len(records) = n
    <2>1. DOMAIN order = 1..n /\ \A i \in 1..n : order[i] \in Tasks
      BY <1>4
    <2>2. \A t \in Tasks : <<"record", t, "interrupted">> \in LoadStep
      BY DEF LoadStep
    <2>3. records \in [1..n -> LoadStep]
      BY <2>1, <2>2
    <2>4. QED
      BY <1>4, <2>3
  <1>6. SaveMarked \in Seq(LoadStep) /\ (Marked # <<>> => Len(SaveMarked) = 1 /\ SaveMarked[1][1] = "persist")
    <2>1. CASE Marked = <<>>
      BY <2>1 DEF SaveMarked
    <2>2. CASE Marked # <<>>
      <3>1. Marked \in Seq(Task)
        BY <1>3, MarkedIs DEF ListType
      <3>2. Marked[1] \in Task
        BY <2>2, <3>1
      <3>3. <<"persist", Marked[1].id, "">> \in LoadStep
        BY <3>2 DEF LoadStep, Task
      <3>4. SaveMarked = <<<<"persist", Marked[1].id, "">>>>
        BY <2>2 DEF SaveMarked
      <3>5. ASSUME NEW a \in LoadStep
            PROVE  <<a>> \in Seq(LoadStep) /\ Len(<<a>>) = 1 /\ <<a>>[1] = a
        OBVIOUS
      <3>6. SaveMarked \in Seq(LoadStep) /\ Len(SaveMarked) = 1 /\ SaveMarked[1] = <<"persist", Marked[1].id, "">>
        BY <3>3, <3>4, <3>5
      <3>7. <<"persist", Marked[1].id, "">>[1] = "persist"
        OBVIOUS
      <3>8. SaveMarked[1][1] = "persist"
        BY <3>6, <3>7
      <3>9. QED
        BY <3>6, <3>8
    <2>3. QED
      BY <2>1, <2>2
  <1>7. pending' = records \o SaveMarked
    BY <1>2 DEF LoadSteps
  <1> HIDE DEF records, n
  <1>8. /\ pending' \in Seq(LoadStep) /\ Len(pending') = Len(records) + Len(SaveMarked)
        /\ \A i \in 1..(Len(records) + Len(SaveMarked)) :
             pending'[i] = IF i <= Len(records) THEN records[i] ELSE SaveMarked[i - Len(records)]
    BY <1>5, <1>6, <1>7, ConcatProperties
  <1>9. DOMAIN pending' = 1..(Len(records) + Len(SaveMarked)) /\ Len(records) \in Nat /\ Len(SaveMarked) \in Nat
    BY <1>5, <1>6, <1>8
  <1>10. \A t \in Tasks : runsFile[t] = "running" => EndIsWritten("record", t)'
    <2> TAKE t \in Tasks
    <2> HAVE runsFile[t] = "running"
    <2>1. t \in Range(order)
      BY <1>2 DEF Unfinished
    <2>2. PICK i \in DOMAIN order : order[i] = t
      BY <2>1 DEF Range
    <2>3. i \in DOMAIN records /\ records[i] = <<"record", t, "interrupted">>
      BY <2>2 DEF records
    <2>4. i \in DOMAIN pending' /\ pending'[i] = records[i]
      BY <1>5, <1>8, <1>9, <2>3
    <2>5. QED
      BY <2>3, <2>4 DEF EndIsWritten
  <1>11. FileIsList'
    <2>1. CASE Marked = <<>>
      <3>1. tasksFile = <<>>
        <4>1. Len(Marked) = 0 /\ tasksFile \in Seq(Task) /\ DOMAIN Marked = DOMAIN tasksFile
          BY <1>3, <2>1 DEF ListType, Marked
        <4>2. DOMAIN Marked = {}
          BY <2>1
        <4>3. DOMAIN tasksFile = 1..Len(tasksFile) /\ Len(tasksFile) \in Nat
          BY <4>1
        <4>4. Len(tasksFile) = 0
          <5>1. 1 \notin 1..Len(tasksFile)
            BY <4>1, <4>2, <4>3
          <5>2. QED
            BY <4>3, <5>1
        <4>5. QED
          BY <4>1, <4>4
      <3>2. QED
        BY <1>1, <2>1, <3>1 DEF FileIsList, files
    <2>2. CASE Marked # <<>>
      <3>1. Len(SaveMarked) = 1 /\ SaveMarked[1][1] = "persist"
        BY <1>6, <2>2
      <3>2. /\ Len(records) + 1 \in 1..(Len(records) + Len(SaveMarked)) /\ ~(Len(records) + 1 <= Len(records))
            /\ (Len(records) + 1) - Len(records) = 1
        BY <1>9, <3>1
      <3>3. Len(records) + 1 \in DOMAIN pending' /\ pending'[Len(records) + 1] = SaveMarked[1]
        BY <1>8, <1>9, <3>2
      <3>4. QED
        BY <3>1, <3>3 DEF FileIsList
    <2>3. QED
      BY <2>1, <2>2
  <1>12. /\ ListType(tasks')
         /\ \A t \in Tasks : (t \in DueOf(tasks') <=> t \in DueOf(tasksFile)) /\ t \notin RunningOf(tasks')
    BY <1>1, <1>3, MarkedIs
  <1>13. Types'
    BY <1>1, <1>12 DEF IInv, Types, Running, files
  <1>14. Handling' /\ Dead' /\ Chosen' /\ OwedWhenDue'
    BY <1>1, <1>3, <1>8, <1>12 DEF IInv, Handling, Loading, Dead, Chosen, OwedWhenDue, files
  <1>15. RunsAreShown' /\ TasksAreShown'
    BY <1>1, <1>10, <1>12 DEF IInv, RunsAreShown, TasksAreShown, files
  <1>16. QED
    BY <1>11, <1>13, <1>14, <1>15 DEF IInv

LEMMA Kept == IInv /\ [Next]_vars => IInv'
  <1> SUFFICES ASSUME IInv, [Next]_vars PROVE IInv'
    OBVIOUS
  <1>1. ASSUME NEW t \in Tasks, NEW enabled \in BOOLEAN, Save(t, enabled) PROVE IInv'
    BY <1>1, SaveKeeps
  <1>2. ASSUME NEW t \in Tasks, Delete(t) \/ Cancel(t) \/ ComesDue(t) PROVE IInv'
    BY <1>2, DeleteKeeps, CancelKeeps, ComesDueKeeps
  <1>3. ASSUME NEW t \in Tasks, RunNow(t) \/ Timeout(t) \/ RunEnds(t) PROVE IInv'
    BY <1>3, RunNowKeeps, TimeoutKeeps, RunEndsKeeps
  <1>4. CASE Tick \/ RunNext
    BY <1>4, TickKeeps, RunNextKeeps
  <1>5. CASE Writes
    BY <1>5, PersistKeeps, StartTaskKeeps, ShowEndKeeps, RecordRunKeeps, ExecuteKeeps DEF Writes
  <1>6. CASE Crash \/ Load
    BY <1>6, CrashKeeps, LoadKeeps
  <1>7. CASE UNCHANGED vars
    BY <1>7, Stutters
  <1>8. QED
    BY <1>1, <1>2, <1>3, <1>4, <1>5, <1>6, <1>7 DEF Next

-----------------------------------------------------------------------------
(* Theorems                                                                *)

LEMMA Invariant == Spec => []IInv
  <1>1. QED
    BY Initially, Kept, PTL DEF Spec

\* The state keeps its type: no task is twice in the list or in the file, and none that does not run has timed out.
THEOREM TypeCorrect == Spec => []TypeOK
  <1>1. IInv => TypeOK
    <2> SUFFICES ASSUME IInv PROVE TypeOK
      OBVIOUS
    <2>1. ASSUME NEW list, ListType(list)
          PROVE  Range(list) \subseteq Task /\ IsInjective([i \in DOMAIN list |-> list[i].id])
      <3>1. \A i \in DOMAIN list : list[i] \in Task
        BY <2>1 DEF ListType
      <3>2. QED
        BY <2>1, <3>1 DEF ListType, UniqueIds, Range, IsInjective
    <2>2. Types
      BY DEF IInv
    <2>3. owed \in [Tasks -> -1..1]
      BY <2>2 DEF Types
    <2>4. QED
      BY <2>1, <2>2, <2>3 DEF Types, TypeOK, Running
  <1>2. QED
    BY <1>1, Invariant, PTL

\* Each time a task comes due it is run at most once, wherever in a handler the Host dies.
THEOREM RunsAtMostOnce == Spec => []FiresOnce
  <1>1. IInv => FiresOnce
    BY DEF IInv, Types, FiresOnce
  <1>2. QED
    BY <1>1, Invariant, PTL

\* Where the Host does not die in the middle of a line, every run that a crash cuts off shows as interrupted
\* once the Host is up again.
THEOREM CutOffRunsAreShown == ~TearsLines => (Spec => []OccurrencesRunOnce)
  <1> SUFFICES ASSUME ~TearsLines PROVE Spec => []OccurrencesRunOnce
    OBVIOUS
  <1>1. IInv => OccurrencesRunOnce
    <2> SUFFICES ASSUME IInv PROVE OccurrencesRunOnce
      OBVIOUS
    <2>1. FiresOnce
      BY DEF IInv, Types, FiresOnce
    <2>2. ASSUME Idle, NEW t \in Tasks,
                 "running" \in {runsFile[t]} \cup {task.status : task \in {x \in Range(tasks) : x.id = t}}
          PROVE  t \in Running
      <3>1. runsFile[t] = "running" \/ t \in RunningOf(tasks)
        BY <2>2 DEF Range, RunningOf
      <3>2. QED
        BY <2>2, <3>1, BetweenHandlers DEF Idle
    <2>3. QED
      BY <2>1, <2>2 DEF OccurrencesRunOnce, NothingRunsForever
  <1>2. QED
    BY <1>1, Invariant, PTL

=============================================================================
