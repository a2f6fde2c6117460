------------------------------ MODULE Schedule ------------------------------
(***************************************************************************)
(* The Host's scheduled tasks (src/packages/schedule/src/index.ts): tasks  *)
(* that come due, runs of them, and the two files both are kept in, under  *)
(* a Host that may die between any two writes.                             *)
(*                                                                         *)
(* A handler runs to completion: what it still has to write is queued in   *)
(* `pending`, and nothing but a crash comes between.  A task runs at most  *)
(* once at a time, so its latest run goes by the task's id.  Instants are  *)
(* reduced to whether nextRunAt is in the future or past; names, prompts,  *)
(* models and the text of results are left out.                            *)
(***************************************************************************)
EXTENDS Integers, FiniteSets, Sequences, SequencesExt

CONSTANTS Tasks,
          MaxConcurrent,       \* runs at once
          MaxCrashes,          \* how often the Host dies
          DiesWhileWriting,    \* may it die between two writes of a handler?
          TearsLines           \* may it die in the middle of a line of the run history?

ASSUME ScheduleAssumption == IsFiniteSet(Tasks) /\ MaxCrashes \in Nat

Ends == {"success", "error", "cancelled", "timed-out"}
Statuses == Ends \cup {"", "running", "interrupted"}
Task == [id: Tasks, next: {"disabled", "later", "due"}, status: Statuses]

VARIABLES
  up,          \* the Host runs
  crashes,
  tasks,       \* this.tasks
  running,     \* this.running: the handle of each task's run, or "none"
  timedOut,    \* the runs whose timer fired
  pending,     \* what the current handler has still to do, as <<step, task, argument>>
  rest,        \* the due tasks that tick has still to run after that
  tasksFile,   \* schedules.json
  runsFile,    \* schedule-runs.jsonl: the status of each task's latest run
  torn,        \* its last line is half a line
  owed,        \* history: 1 when a task came due and has not been run since
  ended        \* history: the tasks whose latest run recorded its end

vars == <<up, crashes, tasks, running, timedOut, pending, rest, tasksFile, runsFile, torn, owed, ended>>
files == <<tasksFile, runsFile, torn>>

TypeOK ==
  /\ up \in BOOLEAN /\ crashes \in 0..MaxCrashes
  /\ \A list \in {tasks, tasksFile} : Range(list) \subseteq Task /\ IsInjective([i \in DOMAIN list |-> list[i].id])
  /\ running \in [Tasks -> {"none", "started", "cancelled"}]
  /\ timedOut \subseteq {t \in Tasks : running[t] # "none"} /\ rest \subseteq Tasks
  /\ runsFile \in [Tasks -> Statuses] /\ torn \in BOOLEAN
  /\ owed \in [Tasks -> -1..1] /\ ended \subseteq Tasks

-----------------------------------------------------------------------------
IdsOf(list) == {list[i].id : i \in DOMAIN list}
Entry(list, t) == list[CHOOSE i \in DOMAIN list : list[i].id = t]
With(list, t, task) == [i \in DOMAIN list |-> IF list[i].id = t THEN task ELSE list[i]]
Running == {t \in Tasks : running[t] # "none"}

\* Nothing of an earlier handler is left to do.
Idle == up /\ pending = <<>> /\ rest = {}

Init ==
  /\ up = TRUE /\ crashes = 0
  /\ tasks = <<>> /\ tasksFile = <<>>
  /\ running = [t \in Tasks |-> "none"] /\ timedOut = {} /\ pending = <<>> /\ rest = {}
  /\ runsFile = [t \in Tasks |-> ""] /\ torn = FALSE
  /\ owed = [t \in Tasks |-> 0] /\ ended = {}

-----------------------------------------------------------------------------
(* Editing *)

\* save: the status is kept from before, the next run is computed again.
Save(t, enabled) ==
  /\ Idle
  /\ LET task == [id |-> t, next |-> IF enabled THEN "later" ELSE "disabled",
                  status |-> IF t \in IdsOf(tasks) THEN Entry(tasks, t).status ELSE ""] IN
       tasks' = IF t \in IdsOf(tasks) THEN With(tasks, t, task) ELSE Append(tasks, task)
  /\ pending' = <<<<"persist", t, "edit">>>>
  /\ UNCHANGED <<up, crashes, running, timedOut, rest, files, owed, ended>>

\* delete: a run of the task is cancelled, and ends when its session settles.
Delete(t) ==
  /\ Idle /\ t \in IdsOf(tasks)
  /\ tasks' = RemoveAt(tasks, CHOOSE i \in DOMAIN tasks : tasks[i].id = t)
  /\ pending' = <<<<"persist", t, "edit">>>>
  /\ running' = IF t \in Running THEN [running EXCEPT ![t] = "cancelled"] ELSE running
  /\ UNCHANGED <<up, crashes, timedOut, rest, files, owed, ended>>

Cancel(t) ==
  /\ Idle /\ running[t] = "started"
  /\ running' = [running EXCEPT ![t] = "cancelled"]
  /\ UNCHANGED <<up, crashes, tasks, timedOut, pending, rest, files, owed, ended>>

-----------------------------------------------------------------------------
(* Running *)

\* Time passes beyond a task's nextRunAt, which is the same instant in the file.
ComesDue(t) ==
  /\ Idle \/ ~up
  /\ t \in IdsOf(tasksFile) /\ Entry(tasksFile, t).next = "later"
  /\ LET due == With(tasksFile, t, [Entry(tasksFile, t) EXCEPT !.next = "due"]) IN
       tasksFile' = due /\ tasks' = IF up THEN due ELSE tasks
  /\ owed' = [owed EXCEPT ![t] = 1]
  /\ UNCHANGED <<up, crashes, running, timedOut, pending, rest, runsFile, torn, ended>>

\* A mistake the runs must catch: the session is started before the task is saved.
RunFirst(t, trigger) == <<<<"execute", t, trigger>>, <<"start", t, trigger>>, <<"record", t, "running">>>>

\* run: the task's next run is on disk before this one starts.
RunSteps(t, trigger) == <<<<"start", t, trigger>>, <<"record", t, "running">>, <<"execute", t, trigger>>>>

\* tick: the first due tasks of the list, as many as there is room for, run one after the other up to
\* their prompts.
DueIn(list) == {i \in DOMAIN list : list[i].next = "due" /\ list[i].id \notin Running}
First(positions, n) == {i \in positions : Cardinality({j \in positions : j < i}) < n}

Tick ==
  /\ Idle /\ DueIn(tasks) # {} /\ Cardinality(Running) < MaxConcurrent
  /\ rest' = {tasks[i].id : i \in First(DueIn(tasks), MaxConcurrent - Cardinality(Running))}
  /\ UNCHANGED <<up, crashes, tasks, running, timedOut, pending, files, owed, ended>>

RunNext ==
  /\ up /\ pending = <<>>
  /\ \E i \in DOMAIN tasks :
       LET t == tasks[i].id IN
       /\ t \in rest /\ \A j \in 1..(i - 1) : tasks[j].id \notin rest
       /\ running' = [running EXCEPT ![t] = "started"]
       /\ pending' = RunSteps(t, "scheduled")
       /\ rest' = rest \ {t}
  /\ UNCHANGED <<up, crashes, tasks, timedOut, files, owed, ended>>

RunNow(t) ==
  /\ Idle /\ t \in IdsOf(tasks) \ Running /\ Cardinality(Running) < MaxConcurrent
  /\ running' = [running EXCEPT ![t] = "started"]
  /\ pending' = RunSteps(t, "manual")
  /\ UNCHANGED <<up, crashes, tasks, timedOut, rest, files, owed, ended>>

\* A mistake the runs must catch: the timer is not cleared when the run ends.
TimeoutLate(t) ==
  /\ Idle /\ t \in Tasks \ timedOut
  /\ timedOut' = timedOut \cup {t}
  /\ UNCHANGED <<up, crashes, tasks, running, pending, rest, files, owed, ended>>

\* The run's timer: its session is aborted.
Timeout(t) ==
  /\ Idle /\ t \in Running \ timedOut
  /\ timedOut' = timedOut \cup {t}
  /\ UNCHANGED <<up, crashes, tasks, running, pending, rest, files, owed, ended>>

\* How a run that was cancelled or timed out counts, whatever its session came to.
Outcomes(t) == CASE running[t] = "cancelled" -> {"cancelled"}
                 [] t \in timedOut -> {"timed-out"}
                 [] OTHER -> {"success", "error"}

\* The session settled: the run's end is recorded, then shown on the task.
EndSteps(t, outcome) == <<<<"record", t, outcome>>, <<"status", t, outcome>>>>

RunEnds(t) ==
  /\ Idle /\ t \in Running
  /\ \E outcome \in Outcomes(t) : pending' = EndSteps(t, outcome)
  /\ running' = [running EXCEPT ![t] = "none"]
  /\ timedOut' = timedOut \ {t}
  /\ UNCHANGED <<up, crashes, tasks, rest, files, owed, ended>>

-----------------------------------------------------------------------------
(* The writes of a handler, in order *)

Step(kind) == up /\ pending # <<>> /\ Head(pending)[1] = kind /\ pending' = Tail(pending)
Of == Head(pending)[2]
Argument == Head(pending)[3]

\* persist: the list as it stands.
Persist ==
  /\ Step("persist")
  /\ tasksFile' = tasks
  /\ owed' = IF Argument = "edit" THEN [owed EXCEPT ![Of] = 0] ELSE owed
  /\ UNCHANGED <<up, crashes, tasks, running, timedOut, rest, runsFile, torn, ended>>

\* updateTask changes the task and saves the list, if the task is still there; a scheduled start
\* computes its next run.
UpdateTask(status, starts) ==
  /\ tasks' = IF Of \in IdsOf(tasks)
              THEN With(tasks, Of, [Entry(tasks, Of) EXCEPT !.status = status, !.next = IF starts THEN "later" ELSE @])
              ELSE tasks
  /\ tasksFile' = IF Of \in IdsOf(tasks) THEN tasks' ELSE tasksFile
  /\ UNCHANGED <<up, crashes, running, timedOut, rest, runsFile, torn, owed>>

StartTask ==
  /\ Step("start")
  /\ UpdateTask("running", Argument = "scheduled")
  /\ ended' = ended \ {Of}

ShowEnd ==
  /\ Step("status")
  /\ UpdateTask(Argument, FALSE)
  /\ UNCHANGED ended

\* recordRun: a line that follows half a line is lost with it.
RecordRun ==
  /\ Step("record")
  /\ runsFile' = IF torn THEN runsFile ELSE [runsFile EXCEPT ![Of] = Argument]
  /\ torn' = FALSE
  /\ ended' = IF Argument \in Ends THEN ended \cup {Of} ELSE ended
  /\ UNCHANGED <<up, crashes, tasks, running, timedOut, rest, tasksFile, owed>>

\* execute: the session gets its prompt.
Execute ==
  /\ Step("execute")
  /\ owed' = IF Argument = "scheduled" THEN [owed EXCEPT ![Of] = @ - 1] ELSE owed
  /\ UNCHANGED <<up, crashes, tasks, running, timedOut, rest, files, ended>>

-----------------------------------------------------------------------------
(* Crashes *)

Crash ==
  /\ up /\ crashes < MaxCrashes
  /\ DiesWhileWriting \/ Idle
  /\ up' = FALSE /\ crashes' = crashes + 1
  /\ tasks' = <<>> /\ running' = [t \in Tasks |-> "none"] /\ timedOut' = {} /\ pending' = <<>> /\ rest' = {}
  /\ torn' \in {torn} \cup (IF TearsLines /\ pending # <<>> /\ Head(pending)[1] = "record" THEN {TRUE} ELSE {})
  /\ UNCHANGED <<tasksFile, runsFile, owed, ended>>

\* load: what was running was interrupted, on the task and in the history.
Interrupted(task) == IF task.status = "running" THEN [task EXCEPT !.status = "interrupted"] ELSE task
Unfinished == {t \in Tasks : runsFile[t] = "running"}
Marked == [i \in DOMAIN tasksFile |-> Interrupted(tasksFile[i])]
SaveMarked == IF Marked # <<>> THEN <<<<"persist", Marked[1].id, "">>>> ELSE <<>>

\* A mistake the runs must catch: the tasks are marked, their runs are not.
LoadTasksOnly(order) == SaveMarked
LoadSteps(order) == [i \in DOMAIN order |-> <<"record", order[i], "interrupted">>] \o SaveMarked

Load ==
  /\ ~up /\ up' = TRUE
  /\ tasks' = Marked
  /\ \E order \in [1..Cardinality(Unfinished) -> Unfinished] :
       Range(order) = Unfinished /\ pending' = LoadSteps(order)
  /\ UNCHANGED <<crashes, running, timedOut, rest, files, owed, ended>>

-----------------------------------------------------------------------------
Writes == Persist \/ StartTask \/ ShowEnd \/ RecordRun \/ Execute

Next ==
  \/ \E t \in Tasks : \/ \E enabled \in BOOLEAN : Save(t, enabled)
                      \/ Delete(t) \/ Cancel(t) \/ ComesDue(t) \/ RunNow(t) \/ Timeout(t) \/ RunEnds(t)
  \/ Tick \/ RunNext \/ Writes \/ Crash \/ Load

Spec == Init /\ [][Next]_vars

\* The timer keeps firing between other handlers (nobody is always quicker with schedule.run),
\* a handler is carried through, a run's own timer fires and its session then settles, and the
\* desktop starts a dead Host again.
Fairness ==
  /\ WF_vars(Writes) /\ WF_vars(RunNext) /\ WF_vars(Load)
  /\ \A t \in Tasks : SF_vars(Tick /\ t \in rest') /\ SF_vars(Timeout(t)) /\ SF_vars(t \in timedOut /\ RunEnds(t))

LiveSpec == Spec /\ Fairness

-----------------------------------------------------------------------------
(* Properties *)

\* Each time a task comes due it is run at most once, however often the Host dies.
FiresOnce == \A t \in Tasks : owed[t] >= 0

\* Between handlers, a task and the history show a run as running only while it is: a run that
\* a crash cut off shows as interrupted in both (ADR 0011).
NothingRunsForever ==
  Idle => \A t \in Tasks : "running" \in {runsFile[t]} \cup {task.status : task \in {x \in Range(tasks) : x.id = t}}
                             => t \in Running

\* An occurrence of a task runs at most once, however often the Host dies, and what a crash cut off
\* shows as interrupted.
OccurrencesRunOnce == FiresOnce /\ NothingRunsForever

\* Only a run that did not complete shows as interrupted.
InterruptedIsUnfinished ==
  Idle => \A i \in DOMAIN tasks : tasks[i].status = "interrupted" => tasks[i].id \notin ended

\* A due task is started, unless it is saved again or deleted first.
DueTasksStart == \A t \in Tasks : (up /\ t \in IdsOf(tasks) /\ Entry(tasks, t).next = "due")
                                    ~> ~(t \in IdsOf(tasksFile) /\ Entry(tasksFile, t).next = "due")
=============================================================================
