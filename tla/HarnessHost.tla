---------------------------- MODULE HarnessHost ----------------------------
(***************************************************************************)
(* The desktop process's side of the Harness Host                          *)
(* (src/src-tauri/src/harness_host.rs) and of the settings it hands over   *)
(* (src/src-tauri/src/commands/settings.rs).  Tauri runs every command on  *)
(* a thread of its own; HostState and the settings are each behind a       *)
(* mutex, and ensure_running keeps the first one while it waits and        *)
(* starts the process.                                                     *)
(*                                                                         *)
(* Time is counted in units of the shortest delay.  A crash is an instant: *)
(* between two of them lies a delay, so that none is counted twice.  The   *)
(* content of the settings, validation, and how the process is launched    *)
(* are left out: a settings value is the number of its set_settings call.  *)
(***************************************************************************)
EXTENDS Integers, FiniteSets, Sequences

CONSTANTS Writers,       \* set_settings calls, 1..n: call w sets value w
          Delays,        \* RESTART_DELAYS_MS: one crash more than there are delays stops the restarts
          Window,        \* CRASH_WINDOW
          MaxTime,       \* bound of the clock
          WritersOverlap \* may two set_settings calls run at once?

ASSUME ConstantsAssumption ==
  /\ Delays \in Seq(Nat \ {0})
  /\ Window \in Nat \ {0}

VARIABLES
  now,
  process,     \* "none", "alive", or "dead" and not noticed
  crashes,     \* the instants of the crashes in the window
  lock,        \* HostState's mutex: "free", or where ensure_running is: "sleeping", "starting", "sent"
  wake,        \* when the delay is over
  file, memory, hostHas,  \* the settings on disk, in AppState, and as the Host last read them
  writer,      \* each set_settings: "idle", "validated", "saved", "stored", "done"
  stopped,     \* history: a request was answered KEEPS_CRASHING since the last restart_harness_host
  launches     \* history: when processes were launched since then, but for those that never came up

vars == <<now, process, crashes, lock, wake, file, memory, hostHas, writer, stopped, launches>>
settings == <<file, memory, writer>>

TypeOK ==
  /\ now \in Nat /\ wake \in Nat
  /\ process \in {"none", "alive", "dead"}
  /\ crashes \subseteq 0..now /\ Cardinality(crashes) <= Len(Delays) + 1
  /\ lock \in {"free", "sleeping", "starting", "sent"}
  /\ {file, memory, hostHas} \subseteq {0} \cup Writers
  /\ writer \in [Writers -> {"idle", "validated", "saved", "stored", "done"}]
  /\ stopped \in BOOLEAN /\ launches \subseteq 0..now

-----------------------------------------------------------------------------
\* 500 ms, 1 s, 2 s, 4 s, by the crashes in the window, none for the first start.
RestartDelay(n) == IF n = 0 THEN 0 ELSE Delays[n]

\* A mistake the runs must catch: the crashes are forgotten too early.
RecentThird(times) == {t \in times : now - t <= Window \div 3}

\* What is left in the window.
Recent(times) == {t \in times : now - t <= Window}

\* The launches but the last.
Earlier == {t \in launches : \E later \in launches : t < later}

Init ==
  /\ now = 0 /\ process = "none" /\ crashes = {}
  /\ lock = "free" /\ wake = 0
  /\ file = 0 /\ memory = 0 /\ hostHas = 0
  /\ writer = [w \in Writers |-> "idle"]
  /\ stopped = FALSE /\ launches = {}

\* ensure_running: count a crash that is noticed here, then start unless there were too many.
HarnessEndpoint ==
  /\ lock = "free" /\ process # "alive" /\ now <= MaxTime
  /\ process' = "none"
  /\ LET counted == Recent(IF process = "dead" THEN crashes \cup {now} ELSE crashes)
         n == Cardinality(counted) IN
       /\ crashes' = counted
       /\ IF n > Len(Delays)
          THEN stopped' = TRUE /\ UNCHANGED <<lock, wake>>
          ELSE lock' = "sleeping" /\ wake' = now + RestartDelay(n) /\ UNCHANGED stopped
  /\ UNCHANGED <<now, hostHas, settings, launches>>

\* restart_harness_host forgets the crashes and gives the mutex up; it takes it again in
\* ensure_running, as any HarnessEndpoint does, so another request may come in between.
RestartHarnessHost ==
  /\ lock = "free"
  /\ crashes' = {} /\ stopped' = FALSE /\ launches' = {}
  /\ UNCHANGED <<now, process, lock, wake, hostHas, settings>>

\* `start`: the process is spawned.
Launch ==
  /\ lock = "sleeping" /\ now >= wake
  /\ lock' = "starting"
  /\ launches' = {t \in launches : now - t < Window} \cup {now}
  /\ UNCHANGED <<now, process, crashes, wake, hostHas, settings, stopped>>

\* The port is reported: the settings as they are now go down its stdin.
SendSettings ==
  /\ lock = "starting"
  /\ lock' = "sent" /\ hostHas' = memory
  /\ UNCHANGED <<now, process, crashes, wake, settings, stopped, launches>>

\* The process becomes state.running, and the mutex is given up.
Started ==
  /\ lock = "sent"
  /\ lock' = "free" /\ process' = "alive"
  /\ UNCHANGED <<now, crashes, wake, hostHas, settings, stopped, launches>>

\* No port in time: the process is killed, and the request fails.
StartFails ==
  /\ lock = "starting"
  /\ lock' = "free" /\ process' = "none"
  /\ launches' = Earlier
  /\ UNCHANGED <<now, crashes, wake, hostHas, settings, stopped>>

Dies ==
  /\ process = "alive"
  /\ process' = "dead"
  /\ UNCHANGED <<now, crashes, lock, wake, hostHas, settings, stopped, launches>>

Tick ==
  /\ now < MaxTime \/ (lock = "sleeping" /\ now < wake)
  /\ now' = now + 1
  /\ UNCHANGED <<process, crashes, lock, wake, hostHas, settings, stopped, launches>>

-----------------------------------------------------------------------------
(* set_settings *)

Busy == {w \in Writers : writer[w] \notin {"idle", "done"}}

\* The settings before are read for their secrets, and the new ones checked.
Validate(w) ==
  /\ writer[w] = "idle" /\ (WritersOverlap \/ Busy = {})
  /\ writer' = [writer EXCEPT ![w] = "validated"]
  /\ UNCHANGED <<now, process, crashes, lock, wake, file, memory, hostHas, stopped, launches>>

SaveFile(w) ==
  /\ writer[w] = "validated"
  /\ file' = w /\ writer' = [writer EXCEPT ![w] = "saved"]
  /\ UNCHANGED <<now, process, crashes, lock, wake, memory, hostHas, stopped, launches>>

Store(w) ==
  /\ writer[w] = "saved"
  /\ memory' = w /\ writer' = [writer EXCEPT ![w] = "stored"]
  /\ UNCHANGED <<now, process, crashes, lock, wake, file, hostHas, stopped, launches>>

\* A mistake the runs must catch: the settings are not pushed while the mutex is held.
PushIfFree(w) ==
  /\ writer[w] = "stored"
  /\ hostHas' = IF process = "alive" /\ lock = "free" THEN w ELSE hostHas
  /\ writer' = [writer EXCEPT ![w] = "done"]
  /\ UNCHANGED <<now, process, crashes, lock, wake, file, memory, stopped, launches>>

\* push_settings waits for the mutex; a Host that is not running gets them when it starts.
PushSettings(w) ==
  /\ writer[w] = "stored" /\ lock = "free"
  /\ hostHas' = IF process = "alive" THEN w ELSE hostHas
  /\ writer' = [writer EXCEPT ![w] = "done"]
  /\ UNCHANGED <<now, process, crashes, lock, wake, file, memory, stopped, launches>>

SetSettings(w) == Validate(w) \/ SaveFile(w) \/ Store(w) \/ PushSettings(w)

Next ==
  \/ HarnessEndpoint \/ RestartHarnessHost \/ Launch \/ SendSettings \/ Started \/ StartFails \/ Dies \/ Tick
  \/ \E w \in Writers : SetSettings(w)

Spec == Init /\ [][Next]_vars

-----------------------------------------------------------------------------
(* Properties *)

\* Once no set_settings call is under way, disk, desktop and a running Host have the same settings.
SettingsAgree ==
  Busy = {} /\ lock = "free" /\ process = "alive" => file = memory /\ hostHas = memory

\* Between two restart_harness_host, no more processes come up within a crash window than there
\* are delays, the first start included.
RestartsAreLimited == Cardinality({t \in launches : now - t < Window}) <= Len(Delays) + 1

\* Once a request was told that the Host keeps crashing, only restart_harness_host starts it again.
StoppedForGood == [][lock = "sleeping" /\ lock' = "starting" => ~stopped]_vars
=============================================================================
