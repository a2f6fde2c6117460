-------------------------- MODULE HarnessHost_proofs --------------------------
(***************************************************************************)
(* Theorems of HarnessHost, for any settings, any delays and any window:   *)
(* disk, desktop and a running Host agree once no set_settings call is     *)
(* under way, and restarts are limited.                                    *)
(***************************************************************************)
EXTENDS HarnessHost, FiniteSetTheorems, TLAPS

-----------------------------------------------------------------------------
(* Settings *)

\* Where the settings of the calls under way have got to.
Settings ==
    /\ writer \in [Writers -> {"idle", "validated", "saved", "stored", "done"}]
    /\ \A v, w \in Busy : v = w
    /\ \A w \in Writers : writer[w] = "saved" => file = w
    /\ (\A w \in Writers : writer[w] # "saved") => file = memory
    /\ \A w \in Writers : writer[w] = "stored" => memory = w
    /\ (lock = "sent" \/ (lock = "free" /\ process = "alive")) /\ (\A w \in Writers : writer[w] # "stored")
          => hostHas = memory

\* A step of the Host's side leaves it so.
LEMMA SettingsKept ==
    ASSUME Settings, UNCHANGED settings,
           \/ hostHas' = hostHas /\ (lock' = "sent" => lock = "sent")
              /\ (lock' = "free" /\ process' = "alive" => lock = "sent" \/ (lock = "free" /\ process = "alive"))
           \/ hostHas' = memory
    PROVE  Settings'
BY DEF Settings, settings, Busy

\* So does each step of a set_settings call, when no other is under way.
LEMMA SettingsWritten ==
    ASSUME ~WritersOverlap, Settings, NEW w \in Writers, SetSettings(w)
    PROVE  Settings'
<1>1. CASE Validate(w)
    BY <1>1 DEF Validate, Settings, Busy
<1>2. CASE SaveFile(w)
    BY <1>2 DEF SaveFile, Settings, Busy
<1>3. CASE Store(w)
    BY <1>3 DEF Store, Settings, Busy
<1>4. CASE PushSettings(w)
    BY <1>4 DEF PushSettings, Settings, Busy
<1>5. QED
    BY <1>1, <1>2, <1>3, <1>4 DEF SetSettings

\* Every step leaves it so.
LEMMA SettingsStep ==
    ASSUME ~WritersOverlap, Settings, [Next]_vars
    PROVE  Settings'
<1>1. CASE HarnessEndpoint \/ RestartHarnessHost \/ Launch \/ SendSettings \/ Started \/ StartFails \/ Dies \/ Tick
           \/ UNCHANGED vars
  <2>1. UNCHANGED settings
    BY <1>1 DEF HarnessEndpoint, RestartHarnessHost, Launch, SendSettings, Started, StartFails, Dies, Tick, vars, settings
  <2>2. \/ hostHas' = hostHas /\ (lock' = "sent" => lock = "sent")
           /\ (lock' = "free" /\ process' = "alive" => lock = "sent" \/ (lock = "free" /\ process = "alive"))
        \/ hostHas' = memory
    BY <1>1 DEF HarnessEndpoint, RestartHarnessHost, Launch, SendSettings, Started, StartFails, Dies, Tick, vars
  <2>3. QED
    BY <2>1, <2>2, SettingsKept
<1>2. QED
    BY <1>1, SettingsWritten DEF Next

\* Two set_settings calls do not overlap: once none is under way, the file, the desktop's copy and what a
\* running Host last read are the same settings, however the calls, the Host's starts and its crashes
\* interleave.  Whoever stores settings while the Host is being started finds the mutex taken, and pushes
\* them afterwards.
THEOREM CopiesAgree ==
    ASSUME ~WritersOverlap
    PROVE  Spec => []SettingsAgree
<1>1. Init => Settings
    BY DEF Init, Settings, Busy
<1>2. Settings /\ [Next]_vars => Settings'
    BY SettingsStep
<1>3. Settings => SettingsAgree
    BY DEF Settings, SettingsAgree, Busy
<1>4. QED
    BY <1>1, <1>2, <1>3, PTL DEF Spec

-----------------------------------------------------------------------------
(* Restarts *)

\* The instants a step reads.
Typed ==
    /\ now \in Nat /\ wake \in Nat
    /\ process \in {"none", "alive", "dead"} /\ lock \in {"free", "sleeping", "starting", "sent"}
    /\ crashes \in SUBSET (0..now) /\ launches \in SUBSET (0..now)

\* A process has come up, or is coming up, and has not been counted as a crash.
Up == process # "none" \/ lock \in {"starting", "sent"}

\* The mutex is kept from the moment the process was missed on.
OneStart == lock = "sleeping" => process = "none"

\* No crash is as late as the start that follows it.
Delayed ==
    /\ Up \/ lock = "sleeping" => \A c \in crashes : c < wake
    /\ Up => wake <= now

From(S, x) == {t \in S : t >= x}

\* In any stretch of the window that ends now, there are no more of `S` than crashes.
Outnumbered(S) ==
    \A x \in 0..now : now - x <= Window => Cardinality(From(S, x)) <= Cardinality(From(crashes, x))

\* Each launch but the one that is up was followed by a crash.
Followed == Outnumbered(IF Up THEN Earlier ELSE launches)

\* Nothing starts with more crashes than there are delays.
Limited ==
    /\ Cardinality(crashes) <= Len(Delays) + 1
    /\ Up \/ lock = "sleeping" => Cardinality(crashes) <= Len(Delays)

RInv == Typed /\ OneStart /\ Delayed /\ Followed /\ Limited

\* Sets of instants are finite.
LEMMA FiniteInstants ==
    ASSUME NEW n \in Nat, NEW S \in SUBSET (0..n)
    PROVE  /\ IsFiniteSet(S) /\ Cardinality(S) \in Nat
           /\ \A T \in SUBSET S : IsFiniteSet(T) /\ Cardinality(T) \in Nat /\ Cardinality(T) <= Cardinality(S)
<1>1. IsFiniteSet(0..n)
    BY FS_Interval
<1>2. IsFiniteSet(S)
    BY <1>1, FS_Subset
<1>3. \A T \in SUBSET S : IsFiniteSet(T) /\ Cardinality(T) <= Cardinality(S)
    BY <1>2, FS_Subset
<1>4. QED
    BY <1>2, <1>3, FS_CardinalityType

\* Nothing comes after now.
LEMMA NothingLater ==
    ASSUME NEW n \in Nat, NEW S \in SUBSET (0..n)
    PROVE  From(S, n + 1) = {}
<1>1. \A t \in S : t <= n /\ t \in Int
    OBVIOUS
<1>2. \A t \in S : ~(t >= n + 1)
    BY <1>1
<1>3. QED
    BY <1>2 DEF From

\* Fewer instants are outnumbered too.
LEMMA OutnumberedFewer ==
    ASSUME Typed, NEW S \in SUBSET (0..now), NEW T \in SUBSET S, Outnumbered(S)
    PROVE  Outnumbered(T)
<1>1. ASSUME NEW x \in 0..now, now - x <= Window
      PROVE  Cardinality(From(T, x)) <= Cardinality(From(crashes, x))
  <2>1. From(T, x) \in SUBSET From(S, x) /\ From(S, x) \in SUBSET (0..now) /\ From(crashes, x) \in SUBSET (0..now)
    BY DEF From, Typed
  <2>2. /\ Cardinality(From(S, x)) \in Nat /\ Cardinality(From(crashes, x)) \in Nat /\ Cardinality(From(T, x)) \in Nat
        /\ Cardinality(From(T, x)) <= Cardinality(From(S, x))
    BY <2>1, FiniteInstants DEF Typed
  <2>3. Cardinality(From(S, x)) <= Cardinality(From(crashes, x))
    BY <1>1 DEF Outnumbered
  <2>4. QED
    BY <2>2, <2>3
<1>2. QED
    BY <1>1 DEF Outnumbered

\* Time that passes leaves the instants there are, and a shorter stretch of the window before them.
LEMMA Passes ==
    ASSUME RInv, now' = now + 1, UNCHANGED <<process, crashes, lock, wake, launches>>
    PROVE  RInv'
<1>1. Typed'
  <2>1. 0..now \subseteq 0..(now + 1)
    BY DEF RInv, Typed
  <2>2. QED
    BY <2>1 DEF RInv, Typed
<1>2. OneStart' /\ Delayed' /\ Limited'
    BY DEF RInv, Typed, OneStart, Delayed, Limited, Up
<1>3. Followed'
  <2> DEFINE S == IF Up THEN Earlier ELSE launches
  <2>1. S \in SUBSET (0..now) /\ Outnumbered(S) /\ (IF Up THEN Earlier ELSE launches)' = S
    BY DEF RInv, Typed, Earlier, Followed, Up
  <2> HIDE DEF S
  <2>2. ASSUME NEW x \in 0..(now + 1), (now + 1) - x <= Window
        PROVE  Cardinality(From(S, x)) <= Cardinality(From(crashes, x))
    <3>1. CASE x \in 0..now
      <4>1. now - x <= Window
        BY <2>2, <3>1, ConstantsAssumption DEF RInv, Typed
      <4>2. QED
        BY <2>1, <3>1, <4>1 DEF Outnumbered
    <3>2. CASE x \notin 0..now
      <4>1. x = now + 1
        BY <2>2, <3>2 DEF RInv, Typed
      <4>2. From(S, x) = {} /\ From(crashes, x) = {}
        BY <2>1, <4>1, NothingLater DEF RInv, Typed
      <4>3. QED
        BY <4>2, FS_EmptySet
    <3>3. QED
        BY <3>1, <3>2
  <2>3. QED
    BY <2>1, <2>2 DEF Followed, Outnumbered, From
<1>4. QED
    BY <1>1, <1>2, <1>3 DEF RInv

\* Without the last launch there is one less.
LEMMA EarlierIsFinite ==
    ASSUME Typed, NEW x
    PROVE  IsFiniteSet(From(Earlier, x)) /\ Cardinality(From(Earlier, x)) \in Nat
<1>1. From(Earlier, x) \in SUBSET (0..now)
    BY DEF From, Earlier, Typed
<1>2. QED
    BY <1>1, FiniteInstants DEF Typed

\* The launches before the last one are at most one fewer.
LEMMA LastIsOne ==
    ASSUME Typed, NEW x
    PROVE  Cardinality(From(launches, x)) <= Cardinality(From(Earlier, x)) + 1
<1>1. IsFiniteSet(From(Earlier, x)) /\ Cardinality(From(Earlier, x)) \in Nat
    BY EarlierIsFinite
<1>2. \A t \in launches : t \in Int
    BY DEF Typed
<1>3. \A s, t \in launches \ Earlier : s = t
    BY <1>2 DEF Earlier
<1>4. CASE launches \ Earlier = {}
  <2>1. From(launches, x) = From(Earlier, x)
    BY <1>4 DEF From, Earlier
  <2>2. QED
    BY <1>1, <2>1
<1>5. CASE launches \ Earlier # {}
  <2>1. PICK t \in launches : t \notin Earlier
    BY <1>5
  <2>2. PICK S : S = From(Earlier, x)
    OBVIOUS
  <2>3. From(launches, x) \in SUBSET (S \cup {t})
    BY <1>3, <2>1, <2>2 DEF From
  <2>4. IsFiniteSet(S \cup {t}) /\ Cardinality(S \cup {t}) <= Cardinality(S) + 1
    <3>1. IsFiniteSet(S) /\ Cardinality(S) \in Nat
        BY <1>1, <2>2
    <3>2. IsFiniteSet(S \cup {t}) /\ Cardinality(S \cup {t}) = IF t \in S THEN Cardinality(S) ELSE Cardinality(S) + 1
        BY <3>1, FS_AddElement
    <3>3. QED
        BY <3>1, <3>2
  <2>5. /\ Cardinality(From(launches, x)) <= Cardinality(S \cup {t})
        /\ IsFiniteSet(From(launches, x))
    BY <2>3, <2>4, FS_Subset
  <2>6. Cardinality(S \cup {t}) \in Nat /\ Cardinality(From(launches, x)) \in Nat
    BY <2>4, <2>5, FS_CardinalityType
  <2>7. QED
    BY <1>1, <2>2, <2>4, <2>5, <2>6
<1>6. QED
    BY <1>4, <1>5

\* The crashes of the window, with the one that is noticed now.
LEMMA CrashIsCounted ==
    ASSUME Typed, Delayed, Up, NEW x \in 0..now, now - x <= Window
    PROVE  Cardinality(From(Recent(crashes \cup {now}), x)) = Cardinality(From(crashes, x)) + 1
<1>1. now \notin crashes /\ x \in Nat /\ now \in Nat /\ Window \in Nat
    BY ConstantsAssumption DEF Typed, Delayed
<1>2. From(Recent(crashes \cup {now}), x) = From(crashes, x) \cup {now}
  <2>1. \A t \in crashes : t \in Nat
    BY DEF Typed
  <2>2. \A t \in crashes : t >= x => now - t <= Window
    BY <1>1, <2>1
  <2>3. now >= x /\ now - now <= Window
    BY <1>1
  <2>4. QED
    BY <2>2, <2>3 DEF From, Recent
<1>3. From(crashes, x) \in SUBSET (0..now) /\ now \notin From(crashes, x)
    BY <1>1 DEF From, Typed
<1>4. IsFiniteSet(From(crashes, x))
    BY <1>1, <1>3, FiniteInstants
<1>5. QED
    BY <1>2, <1>3, <1>4, FS_AddElement

\* Crashes that are dropped from the window leave those that count.
LEMMA CrashesStay ==
    ASSUME Typed, NEW x \in 0..now, now - x <= Window
    PROVE  From(Recent(crashes), x) = From(crashes, x)
<1>1. x \in Nat /\ now \in Nat /\ Window \in Nat
    BY ConstantsAssumption DEF Typed
<1>2. \A t \in crashes : t \in Nat
    BY DEF Typed
<1>3. \A t \in crashes : t >= x => now - t <= Window
    BY <1>1, <1>2
<1>4. QED
    BY <1>3 DEF From, Recent

\* A request that finds no Host alive counts the crash, if there was one: what was up is one launch more,
\* and one crash more.
LEMMA EndpointKeeps ==
    ASSUME RInv, HarnessEndpoint
    PROVE  RInv'
<1> DEFINE counted == Recent(IF process = "dead" THEN crashes \cup {now} ELSE crashes)
           n == Cardinality(counted)
<1>0. Typed /\ OneStart /\ Delayed /\ Followed /\ Limited
    BY DEF RInv
<1>1. /\ lock = "free" /\ process # "alive" /\ process' = "none" /\ now' = now /\ launches' = launches
      /\ crashes' = counted
      /\ \/ n > Len(Delays) /\ lock' = lock /\ wake' = wake
         \/ ~(n > Len(Delays)) /\ lock' = "sleeping" /\ wake' = now + RestartDelay(n)
    BY DEF HarnessEndpoint
<1>2. now \in 0..now /\ Len(Delays) \in Nat
    BY <1>0, ConstantsAssumption DEF Typed
<1>3. counted \in SUBSET (0..now)
    BY <1>0, <1>2 DEF Typed, Recent
<1>4. n \in Nat /\ Cardinality(crashes) \in Nat
    BY <1>0, <1>3, FiniteInstants DEF Typed
<1>5. n <= Len(Delays) + 1
  <2>1. CASE process = "dead"
    <3>1. Cardinality(crashes) <= Len(Delays)
        BY <1>0, <2>1 DEF Limited, Up
    <3>2. counted \in SUBSET (crashes \cup {now})
        BY <2>1 DEF Recent
    <3>3. IsFiniteSet(crashes)
        BY <1>0, FiniteInstants DEF Typed
    <3>4. IsFiniteSet(crashes \cup {now}) /\ Cardinality(crashes \cup {now}) <= Cardinality(crashes) + 1
        BY <1>4, <3>3, FS_AddElement
    <3> HIDE DEF counted
    <3>5. Cardinality(counted) <= Cardinality(crashes \cup {now})
        BY <3>2, <3>4, FS_Subset
    <3>6. Cardinality(crashes \cup {now}) \in Nat
        BY <3>4, FS_CardinalityType
    <3>7. QED
        BY <1>2, <1>4, <3>1, <3>4, <3>5, <3>6
  <2>2. CASE process # "dead"
    <3>1. counted \in SUBSET crashes
        BY <2>2 DEF Recent
    <3> HIDE DEF counted
    <3>2. Cardinality(counted) <= Cardinality(crashes)
        BY <1>0, <3>1, FiniteInstants DEF Typed
    <3>3. QED
        BY <1>0, <1>2, <1>4, <3>2 DEF Limited
  <2>3. QED
    BY <2>1, <2>2
<1>6. ~(n > Len(Delays)) => /\ RestartDelay(n) \in Nat
                            /\ \A c \in counted : c < now + RestartDelay(n)
  <2> SUFFICES ASSUME ~(n > Len(Delays)) 
               PROVE  RestartDelay(n) \in Nat /\ \A c \in counted : c < now + RestartDelay(n)
    OBVIOUS
  <2> HIDE DEF counted
  <2>1. CASE n = 0
    <3>1. counted = {}
        BY <1>0, <1>3, <2>1, FiniteInstants, FS_EmptySet DEF Typed
    <3>2. QED
        BY <2>1, <3>1 DEF RestartDelay
  <2>2. CASE n # 0
    <3>1. n \in 1..Len(Delays)
        BY <1>2, <1>4, <2>2
    <3> HIDE DEF n
    <3>2. Delays[n] \in Nat \ {0}
        BY <3>1, ConstantsAssumption
    <3>3. RestartDelay(n) = Delays[n]
        BY <3>1 DEF RestartDelay
    <3>4. \A c \in counted : c \in Nat /\ c <= now
        BY <1>3
    <3>5. QED
        BY <1>0, <3>2, <3>3, <3>4 DEF Typed
  <2>3. QED
    BY <2>1, <2>2
<1>7. Typed'
  <2> HIDE DEF counted, n
  <2>1. wake' \in Nat
    BY <1>0, <1>1, <1>6 DEF Typed
  <2>2. QED
    BY <1>0, <1>1, <1>3, <2>1 DEF Typed
<1>8. OneStart' /\ Delayed'
    BY <1>1, <1>6 DEF OneStart, Delayed, Up
<1>9. Limited'
  <2> HIDE DEF counted
  <2>1. n = Cardinality(crashes')
    BY <1>1
  <2>2. QED
    BY <1>1, <1>2, <1>4, <1>5, <2>1 DEF Limited, Up
<1>10. Followed'
  <2>1. ~Up'
    BY <1>1 DEF Up
  <2>2. ASSUME NEW x \in 0..now, now - x <= Window
        PROVE  Cardinality(From(launches, x)) <= Cardinality(From(counted, x))
    <3>0. /\ IsFiniteSet(From(launches, x)) /\ Cardinality(From(launches, x)) \in Nat
          /\ IsFiniteSet(From(crashes, x)) /\ Cardinality(From(crashes, x)) \in Nat
      <4>1. From(launches, x) \in SUBSET (0..now) /\ From(crashes, x) \in SUBSET (0..now)
        BY <1>0 DEF Typed, From
      <4>2. QED
        BY <1>0, <4>1, FiniteInstants DEF Typed
    <3>1. CASE process = "dead"
      <4>1. Up
        BY <3>1 DEF Up
      <4>2. Cardinality(From(Earlier, x)) <= Cardinality(From(crashes, x))
        BY <1>0, <2>2, <4>1 DEF Followed, Outnumbered
      <4>3. Cardinality(From(launches, x)) <= Cardinality(From(Earlier, x)) + 1
        BY <1>0, <2>2, LastIsOne
      <4>4. Cardinality(From(counted, x)) = Cardinality(From(crashes, x)) + 1
        BY <1>0, <2>2, <3>1, <4>1, CrashIsCounted
      <4>5. Cardinality(From(Earlier, x)) \in Nat
        BY <1>0, EarlierIsFinite
      <4>6. QED
        BY <3>0, <4>2, <4>3, <4>4, <4>5
    <3>2. CASE process # "dead"
      <4>1. ~Up
        BY <1>0, <1>1, <3>2 DEF Up, Typed
      <4>2. From(counted, x) = From(crashes, x)
        BY <1>0, <2>2, <3>2, CrashesStay
      <4>3. QED
        BY <1>0, <2>2, <4>1, <4>2 DEF Followed, Outnumbered
    <3>3. QED
        BY <3>1, <3>2
  <2> HIDE DEF counted
  <2>3. QED
    BY <1>1, <2>1, <2>2 DEF Followed, Outnumbered, From
<1>11. QED
    BY <1>7, <1>8, <1>9, <1>10 DEF RInv

\* Any other step of the Host's side.
LEMMA LaunchKeeps ==
    ASSUME RInv, Launch
    PROVE  RInv'
<1>0. Typed /\ OneStart /\ Delayed /\ Followed /\ Limited
    BY DEF RInv
<1>1. /\ lock = "sleeping" /\ now >= wake /\ lock' = "starting" /\ UNCHANGED <<now, process, crashes, wake>>
      /\ launches' = {t \in launches : now - t < Window} \cup {now}
    BY DEF Launch
<1>2. now \in 0..now
    BY <1>0 DEF Typed
<1>3. Typed'
    BY <1>0, <1>1, <1>2 DEF Typed
<1>4. OneStart' /\ Delayed' /\ Limited' /\ Up' /\ ~Up
    BY <1>0, <1>1 DEF Typed, OneStart, Delayed, Limited, Up
<1>5. Followed'
  <2>1. Earlier' \in SUBSET launches
    <3>1. \A t \in launches' : ~(now < t)
        BY <1>0, <1>1 DEF Typed
    <3>2. now \notin Earlier'
        BY <3>1 DEF Earlier
    <3>3. QED
        BY <1>1, <3>2 DEF Earlier
  <2>2. launches \in SUBSET (0..now) /\ Outnumbered(launches)
    BY <1>0, <1>4 DEF Typed, Followed
  <2>3. PICK S : S = Earlier'
    OBVIOUS
  <2>4. Outnumbered(S)
    BY <1>0, <2>1, <2>2, <2>3, OutnumberedFewer
  <2>5. QED
    BY <1>1, <1>4, <2>3, <2>4 DEF Followed, Outnumbered, From
<1>6. QED
    BY <1>3, <1>4, <1>5 DEF RInv

\* What changes neither the instants nor whether a process is up.
LEMMA RestKeeps ==
    ASSUME RInv, UNCHANGED <<now, crashes, wake, launches>>, Up' <=> Up,
           process' \in {"none", "alive", "dead"}, lock' \in {"free", "sleeping", "starting", "sent"},
           lock' = "sleeping" => lock = "sleeping" /\ process' = process
    PROVE  RInv'
<1>1. Typed' /\ OneStart'
    BY DEF RInv, Typed, OneStart
<1>2. Delayed' /\ Limited'
    BY DEF RInv, Delayed, Limited
<1>3. Followed'
    BY DEF RInv, Followed, Outnumbered, From, Earlier
<1>4. QED
    BY <1>1, <1>2, <1>3 DEF RInv

\* Every step leaves it so.
LEMMA RStep ==
    ASSUME RInv, [Next]_vars
    PROVE  RInv'
<1>0. Typed /\ OneStart /\ Delayed /\ Followed /\ Limited /\ Len(Delays) \in Nat
    BY ConstantsAssumption DEF RInv
<1>1. CASE RestartHarnessHost
  <2>1. /\ lock = "free" /\ crashes' = {} /\ launches' = {} /\ UNCHANGED <<now, process, lock, wake>>
    BY <1>1 DEF RestartHarnessHost
  <2>2. Cardinality({}) = 0
    BY FS_EmptySet
  <2>3. Typed' /\ OneStart' /\ Delayed' /\ Limited'
    BY <1>0, <2>1, <2>2 DEF Typed, OneStart, Delayed, Limited, Up
  <2>4. \A x \in 0..now' : From({}, x) = {}
    BY DEF From
  <2>5. (IF Up THEN Earlier ELSE launches)' = {}
    BY <2>1 DEF Earlier
  <2>6. Followed'
    BY <2>1, <2>2, <2>4, <2>5 DEF Followed, Outnumbered, From
  <2>7. QED
    BY <2>3, <2>6 DEF RInv
<1>2. CASE StartFails
  <2>1. /\ lock = "starting" /\ lock' = "free" /\ process' = "none" /\ launches' = Earlier
        /\ UNCHANGED <<now, crashes, wake>>
    BY <1>2 DEF StartFails
  <2>2. Typed' /\ OneStart' /\ Delayed' /\ Limited' /\ ~Up' /\ Up
    BY <1>0, <2>1 DEF Typed, OneStart, Delayed, Limited, Up, Earlier
  <2>3. Followed'
    BY <1>0, <2>1, <2>2 DEF Followed, Outnumbered, From
  <2>4. QED
    BY <2>2, <2>3 DEF RInv
<1>3. CASE SendSettings \/ Started \/ Dies \/ (\E w \in Writers : SetSettings(w)) \/ UNCHANGED vars
  <2>1. /\ UNCHANGED <<now, crashes, wake, launches>>
        /\ process' \in {"none", "alive", "dead"} /\ lock' \in {"free", "sleeping", "starting", "sent"}
        /\ lock' = "sleeping" => lock = "sleeping" /\ process' = process
    BY <1>0, <1>3 DEF SendSettings, Started, Dies, SetSettings, Validate, SaveFile, Store, PushSettings, vars, Typed, OneStart,
                    settings
  <2>2. Up' <=> Up
    BY <1>0, <1>3 DEF SendSettings, Started, Dies, SetSettings, Validate, SaveFile, Store, PushSettings, vars, Up, settings
  <2>3. QED
    BY <2>1, <2>2, RestKeeps
<1>4. CASE Tick
    BY <1>4, Passes DEF Tick
<1>5. QED
    BY <1>1, <1>2, <1>3, <1>4, EndpointKeeps, LaunchKeeps DEF Next

\* However often the Host dies and whenever requests come, no more processes come up within a crash
\* window than there are delays, the first start included, between two restart_harness_host: each one
\* but the last was followed by a crash, and that crash is remembered as long as its launch counts.
THEOREM RestartsLimited == Spec => []RestartsAreLimited
<1>1. Init => RInv
  <2>1. Cardinality({}) = 0
    BY FS_EmptySet
  <2>2. \A x : From({}, x) = {}
    BY DEF From
  <2>3. Len(Delays) \in Nat
    BY ConstantsAssumption
  <2>4. Init => /\ Typed /\ OneStart /\ Delayed /\ Limited
                /\ launches = {} /\ crashes = {} /\ Earlier = {}
    BY <2>1, <2>3 DEF Init, Typed, OneStart, Delayed, Limited, Up, Earlier
  <2>5. QED
    BY <2>1, <2>2, <2>4 DEF RInv, Followed, Outnumbered
<1>2. RInv /\ [Next]_vars => RInv'
    BY RStep
<1>3. RInv => RestartsAreLimited
  <2> SUFFICES ASSUME RInv PROVE RestartsAreLimited
    OBVIOUS
  <2>0. Typed /\ Followed /\ Limited /\ Len(Delays) \in Nat /\ Window \in Nat \ {0}
    BY ConstantsAssumption DEF RInv
  <2>1. PICK x \in 0..now : now - x <= Window /\ \A t \in 0..now : now - t < Window <=> t >= x
    <3>1. CASE now < Window
      <4>1. 0 \in 0..now /\ now - 0 <= Window /\ \A t \in 0..now : now - t < Window <=> t >= 0
        BY <2>0, <3>1 DEF Typed
      <4>2. QED
        BY <4>1
    <3>2. CASE now >= Window
      <4>1. now - Window + 1 \in 0..now
        BY <2>0, <3>2 DEF Typed
      <4>2. /\ now - (now - Window + 1) <= Window
            /\ \A t \in 0..now : now - t < Window <=> t >= now - Window + 1
        BY <2>0 DEF Typed
      <4>3. QED
        BY <4>1, <4>2
    <3>3. QED
        BY <2>0, <3>1, <3>2 DEF Typed
  <2>2. {t \in launches : now - t < Window} = From(launches, x)
    BY <2>0, <2>1 DEF From, Typed
  <2>3. /\ Cardinality(From(launches, x)) \in Nat /\ Cardinality(From(crashes, x)) \in Nat
        /\ Cardinality(crashes) \in Nat /\ Cardinality(From(crashes, x)) <= Cardinality(crashes)
    <3>1. From(launches, x) \in SUBSET (0..now) /\ From(crashes, x) \in SUBSET crashes
        BY <2>0 DEF From, Typed
    <3>2. QED
        BY <2>0, <3>1, FiniteInstants DEF Typed
  <2>4. CASE Up
    <3>1. Cardinality(From(Earlier, x)) <= Cardinality(From(crashes, x)) /\ Cardinality(crashes) <= Len(Delays)
        BY <2>0, <2>1, <2>4 DEF Followed, Outnumbered, Limited
    <3>2. Cardinality(From(launches, x)) <= Cardinality(From(Earlier, x)) + 1 /\ Cardinality(From(Earlier, x)) \in Nat
        BY <2>0, LastIsOne, EarlierIsFinite
    <3>3. Cardinality(From(launches, x)) <= Len(Delays) + 1
        BY <2>0, <2>3, <3>1, <3>2
    <3>4. QED
        BY <2>2, <3>3 DEF RestartsAreLimited
  <2>5. CASE ~Up
    <3>1. Cardinality(From(launches, x)) <= Cardinality(From(crashes, x)) /\ Cardinality(crashes) <= Len(Delays) + 1
        BY <2>0, <2>1, <2>5 DEF Followed, Outnumbered, Limited
    <3>2. Cardinality(From(launches, x)) <= Len(Delays) + 1
        BY <2>0, <2>3, <3>1
    <3>3. QED
        BY <2>2, <3>2 DEF RestartsAreLimited
  <2>6. QED
    BY <2>4, <2>5
<1>4. QED
    BY <1>1, <1>2, <1>3, PTL DEF Spec
=============================================================================
