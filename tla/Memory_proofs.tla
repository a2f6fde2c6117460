---------------------------- MODULE Memory_proofs ----------------------------
(***************************************************************************)
(* Proofs about Memory: it is well-typed whatever happens, and as long as   *)
(* nobody writes over what has changed since it was read, and the file is   *)
(* not touched while it is being written (Careful), no entry is lost that   *)
(* nobody has removed.  The code lacks both: each of the five races can     *)
(* lose one.                                                                *)
(*                                                                          *)
(* The inductive invariant says what each writer is about to leave: the     *)
(* entries to keep are in the content, or, while the file is being written  *)
(* anew, in what the one writer is writing.                                 *)
(***************************************************************************)
EXTENDS Memory, TLAPS

Contents == SUBSET Nat
Calls == [pc : {"idle", "reading", "judging", "asked", "saving", "writing"},
          action : {"read", "append", "replace", "clear"}, entry : Nat,
          current : Contents, next : Contents, consent : BOOLEAN]
Requests == {"none", "set", "writing", "answer", "delete", "cleared"}
States ==
    [scope : {"user", "project"}, trusted : BOOLEAN, mode : Modes, canAsk : BOOLEAN, content : Contents,
     calls : [Callers -> Calls], ops : Nat,
     loaded : BOOLEAN, data : Contents, text : Contents, touched : BOOLEAN, reading : BOOLEAN,
     request : Requests, sent : Contents, base : Contents, kept : Contents, prompt : Contents]
TypeOK == me \in States

\* Who writes, with the user's yes, with full access or from the panel, writes over the content it has
\* seen, and a file that is being written is neither read nor written nor left so.
Careful == Races \cap {"late confirm", "lost update", "blind save", "overlap", "half written"} = {}

\* There is one writer at a time, and what is to be kept is where it will be.
OneWriter ==
    /\ \A c \in Callers : Writing(c) =>
          /\ me.request # "writing" /\ me.kept \subseteq me.calls[c].next
          /\ \A d \in Callers : Writing(d) => d = c
    /\ me.request = "writing" => me.kept \subseteq me.sent

IInv == TypeOK /\ OneWriter /\ EntriesAreKept

-----------------------------------------------------------------------------
\* What a tool makes of a content is a content.
LEMMA ChangedIsContent ==
    ASSUME NEW current \in Contents, NEW entry \in Nat, NEW action
    PROVE  Changed(current, action, entry) \in Contents
BY DEF Changed, Contents, Nothing

\* What is kept through a write against the content itself is in what is written.
LEMMA KeptIsWritten ==
    ASSUME TypeOK, NEW seen \in Contents, NEW next \in Contents
    PROVE  /\ Kept(seen, next) \in Contents
           /\ me.kept \subseteq seen => Kept(seen, next) \subseteq next
BY DEF TypeOK, States, Kept, Contents

\* What a reader of the file finds is a content.
LEMMA OnDiskIsContent == ASSUME TypeOK PROVE OnDisk \in Contents
BY DEF TypeOK, States, OnDisk, Contents, Nothing

\* What the panel shows changes nothing else.
LEMMA SyncedIsTyped ==
    ASSUME TypeOK, NEW data \in Contents
    PROVE  LET x == Synced(me, data) IN
           /\ x = [me EXCEPT !.loaded = x.loaded, !.data = x.data, !.text = x.text, !.touched = x.touched]
           /\ x.loaded \in BOOLEAN /\ x.touched \in BOOLEAN /\ x.data \in Contents /\ x.text \in Contents
<1>1. CASE Synced(me, data) = me
      BY <1>1 DEF TypeOK, States
<1>2. CASE Synced(me, data) = [me EXCEPT !.loaded = TRUE, !.data = data, !.text = data, !.touched = FALSE]
      BY <1>2 DEF TypeOK, States
<1>q. QED BY <1>1, <1>2 DEF Synced

\* The absent call has the fields of one.
LEMMA NoCallIsCall == NoCall \in Calls
BY DEF NoCall, Calls, Contents, Nothing

\* The start is well-typed.
LEMMA InitIsTyped == Init => TypeOK
<1> SUFFICES ASSUME Init PROVE TypeOK
    OBVIOUS
<1>1. PICK scope \in {"user", "project"}, mode \in Modes, canAsk \in BOOLEAN, first \in SUBSET {1} :
       me = [scope |-> scope, trusted |-> TRUE, mode |-> mode, canAsk |-> canAsk, content |-> first,
             calls |-> [c \in Callers |-> NoCall], ops |-> 1,
             loaded |-> FALSE, data |-> Nothing, text |-> Nothing, touched |-> FALSE, reading |-> FALSE,
             request |-> "none", sent |-> Nothing, base |-> Nothing,
             kept |-> first, prompt |-> Nothing]
      BY DEF Init
<1>2. first \in Contents /\ Nothing \in Contents
      BY DEF Contents, Nothing
<1>q. QED BY <1>1, <1>2, NoCallIsCall DEF TypeOK, States, Requests

-----------------------------------------------------------------------------
\* Steps of a call, and those of the panel and of others, keep the types.
LEMMA ToolIsTyped ==
    ASSUME TypeOK, NEW c \in Callers,
           \/ Reads(c) \/ Judges(c) \/ ToolSaves(c) \/ ToolSaved(c)
           \/ \E action \in {"read", "append", "replace", "clear"} : Begin(c, action)
           \/ \E yes \in BOOLEAN : Answer(c, yes)
    PROVE  TypeOK'
<1>c. me.calls[c] \in Calls /\ me.ops \in Nat /\ me.ops + 1 \in Nat
      BY DEF TypeOK, States
<1>n. NoCall \in Calls
      BY NoCallIsCall
<1>d. OnDisk \in Contents
      BY OnDiskIsContent
<1>1. ASSUME NEW action \in {"read", "append", "replace", "clear"}, Begin(c, action) PROVE TypeOK'
  <2>1. [NoCall EXCEPT !.pc = "reading", !.action = action, !.entry = me.ops + 1] \in Calls
        BY <1>c, <1>n DEF Calls
  <2>q. QED BY <1>1, <2>1, <1>c DEF Begin, TypeOK, States, User, Set
<1>2. CASE Reads(c)
  <2> DEFINE next == Changed(OnDisk, me.calls[c].action, me.calls[c].entry)
  <2>1. next \in Contents
        BY <1>c, <1>d, ChangedIsContent DEF Calls
  <2>2. [me.calls[c] EXCEPT !.pc = "judging", !.current = OnDisk, !.next = next] \in Calls
        BY <1>c, <1>d, <2>1 DEF Calls
  <2>3. me' = Set(c, NoCall) \/ me' = Set(c, [me.calls[c] EXCEPT !.pc = "judging", !.current = OnDisk, !.next = next])
        BY <1>2 DEF Reads
  <2>q. QED BY <2>2, <2>3, <1>n DEF TypeOK, States, Set
<1>3. CASE Judges(c)
  <2>1. /\ [me.calls[c] EXCEPT !.pc = "saving"] \in Calls
        /\ [me.calls[c] EXCEPT !.pc = "asked"] \in Calls
        BY <1>c DEF Calls
  <2>2. \/ me' = Set(c, [me.calls[c] EXCEPT !.pc = "saving"]) \/ me' = Set(c, [me.calls[c] EXCEPT !.pc = "asked"])
        \/ me' = Set(c, NoCall)
        BY <1>3 DEF Judges
  <2>q. QED BY <2>1, <2>2, <1>n DEF TypeOK, States, Set
<1>4. ASSUME NEW yes \in BOOLEAN, Answer(c, yes) PROVE TypeOK'
  <2>1. [me.calls[c] EXCEPT !.pc = "saving", !.consent = TRUE] \in Calls
        BY <1>c DEF Calls
  <2>q. QED BY <1>4, <2>1, <1>n DEF Answer, TypeOK, States, Set
<1>5. CASE ToolSaves(c)
  <2>1. [me.calls[c] EXCEPT !.pc = "writing"] \in Calls
        BY <1>c DEF Calls
  <2>2. Kept(me.calls[c].current, me.calls[c].next) \in Contents
        BY <1>c, KeptIsWritten DEF Calls
  <2>q. QED BY <1>5, <2>1, <2>2 DEF ToolSaves, TypeOK, States, Set
<1>6. CASE ToolSaved(c)
      BY <1>6, <1>c, <1>n DEF ToolSaved, TypeOK, States, Set, Calls
<1>q. QED BY <1>1, <1>2, <1>3, <1>4, <1>5, <1>6

\* So is every state after one of the panel's steps.
LEMMA PanelIsTyped ==
    ASSUME TypeOK,
           \/ \E text \in {me.text \cup {me.ops + 1}, Nothing} : Type(text)
           \/ Open \/ Loaded \/ Save \/ Clear \/ SetStarts \/ SetEnds \/ Deletes \/ Answered \/ HostDies
           \/ BuildsPrompt \/ SetTrust
           \/ \E mode \in Modes : SetMode(mode)
    PROVE  TypeOK'
<1>d. OnDisk \in Contents /\ Nothing \in Contents
      BY OnDiskIsContent DEF Contents, Nothing
<1>o. me.ops + 1 \in Nat
      BY DEF TypeOK, States
<1>1. ASSUME NEW text \in {me.text \cup {me.ops + 1}, Nothing}, Type(text) PROVE TypeOK'
  <2>1. text \in Contents
        BY <1>o, <1>d DEF TypeOK, States, Contents
  <2>q. QED BY <1>1, <2>1, <1>o DEF Type, TypeOK, States, User
<1>2. CASE Open
      BY <1>2, <1>o DEF Open, TypeOK, States, User
<1>3. CASE Loaded
  <2> DEFINE x == Synced(me, OnDisk)
  <2>1. me' = [x EXCEPT !.reading = FALSE, !.base = OnDisk]
        BY <1>3 DEF Loaded
  <2>2. /\ x = [me EXCEPT !.loaded = x.loaded, !.data = x.data, !.text = x.text, !.touched = x.touched]
        /\ x.loaded \in BOOLEAN /\ x.touched \in BOOLEAN /\ x.data \in Contents /\ x.text \in Contents
        BY <1>d, SyncedIsTyped
  <2> HIDE DEF x
  <2>q. QED BY <2>1, <2>2, <1>d DEF TypeOK, States
<1>4. CASE Save
      BY <1>4, <1>o DEF Save, TypeOK, States, User, Requests
<1>5. CASE Clear
      BY <1>5, <1>o, <1>d DEF Clear, TypeOK, States, User, Requests
<1>6. CASE SetStarts
  <2>1. Kept(me.base, me.sent) \in Contents
        BY KeptIsWritten DEF TypeOK, States
  <2>q. QED BY <1>6, <2>1 DEF SetStarts, TypeOK, States, Requests
<1>7. CASE SetEnds
      BY <1>7 DEF SetEnds, TypeOK, States, Requests
<1>8. CASE Deletes
  <2>1. Kept(me.base, Nothing) \in Contents
        BY <1>d, KeptIsWritten DEF TypeOK, States
  <2> DEFINE calls == [c \in Callers |-> IF Writing(c) THEN [me.calls[c] EXCEPT !.next = Nothing] ELSE me.calls[c]]
  <2>2. calls \in [Callers -> Calls]
        BY <1>d DEF TypeOK, States, Calls
  <2>3. me' = [me EXCEPT !.request = "cleared", !.content = Nothing, !.kept = Kept(me.base, Nothing), !.calls = calls]
        BY <1>8 DEF Deletes
  <2> HIDE DEF calls
  <2>q. QED BY <2>1, <2>2, <2>3, <1>d DEF TypeOK, States, Requests
<1>9. CASE Answered
  <2> DEFINE x == Synced(me, me.sent)
             y == [x EXCEPT !.request = "none", !.base = me.sent]
  <2>1. me' = y \/ me' = [y EXCEPT !.text = Nothing, !.touched = FALSE]
        BY <1>9 DEF Answered
  <2>2. /\ x = [me EXCEPT !.loaded = x.loaded, !.data = x.data, !.text = x.text, !.touched = x.touched]
        /\ x.loaded \in BOOLEAN /\ x.touched \in BOOLEAN /\ x.data \in Contents /\ x.text \in Contents
    <3>1. me.sent \in Contents
          BY DEF TypeOK, States
    <3>q. QED BY <3>1, SyncedIsTyped
  <2> HIDE DEF x
  <2>3. x \in States
        BY <2>2 DEF TypeOK, States
  <2>4. y \in States
        BY <2>3 DEF TypeOK, States, Requests
  <2> HIDE DEF y
  <2>5. [y EXCEPT !.text = Nothing, !.touched = FALSE] \in States
        BY <2>4, <1>d DEF States
  <2>q. QED BY <2>1, <2>4, <2>5 DEF TypeOK
<1>10. CASE HostDies
      BY <1>10, <1>d, <1>o, NoCallIsCall DEF HostDies, TypeOK, States, User, Requests
<1>11. CASE BuildsPrompt
      BY <1>11, <1>d DEF BuildsPrompt, TypeOK, States
<1>12. CASE SetTrust
      BY <1>12, <1>o DEF SetTrust, TypeOK, States, User
<1>13. ASSUME NEW mode \in Modes, SetMode(mode) PROVE TypeOK'
      BY <1>13, <1>o DEF SetMode, TypeOK, States, User
<1>q. QED BY <1>1, <1>2, <1>3, <1>4, <1>5, <1>6, <1>7, <1>8, <1>9, <1>10, <1>11, <1>12, <1>13

\* Every state of the memory, its file, its calls and its panel is well-typed, whatever races.
THEOREM TypeCorrect == Spec => []TypeOK
<1>1. TypeOK /\ [Next]_me => TypeOK'
  <2> SUFFICES ASSUME TypeOK, [Next]_me PROVE TypeOK'
      OBVIOUS
  <2>1. CASE UNCHANGED me
        BY <2>1 DEF TypeOK, States
  <2>2. CASE Next
        BY <2>2, ToolIsTyped, PanelIsTyped DEF Next
  <2>q. QED BY <2>1, <2>2
<1>q. QED BY <1>1, InitIsTyped, PTL DEF Spec

-----------------------------------------------------------------------------
\* A step that leaves the file, what is to be kept, the panel's call and every call's writing as they
\* were, or ends calls that did not write, keeps who writes what.
LEMMA NothingWritten ==
    ASSUME OneWriter, EntriesAreKept,
           me'.content = me.content, me'.kept = me.kept,
           me'.request = "writing" <=> me.request = "writing", me.request = "writing" => me'.sent = me.sent,
           \A c \in Callers : me'.calls[c].pc = "writing" <=> me.calls[c].pc = "writing",
           \A c \in Callers : me.calls[c].pc = "writing" => me'.calls[c].next = me.calls[c].next
    PROVE  (OneWriter /\ EntriesAreKept)'
<1>1. BeingWritten' <=> BeingWritten
      BY DEF BeingWritten, Writing
<1>q. QED BY <1>1 DEF OneWriter, EntriesAreKept, Writing

\* A tool's steps keep the invariant.
LEMMA ToolKeeps ==
    ASSUME Careful, IInv, NEW c \in Callers,
           \/ Reads(c) \/ Judges(c) \/ ToolSaves(c) \/ ToolSaved(c)
           \/ \E action \in {"read", "append", "replace", "clear"} : Begin(c, action)
           \/ \E yes \in BOOLEAN : Answer(c, yes)
    PROVE  (OneWriter /\ EntriesAreKept)'
<1>t. /\ TypeOK /\ OneWriter /\ EntriesAreKept
      /\ DOMAIN me.calls = Callers
      BY DEF IInv, TypeOK, States
<1>c. me.calls[c] \in Calls
      BY <1>t DEF TypeOK, States
<1>1. CASE /\ me.calls[c].pc # "writing"
           /\ \/ Reads(c) \/ Judges(c)
              \/ \E action \in {"read", "append", "replace", "clear"} : Begin(c, action)
              \/ \E yes \in BOOLEAN : Answer(c, yes)
  <2>1. PICK call : \/ me' = Set(c, call) /\ call.pc # "writing"
                    \/ me' = User(Set(c, call)) /\ call.pc # "writing"
                    \/ me' = User(me)
    <3>1. CASE Reads(c)
      <4> DEFINE next == Changed(OnDisk, me.calls[c].action, me.calls[c].entry)
                 judged == [me.calls[c] EXCEPT !.pc = "judging", !.current = OnDisk, !.next = next]
      <4>1. me' = Set(c, NoCall) \/ me' = Set(c, judged)
            BY <3>1 DEF Reads
      <4>2. NoCall.pc # "writing" /\ judged.pc # "writing"
            BY <1>c DEF NoCall, Calls
      <4>q. QED BY <4>1, <4>2
    <3>2. CASE Judges(c)
      <4>1. \/ me' = Set(c, [me.calls[c] EXCEPT !.pc = "saving"]) \/ me' = Set(c, [me.calls[c] EXCEPT !.pc = "asked"])
            \/ me' = Set(c, NoCall)
            BY <3>2 DEF Judges
      <4>q. QED BY <4>1, <1>c DEF NoCall, Calls
    <3>3. ASSUME NEW action \in {"read", "append", "replace", "clear"}, Begin(c, action)
          PROVE  \/ me' = User(me)
                 \/ \E call : me' = User(Set(c, call)) /\ call.pc # "writing"
      <4> DEFINE begun == [NoCall EXCEPT !.pc = "reading", !.action = action, !.entry = me.ops + 1]
      <4>1. me' = User(Set(c, begun)) \/ me' = User(me)
            BY <3>3 DEF Begin
      <4>2. begun.pc # "writing"
            BY DEF NoCall
      <4>q. QED BY <4>1, <4>2
    <3>4. ASSUME NEW yes \in BOOLEAN, Answer(c, yes)
          PROVE  \E call : me' = Set(c, call) /\ call.pc # "writing"
      <4> DEFINE allowed == [me.calls[c] EXCEPT !.pc = "saving", !.consent = TRUE]
      <4>1. me' = Set(c, allowed) \/ me' = Set(c, NoCall)
            BY <3>4 DEF Answer
      <4>2. NoCall.pc # "writing" /\ allowed.pc # "writing"
            BY <1>c DEF NoCall, Calls
      <4>q. QED BY <4>1, <4>2
    <3>q. QED BY <1>1, <3>1, <3>2, <3>3, <3>4
  <2>2. /\ me'.content = me.content /\ me'.kept = me.kept
        /\ me'.request = me.request /\ me'.sent = me.sent
        /\ me'.calls = me.calls \/ me'.calls = [me.calls EXCEPT ![c] = call]
        BY <2>1, <1>t DEF Set, User, TypeOK, States
  <2>3. me'.calls = me.calls \/ call.pc # "writing"
        BY <2>1, <1>t DEF User, TypeOK, States
  <2>q. QED BY <2>2, <2>3, <1>1, <1>t, NothingWritten
<1>2. CASE ToolSaves(c)
  <2> DEFINE call == me.calls[c]
  <2>1. /\ ~BeingWritten /\ me.content = call.current /\ call.pc = "saving"
        BY <1>2 DEF ToolSaves, Writable, Careful
  <2>2. /\ me'.kept = Kept(call.current, call.next) /\ me'.request = me.request
        /\ me'.calls = [me.calls EXCEPT ![c] = [call EXCEPT !.pc = "writing"]]
        BY <1>2, <1>t DEF ToolSaves, Set, TypeOK, States
  <2>3. Kept(call.current, call.next) \subseteq call.next
        BY <2>1, <1>c, <1>t, KeptIsWritten DEF Calls, EntriesAreKept
  <2>4. me.request # "writing" /\ \A d \in Callers : me.calls[d].pc # "writing"
        BY <2>1 DEF BeingWritten, Writing
  <2>5. [call EXCEPT !.pc = "writing"].next = call.next
        BY <1>c DEF Calls
  <2>6. BeingWritten'
    <3>1. me'.calls[c].pc = "writing"
          BY <2>2, <1>t, <1>c DEF Calls
    <3>q. QED BY <3>1 DEF BeingWritten, Writing
  <2>7. OneWriter'
        BY <2>2, <2>3, <2>4, <2>5, <1>t DEF OneWriter, Writing
  <2>q. QED BY <2>6, <2>7 DEF EntriesAreKept
<1>3. CASE ToolSaved(c)
  <2>1. /\ me.kept \subseteq me.calls[c].next
        /\ \A d \in Callers : me.calls[d].pc = "writing" => d = c
        /\ me.request # "writing"
        BY <1>3, <1>t DEF ToolSaved, OneWriter, Writing
  <2>2. /\ me'.kept = me.kept /\ me'.request = me.request
        /\ me'.content = me.calls[c].next
        /\ me'.calls = [me.calls EXCEPT ![c] = NoCall]
        BY <1>3, <1>t DEF ToolSaved, Set, TypeOK, States
  <2>3. \A d \in Callers : me'.calls[d].pc # "writing"
        BY <2>1, <2>2, <1>t DEF NoCall
  <2>q. QED BY <2>1, <2>2, <2>3 DEF OneWriter, EntriesAreKept, Writing
<1>q. QED BY <1>1, <1>2, <1>3 DEF Begin, Reads, Judges, Answer, Writing

\* The panel's steps keep the invariant.
LEMMA PanelKeeps ==
    ASSUME Careful, IInv,
           \/ \E text \in {me.text \cup {me.ops + 1}, Nothing} : Type(text)
           \/ Open \/ Loaded \/ Save \/ Clear \/ SetStarts \/ SetEnds \/ Deletes \/ Answered \/ HostDies
           \/ BuildsPrompt \/ SetTrust
           \/ \E mode \in Modes : SetMode(mode)
    PROVE  (OneWriter /\ EntriesAreKept)'
<1>t. TypeOK /\ OneWriter /\ EntriesAreKept
      BY DEF IInv
<1>1. CASE \/ \E text \in {me.text \cup {me.ops + 1}, Nothing} : Type(text)
           \/ Open \/ BuildsPrompt \/ SetTrust
           \/ \E mode \in Modes : SetMode(mode)
  <2>1. /\ me'.content = me.content /\ me'.kept = me.kept
        /\ me'.request = me.request /\ me'.sent = me.sent /\ me'.calls = me.calls
    <3>1. CASE \E text \in {me.text \cup {me.ops + 1}, Nothing} : Type(text)
          BY <3>1, <1>t DEF TypeOK, States, Type, User
    <3>2. CASE Open \/ SetTrust \/ \E mode \in Modes : SetMode(mode)
          BY <3>2, <1>t DEF TypeOK, States, Open, SetTrust, SetMode, User
    <3>3. CASE BuildsPrompt
          BY <3>3, <1>t DEF TypeOK, States, BuildsPrompt
    <3>q. QED BY <1>1, <3>1, <3>2, <3>3
  <2>q. QED BY <2>1, <1>t, NothingWritten
<1>2. CASE Loaded
  <2> DEFINE x == Synced(me, OnDisk)
  <2>1. me' = [x EXCEPT !.reading = FALSE, !.base = OnDisk]
        BY <1>2 DEF Loaded
  <2>2. x = [me EXCEPT !.loaded = x.loaded, !.data = x.data, !.text = x.text, !.touched = x.touched]
        BY <1>t, OnDiskIsContent, SyncedIsTyped
  <2> HIDE DEF x
  <2>3. /\ me'.content = me.content /\ me'.kept = me.kept
        /\ me'.request = me.request /\ me'.sent = me.sent /\ me'.calls = me.calls
        BY <2>1, <2>2, <1>t DEF TypeOK, States
  <2>q. QED BY <2>3, <1>t, NothingWritten
<1>7. CASE Save \/ Clear
  <2>1. /\ me'.content = me.content /\ me'.kept = me.kept /\ me'.calls = me.calls
        /\ me.request # "writing" /\ me'.request # "writing"
        BY <1>7, <1>t DEF TypeOK, States, Save, Clear, User
  <2>q. QED BY <2>1, <1>t, NothingWritten
<1>8. CASE Answered
  <2> DEFINE x == Synced(me, me.sent)
             y == [x EXCEPT !.request = "none", !.base = me.sent]
  <2>1. me' = y \/ me' = [y EXCEPT !.text = Nothing, !.touched = FALSE]
        BY <1>8 DEF Answered
  <2>2. x = [me EXCEPT !.loaded = x.loaded, !.data = x.data, !.text = x.text, !.touched = x.touched]
    <3>1. me.sent \in Contents
          BY <1>t DEF TypeOK, States
    <3>q. QED BY <3>1, <1>t, SyncedIsTyped
  <2> HIDE DEF x
  <2>3. /\ me'.content = me.content /\ me'.kept = me.kept /\ me'.calls = me.calls
        /\ me'.request = "none"
    <3>1. /\ x.content = me.content /\ x.kept = me.kept /\ x.calls = me.calls
          /\ DOMAIN x = DOMAIN me
          BY <2>2, <1>t DEF TypeOK, States
    <3>2. /\ y.content = x.content /\ y.kept = x.kept /\ y.calls = x.calls
          /\ y.request = "none" /\ DOMAIN y = DOMAIN x
          BY <3>1, <1>t DEF TypeOK, States
    <3>q. QED BY <2>1, <3>1, <3>2, <1>t DEF TypeOK, States
  <2>4. me.request # "writing"
        BY <1>8 DEF Answered
  <2>q. QED BY <2>3, <2>4, <1>t, NothingWritten
<1>3. CASE SetStarts
  <2>1. ~BeingWritten /\ me.content = me.base
        BY <1>3 DEF SetStarts, Writable, Careful
  <2>2. /\ me'.request = "writing" /\ me'.kept = Kept(me.base, me.sent) /\ me'.sent = me.sent /\ me'.calls = me.calls
        BY <1>3, <1>t DEF SetStarts, TypeOK, States
  <2>3. Kept(me.base, me.sent) \subseteq me.sent
        BY <2>1, <1>t, KeptIsWritten DEF TypeOK, States, EntriesAreKept
  <2>q. QED BY <2>1, <2>2, <2>3 DEF OneWriter, EntriesAreKept, BeingWritten, Writing
<1>4. CASE SetEnds
  <2>1. me.request = "writing" /\ me.kept \subseteq me.sent /\ \A c \in Callers : ~Writing(c)
        BY <1>4, <1>t DEF SetEnds, OneWriter
  <2>2. /\ me'.request = "answer" /\ me'.kept = me.kept /\ me'.content = me.sent /\ me'.calls = me.calls
        BY <1>4, <1>t DEF SetEnds, TypeOK, States
  <2>q. QED BY <2>1, <2>2 DEF OneWriter, EntriesAreKept, Writing
<1>5. CASE Deletes
  <2>1. ~BeingWritten /\ me.content = me.base /\ me.request = "delete"
        BY <1>5 DEF Deletes, Writable, Careful
  <2>2. \A c \in Callers : ~Writing(c)
        BY <2>1 DEF BeingWritten
  <2>3. /\ me'.kept = Kept(me.base, Nothing) /\ me'.content = Nothing /\ me'.request = "cleared"
        /\ me'.calls = [c \in Callers |-> IF Writing(c) THEN [me.calls[c] EXCEPT !.next = Nothing] ELSE me.calls[c]]
        BY <1>5, <1>t DEF Deletes, TypeOK, States
  <2>4. \A c \in Callers : me'.calls[c].pc # "writing"
        BY <2>2, <2>3 DEF Writing
  <2>5. Kept(me.base, Nothing) \subseteq Nothing
        BY <2>1, <1>t, KeptIsWritten DEF TypeOK, States, EntriesAreKept, Contents, Nothing
  <2>q. QED BY <2>3, <2>4, <2>5 DEF OneWriter, EntriesAreKept, Writing
<1>6. CASE HostDies
  <2>1. ~BeingWritten
        BY <1>6 DEF HostDies, Readable, Careful
  <2>2. /\ me'.content = me.content /\ me'.kept = me.kept /\ me'.request = "none"
        /\ me'.calls = [c \in Callers |-> NoCall]
        BY <1>6, <1>t, <2>1 DEF HostDies, OnDisk, User, TypeOK, States
  <2>q. QED BY <2>1, <2>2, <1>t DEF OneWriter, EntriesAreKept, NoCall, Writing
<1>q. QED BY <1>1, <1>2, <1>3, <1>4, <1>5, <1>6, <1>7, <1>8

\* The invariant the proof rests on.
THEOREM Invariant == ASSUME Careful PROVE Spec => []IInv
<1>1. Init => IInv
  <2> SUFFICES ASSUME Init PROVE IInv
      OBVIOUS
  <2>1. /\ me.kept = me.content /\ me.request = "none"
        /\ \A c \in Callers : me.calls[c].pc = "idle"
        BY DEF Init, NoCall
  <2>q. QED BY <2>1, InitIsTyped DEF IInv, OneWriter, EntriesAreKept, Writing
<1>2. TypeOK' /\ IInv /\ [Next]_me => IInv'
  <2> SUFFICES ASSUME TypeOK', IInv, [Next]_me PROVE IInv'
      OBVIOUS
  <2>1. CASE UNCHANGED me
        BY <2>1 DEF IInv, OneWriter, EntriesAreKept, BeingWritten, Writing
  <2>2. CASE Next
        BY <2>2, ToolKeeps, PanelKeeps DEF Next, IInv
  <2>q. QED BY <2>1, <2>2
<1>q. QED BY <1>1, <1>2, TypeCorrect, PTL DEF Spec

\* Without the five races of Careful, which the code has, an entry stays until somebody removes it who
\* has seen it, for any number of calls, entries and operations, the panel's saves and the Host's ends
\* between two writes included (packages/memory/src/index.ts).
THEOREM NoEntryIsLost == ASSUME Careful PROVE Spec => []EntriesAreKept
<1>1. IInv => EntriesAreKept
      BY DEF IInv
<1>q. QED BY <1>1, Invariant, PTL
=============================================================================
