-------------------------------- MODULE Memory --------------------------------
(***************************************************************************)
(* The local memory: a Markdown file of the user's or of the project's,    *)
(* which agents read and change with a tool the user confirms, which the   *)
(* settings panel edits, and which every prompt carries.  What is told     *)
(* apart is which entries a content has.  "me" is the whole state.         *)
(***************************************************************************)
EXTENDS Naturals, Sequences, FiniteSets

CONSTANTS Callers,      \* sessions whose agents call the tool
          MaxOps,
          Races         \* what this instance admits of
                        \*   "late confirm"  the user's yes comes when the content has changed since the tool read it,
                        \*   "lost update"   so has the content a tool with full access writes over, unasked,
                        \*   "blind save"    and the one the panel saves over or deletes;
                        \*   "overlap"       a write or a delete while the file is being written;
                        \*   "half written"  a cut file is read, or left by a Host that dies;
                        \*   "early save", "typing", "trust"

VARIABLE me

Nothing == {}           \* a content: its entries
Modes == {"read-only", "ask", "full-access"}
NoCall == [pc |-> "idle", action |-> "read", entry |-> 0, current |-> Nothing, next |-> Nothing, consent |-> FALSE]
Init ==
    \E scope \in {"user", "project"}, mode \in Modes, canAsk \in BOOLEAN, first \in SUBSET {1} :
       me = [scope |-> scope, trusted |-> TRUE, mode |-> mode, canAsk |-> canAsk, content |-> first,
             calls |-> [c \in Callers |-> NoCall], ops |-> 1,
             \* The panel: what its query has, the text, whether a button's call is out and how far the Host is with it.
             loaded |-> FALSE, data |-> Nothing, text |-> Nothing, touched |-> FALSE, reading |-> FALSE,
             request |-> "none", sent |-> Nothing, base |-> Nothing,
             \* Entries that nobody removed who had seen them; the content the last prompt carried.
             kept |-> first, prompt |-> Nothing]
Op == me.ops < MaxOps
User(x) == [x EXCEPT !.ops = @ + 1]
\* A file is cut before it is written anew, and read as it is then.
Writing(c) == me.calls[c].pc = "writing"
BeingWritten == me.request = "writing" \/ \E c \in Callers : Writing(c)
OnDisk == IF BeingWritten THEN Nothing ELSE me.content
Readable == ~BeingWritten \/ "half written" \in Races
Writable == ~BeingWritten \/ "overlap" \in Races
Trusted == me.scope = "user" \/ me.trusted

\* nextMemoryContent
Changed(current, action, entry) ==
    CASE action = "append" -> current \cup {entry} [] action = "replace" -> {entry} [] OTHER -> Nothing
-----------------------------------------------------------------------------
(* The tool                                                                *)
Set(c, call) == [me EXCEPT !.calls[c] = call]
Begin(c, action) ==
    /\ Op /\ me.calls[c].pc = "idle"
    /\ me' = IF Trusted THEN User(Set(c, [NoCall EXCEPT !.pc = "reading", !.action = action, !.entry = me.ops + 1]))
             ELSE User(me)
Reads(c) ==
    LET call == me.calls[c]
        next == Changed(OnDisk, call.action, call.entry)
    IN /\ call.pc = "reading" /\ Readable
       /\ me' = IF call.action = "read" \/ next = OnDisk THEN Set(c, NoCall)
                ELSE Set(c, [call EXCEPT !.pc = "judging", !.current = OnDisk, !.next = next])
\* The session is looked up before its mode is read.
Judges(c) ==
    LET call == me.calls[c]
    IN /\ call.pc = "judging"
       /\ me' = CASE me.mode = "full-access" -> Set(c, [call EXCEPT !.pc = "saving"])
                  [] me.mode = "ask" /\ me.canAsk -> Set(c, [call EXCEPT !.pc = "asked"])
                  [] OTHER -> Set(c, NoCall)
Answer(c, yes) ==
    LET call == me.calls[c]
    IN /\ call.pc = "asked"
       /\ me' = Set(c, IF yes THEN [call EXCEPT !.pc = "saving", !.consent = TRUE] ELSE NoCall)
\* What a writer removes of what it saw is no longer kept, and what it adds is.
Kept(seen, next) == (me.kept \ (seen \ next)) \cup (next \ seen)
ToolSaves(c) ==
    LET call == me.calls[c]
    IN /\ call.pc = "saving" /\ Writable
       /\ me.content = call.current \/ (IF call.consent THEN "late confirm" ELSE "lost update") \in Races
       /\ "trust" \in Races \/ Trusted
       /\ me' = [Set(c, [call EXCEPT !.pc = "writing"]) EXCEPT !.kept = Kept(call.current, call.next)]
\* Of two writes that overlap the one that ends last is what stays.
ToolSaved(c) ==
    /\ Writing(c)
    /\ me' = [Set(c, NoCall) EXCEPT !.content = me.calls[c].next]

(* The panel                                                               *)
Open == Op /\ ~me.loaded /\ ~me.reading /\ me' = [User(me) EXCEPT !.reading = TRUE]
\* The query's answer, and that of a call, are put into the text where they are news.
Synced(x, data) == IF x.loaded /\ x.data = data THEN x ELSE [x EXCEPT !.loaded = TRUE, !.data = data, !.text = data, !.touched = FALSE]
Loaded ==
    /\ me.reading /\ Readable
    /\ me' = [Synced(me, OnDisk) EXCEPT !.reading = FALSE, !.base = OnDisk]
Type(text) ==
    /\ Op /\ (me.loaded \/ "early save" \in Races) /\ (me.request = "none" \/ "typing" \in Races)
    /\ me' = [User(me) EXCEPT !.text = text, !.touched = TRUE]
Save ==
    /\ Op /\ me.request = "none" /\ (me.loaded \/ "early save" \in Races)
    /\ me' = [User(me) EXCEPT !.request = "set", !.sent = me.text, !.touched = FALSE]
Clear ==
    /\ Op /\ me.request = "none" /\ me.text # Nothing /\ (me.loaded \/ "early save" \in Races)
    /\ me' = [User(me) EXCEPT !.request = "delete", !.sent = Nothing, !.touched = FALSE]
\* memory.set writes like the tool; memory.delete is done at once, and takes the file from a tool that writes.
SetStarts ==
    /\ me.request = "set" /\ Writable
    /\ "blind save" \in Races \/ me.content = me.base
    /\ me' = [me EXCEPT !.request = "writing", !.kept = Kept(me.base, me.sent)]
SetEnds == me.request = "writing" /\ me' = [me EXCEPT !.request = "answer", !.content = me.sent]
Deletes ==
    /\ me.request = "delete" /\ Writable
    /\ "blind save" \in Races \/ me.content = me.base
    /\ me' = [me EXCEPT !.request = "cleared", !.content = Nothing, !.kept = Kept(me.base, Nothing),
                         !.calls = [c \in Callers |-> IF Writing(c) THEN [@[c] EXCEPT !.next = Nothing] ELSE @[c]]]
Answered ==
    /\ me.request \in {"answer", "cleared"}
    /\ LET x == [Synced(me, me.sent) EXCEPT !.request = "none", !.base = me.sent]
       IN me' = IF me.request = "cleared" THEN [x EXCEPT !.text = Nothing, !.touched = FALSE] ELSE x
\* A Host that ends while it writes leaves the cut file; the calls are lost with it.
HostDies ==
    /\ Op /\ Readable
    /\ me' = [User(me) EXCEPT !.content = OnDisk, !.calls = [c \in Callers |-> NoCall],
                              !.reading = FALSE, !.request = "none"]

(* The prompt, and what others decide                                      *)
BuildsPrompt == Readable /\ me' = [me EXCEPT !.prompt = IF Trusted THEN OnDisk ELSE Nothing]
SetMode(mode) == Op /\ me.mode # mode /\ me' = [User(me) EXCEPT !.mode = mode]
SetTrust == Op /\ me.scope = "project" /\ me' = [User(me) EXCEPT !.trusted = ~@]

Next ==
    \/ \E c \in Callers :
          \/ Reads(c) \/ Judges(c) \/ ToolSaves(c) \/ ToolSaved(c)
          \/ \E action \in {"read", "append", "replace", "clear"} : Begin(c, action)
          \/ \E yes \in BOOLEAN : Answer(c, yes)
    \/ \E text \in {me.text \cup {me.ops + 1}, Nothing} : Type(text)
    \/ Open \/ Loaded \/ Save \/ Clear \/ SetStarts \/ SetEnds \/ Deletes \/ Answered \/ HostDies
    \/ BuildsPrompt \/ SetTrust
    \/ \E mode \in Modes : SetMode(mode)
Spec == Init /\ [][Next]_me
-----------------------------------------------------------------------------
\* An entry stays until somebody removes it who has seen it, however the agents' confirmations, the
\* panel's saves and the Host's ends interleave.
EntriesAreKept == ~BeingWritten => me.kept \subseteq me.content

\* An agent's change is written with the user's yes to just this change, or with full access, and never
\* to the memory of a project that is not trusted, which no prompt carries either.
WritesAreMeant ==
    /\ \A c \in Callers : me'.calls[c].pc = "writing" /\ me.calls[c].pc # "writing" =>
          /\ me.calls[c].consent => me.calls[c].current = me.content
          /\ Trusted
    /\ me'.prompt # me.prompt => me'.prompt = (IF Trusted THEN me.content ELSE Nothing)
MeantOnly == [][WritesAreMeant]_me

\* What the user has typed stays in the panel until it is saved or cleared.
TypingStays == me.touched /\ me'.ops = me.ops => me'.text = me.text
TypedStays == [][TypingStays]_me
=============================================================================
