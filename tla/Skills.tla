-------------------------------- MODULE Skills --------------------------------
(***************************************************************************)
(* Skills: files of the user's directory and of the project's, a list of   *)
(* those that are switched off, the prompt's section and the commands made *)
(* from them, and the settings panel that lists, edits, creates, switches  *)
(* and deletes them over the Host's methods.  "sk" is the whole state.     *)
(***************************************************************************)
EXTENDS Naturals, Sequences, FiniteSets, SequencesExt

CONSTANTS MaxOps,
          Races   \* what this instance admits of "overtaking", "moved on", "by hand", "after delete", "names", "torn state"

VARIABLE sk

Slugs == {"a", "b"}
\* The order the directories are read in; a later skill of the same name replaces an earlier one.
Order == <<<<"user", "a">>, <<"user", "b">>, <<"project", "a">>, <<"project", "b">>>>
Paths == Range(Order)
Nowhere == <<"none", "none">>
\* A file: the name its front matter gives, or none, whether it describes the skill, and the rest of it.
File(name, described, text) == [name |-> name, described |-> described, text |-> text]
NoFile == File("", FALSE, 0)
Exists(p) == sk.file[p] # NoFile
NameOf(file, p) == IF file[p].name = "" THEN p[2] ELSE file[p].name
\* A name with a dot is a directory's and not a command's.
Dotted == IF "names" \in Races THEN {"a"} ELSE {}

Disabled(x) == IF x.torn THEN {} ELSE x.disabled
\* findSkills, as the section of the prompt shows them: by name, the last one read that is on and described.
Usable(x, p) == x.file[p] # NoFile /\ p \notin Disabled(x) /\ x.file[p].described
NamesOf(x, paths) == {NameOf(x.file, p) : p \in paths}
Found(x) ==
    {Order[k] : k \in {j \in DOMAIN Order :
        /\ Usable(x, Order[j])
        /\ \A i \in DOMAIN Order : i > j /\ Usable(x, Order[i]) => NameOf(x.file, Order[i]) # NameOf(x.file, Order[j])}}
\* resolveAll: the provider's commands are taken in the order of their names until one is no command's.
UpTo(name) == IF name = "a" THEN {"a"} ELSE Slugs
Commands(x) == {p \in Found(x) : UpTo(NameOf(x.file, p)) \cap Dotted \cap NamesOf(x, Found(x)) = {}}
\* discoverSkillEntries: every skill, switched off or not.
Listed(x) == [p \in {q \in Paths : x.file[q] # NoFile} |-> p \notin Disabled(x)]
-----------------------------------------------------------------------------
(* The panel, and what is on its way; answers come in the order of the calls. *)
Editor(path, content, of) == [path |-> path, content |-> content, base |-> content, of |-> of, loading |-> FALSE, dirty |-> FALSE]
Closed == Editor(Nowhere, NoFile, Nowhere)
Call(kind, path, content, base) == [kind |-> kind, path |-> path, content |-> content, base |-> base]
Asks(kind, path) == Call(kind, path, NoFile, NoFile)
Out(kinds) ==   \* calls of these kinds that are not answered, or whose answer is on its way
    \/ \E k \in DOMAIN sk.calls : sk.calls[k].kind \in kinds
    \/ \E k \in DOMAIN sk.answers : sk.answers[k].kind \in kinds
Busy(p) ==
    \/ \E k \in DOMAIN sk.calls : sk.calls[k].kind \in {"on", "off", "delete"} /\ sk.calls[k].path = p
    \/ \E k \in DOMAIN sk.answers : sk.answers[k].kind \in {"toggle", "delete"} /\ sk.answers[k].path = p
Created(path, content) == [path |-> path, content |-> content]
Init ==
    \E there \in SUBSET {<<"user", "a">>, <<"project", "b">>}, off \in SUBSET {<<"user", "a">>} :
       sk = [file |-> [p \in Paths |-> IF p \in there THEN File("", TRUE, 1) ELSE NoFile],
             disabled |-> off, torn |-> FALSE, ops |-> 0, calls |-> <<>>, answers |-> <<>>, stale |-> {},
             list |-> [p \in there |-> p \notin off], menu |-> there \ off, editor |-> Closed,
             \* A skill whose creation is answered and whose list is being read again; the skill changed last.
             created |-> Created(Nowhere, NoFile), wrote |-> Nowhere]
Op == sk.ops < MaxOps
Send(state, call) == [state EXCEPT !.calls = Append(@, call)]
User(state) == [state EXCEPT !.ops = @ + 1]

\* Acting on while a skill is being read, or on another one while a creation or deletion is under way.
Waits == "overtaking" \in Races \/ ~Out({"read"})
Stays == "moved on" \in Races \/ ~(Out({"create", "delete"}) \/ sk.created.path # Nowhere)
OpenEditor(p) ==
    /\ Op /\ p \in DOMAIN sk.list /\ Waits /\ Stays
    /\ sk' = IF sk.editor.path = p THEN [User(sk) EXCEPT !.editor.path = Nowhere, !.editor.dirty = FALSE]
             ELSE Send([User(sk) EXCEPT !.editor.path = p, !.editor.loading = TRUE, !.editor.dirty = FALSE], Asks("read", p))
Shows(p) == sk.editor.path = p /\ p \in DOMAIN sk.list /\ ~sk.editor.loading
Type(p, described) ==
    /\ Op /\ Shows(p) /\ Stays
    /\ sk' = [User(sk) EXCEPT !.editor.content = File(@.name, described, 2 + sk.ops), !.editor.dirty = TRUE]
SaveEditor(p) ==
    /\ Op /\ Shows(p) /\ ~Out({"save"}) /\ ("after delete" \in Races \/ ~Busy(p))
    /\ sk' = Send([User(sk) EXCEPT !.editor.dirty = FALSE], Call("save", p, sk.editor.content, sk.editor.base))
Toggle(p) ==
    /\ Op /\ p \in DOMAIN sk.list /\ ~Busy(p)
    /\ sk' = Send(User(sk), Asks(IF sk.list[p] THEN "off" ELSE "on", p))
DeleteSkill(p) ==
    /\ Op /\ Shows(p) /\ ~Busy(p) /\ Stays /\ ~Out({"save"})
    /\ sk' = Send([User(sk) EXCEPT !.editor.dirty = FALSE], Asks("delete", p))
CreateSkill(p) ==
    /\ Op /\ ~Out({"create"}) /\ sk.created.path = Nowhere /\ Waits /\ ("moved on" \in Races \/ ~(sk.editor.dirty \/ Out({"delete"})))
    /\ sk' = Send(User(sk), Call("create", p, File(p[2], TRUE, 2 + sk.ops), NoFile))
Refresh == Op /\ ~Out({"list"}) /\ sk' = Send(User(sk), Asks("list", Nowhere))

\* The Host's methods; each ends in one go.
Refused(c) ==
    \/ c.kind = "create" /\ Exists(c.path)
    \/ c.kind = "read" /\ ~Exists(c.path)
    \/ c.kind = "save" /\ ~c.content.described
\* setSkillEnabledState begins a list it cannot read anew.
SetEnabled(x, p, on) ==
    [x EXCEPT !.torn = FALSE, !.disabled = IF on THEN Disabled(x) \ {p} ELSE Disabled(x) \cup {p}]
Changes(c) == c.kind \in {"create", "save", "on", "off", "delete"} /\ ~Refused(c)
Done(c) ==
    IF ~Changes(c) THEN [sk EXCEPT !.wrote = Nowhere]
    ELSE LET x == [sk EXCEPT !.wrote = c.path]
         IN CASE c.kind = "create" -> SetEnabled([x EXCEPT !.file[c.path] = c.content], c.path, TRUE)
              [] c.kind = "save" -> [x EXCEPT !.file[c.path] = c.content]
              [] c.kind = "delete" -> SetEnabled([x EXCEPT !.file[c.path] = NoFile], c.path, TRUE)
              [] OTHER -> SetEnabled(x, c.path, c.kind = "on")
\* What an answer brings: the list and the menu as they are then, or the file.  A change is told to
\* everybody before its call is answered.
Answer(c, x) ==
    [kind |-> IF c.kind \in {"on", "off"} THEN "toggle" ELSE c.kind, path |-> c.path, failed |-> Refused(c),
     content |-> IF c.kind = "read" THEN sk.file[c.path] ELSE c.content,
     list |-> IF c.kind \in {"list", "save", "on", "off", "delete"} THEN Listed(x) ELSE <<>>,
     menu |-> IF c.kind = "menu" THEN Commands(x) ELSE {}]
Told == [kind |-> "changed", path |-> Nowhere, failed |-> FALSE, content |-> NoFile, list |-> <<>>, menu |-> {}]
Serve ==
    /\ sk.calls # <<>>
    /\ LET c == Head(sk.calls)
           x == Done(c)
       IN sk' = [x EXCEPT !.calls = Tail(@), !.answers = @ \o (IF Changes(c) THEN <<Told>> ELSE <<>>) \o <<Answer(c, x)>>]
\* The panel takes the list that an answer brings.
Shown(x, r) == IF r.failed THEN x ELSE [x EXCEPT !.list = r.list, !.stale = @ \ {"list"}]
Receive ==
    /\ sk.answers # <<>>
    /\ LET r == Head(sk.answers)
           x == [sk EXCEPT !.answers = Tail(@), !.wrote = Nowhere]
       IN sk' = CASE r.kind = "changed" -> Send(x, Asks("menu", Nowhere))
                  [] r.kind = "menu" -> [x EXCEPT !.menu = r.menu, !.stale = @ \ {"menu"}]
                  [] r.kind = "list" ->
                        [Shown(x, r) EXCEPT
                            !.editor = IF sk.created.path = Nowhere THEN @
                                       ELSE [Editor(sk.created.path, sk.created.content, sk.created.path) EXCEPT !.loading = sk.editor.loading],
                            !.created = Created(Nowhere, NoFile)]
                  [] r.kind = "read" ->
                        [x EXCEPT !.editor = IF r.failed THEN [@ EXCEPT !.path = Nowhere, !.loading = FALSE]
                                             ELSE Editor(sk.editor.path, r.content, r.path)]
                  [] r.kind = "create" ->
                        IF r.failed THEN x ELSE Send([x EXCEPT !.created = Created(r.path, r.content)], Asks("list", Nowhere))
                  [] r.kind = "toggle" -> Shown(x, r)
                  [] r.kind = "save" ->
                        [Shown(x, r) EXCEPT !.editor.base = IF r.failed \/ sk.editor.of # r.path THEN @ ELSE r.content]
                  [] r.kind = "delete" -> [Shown(x, r) EXCEPT !.editor = [Closed EXCEPT !.loading = sk.editor.loading]]
\* Somebody else edits, adds or removes a skill's file, or the list of those switched off is cut: nobody
\* is told.
EditByHand(p, file) ==
    /\ Op /\ file # sk.file[p]
    /\ "by hand" \in Races \/ (sk.editor.path = Nowhere /\ sk.created.path = Nowhere /\ sk.calls = <<>> /\ sk.answers = <<>>)
    /\ sk' = [User(sk) EXCEPT !.file[p] = file, !.stale = {"list", "menu"}, !.wrote = p]
TearState ==
    /\ "torn state" \in Races /\ Op /\ ~sk.torn
    /\ sk' = [User(sk) EXCEPT !.torn = TRUE, !.stale = {"list", "menu"}]

Next ==
    \/ \E p \in Paths :
          \/ OpenEditor(p) \/ SaveEditor(p) \/ Toggle(p) \/ DeleteSkill(p) \/ CreateSkill(p)
          \/ \E described \in BOOLEAN : Type(p, described)
          \/ \E file \in {NoFile, File("a", TRUE, 2 + sk.ops), File("", FALSE, 2 + sk.ops)} : EditByHand(p, file)
    \/ Refresh \/ Serve \/ Receive \/ TearState
Spec == Init /\ [][Next]_sk
-----------------------------------------------------------------------------
\* What the editor shows under a skill is that skill's.
EditorIsTheirs == sk.editor.path # Nowhere /\ ~sk.editor.loading => sk.editor.of = sk.editor.path

\* The skills on are those offered as commands, one of each name, the project's before the user's.
AllAreOffered == Commands(sk) = Found(sk) /\ NamesOf(sk, Found(sk)) = NamesOf(sk, {p \in Paths : Usable(sk, p)})

\* With no call under way, the panel lists what is there and what is on, and the menu offers the
\* commands there are, unless that was changed by hand since.
ListIsTrue ==
    sk.calls = <<>> /\ sk.answers = <<>> =>
        /\ "list" \notin sk.stale => sk.list = Listed(sk)
        /\ "menu" \notin sk.stale => sk.menu = Commands(sk)

\* A change of one skill leaves the others as they are, on or off; saving writes over what was read, and
\* so brings back nothing that was deleted; what was typed stays until the user saves or leaves it.
Saves == sk.calls # <<>> /\ sk'.calls = Tail(sk.calls) /\ Head(sk.calls).kind = "save" /\ Changes(Head(sk.calls))
ChangesAreExact ==
    /\ \A p \in Paths : p # sk'.wrote => sk'.file[p] = sk.file[p] /\ (p \in Disabled(sk') <=> p \in Disabled(sk))
    /\ Saves => sk.file[sk'.wrote] = Head(sk.calls).base
    /\ sk.editor.dirty /\ sk'.ops = sk.ops => sk'.editor.content = sk.editor.content /\ sk'.editor.path = sk.editor.path
Exact == [][ChangesAreExact]_sk
=============================================================================
