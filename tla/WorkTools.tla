------------------------------ MODULE WorkTools ------------------------------
(***************************************************************************)
(* The tools an agent works with in the project: reading a file page by    *)
(* page, editing it by exact replacement, looking for files, and running   *)
(* a command.  A behaviour is about one of them; "wt" is its state.        *)
(***************************************************************************)
EXTENDS Naturals, Integers, Sequences, FiniteSets, SequencesExt

CONSTANTS MaxLines,     \* lines of a file that is read, and of one edit's text
          MaxCalls,
          Races         \* what this instance admits of "blank line", "long line", "orphan", "early abort"

VARIABLE wt

None == "none"
Least(set) == CHOOSE n \in set : \A m \in set : n =< m
SumOf(numbers) == FoldLeft(LAMBDA a, b : a + b, 0, numbers)
-----------------------------------------------------------------------------
(* read                                                                    *)
\* The caps of one answer; a line weighs as much as it holds, and one may be too heavy by itself.
CapLines == 2
CapBytes == 4
Weight(line) == CASE line = "blank" -> 1 [] line = "text" -> 2 [] line = "long" -> CapBytes + 1
WeightOf(lines) == SumOf([k \in DOMAIN lines |-> Weight(lines[k])])
\* truncateHead: as many lines from the first as both caps allow.
Kept(lines) ==
    LET fits == {n \in 0..Len(lines) : n =< CapLines /\ WeightOf(SubSeq(lines, 1, n)) =< CapBytes}
    IN SubSeq(lines, 1, CHOOSE n \in fits : \A m \in fits : m =< n)
\* The number of lines is told from the text, and an empty text has none.
Shown(kept) == IF kept \in {<<>>, <<"blank">>} THEN 0 ELSE Len(kept)
Wanted(lines, start, limit) ==
    SubSeq(lines, start, IF limit = 0 \/ start + limit - 1 > Len(lines) THEN Len(lines) ELSE start + limit - 1)
\* What a call returns: the lines, and where it says to read on; 0: nowhere.
ReadFrom(lines, start, limit) ==
    LET kept == Kept(Wanted(lines, start, limit))
        end == start + Shown(kept) - 1
        more == Len(kept) < Len(Wanted(lines, start, limit)) \/ end < Len(lines)
    IN [lines |-> kept, next |-> IF more THEN end + 1 ELSE 0]
Kinds == {"text", "blank"} \cup (IF "long line" \in Races THEN {"long"} ELSE {})
Files == UNION {[1..n -> Kinds] : n \in 1..MaxLines}
StartReader ==
    \E lines \in Files, limit \in {0, 1, 2} :
       /\ \/ "blank line" \in Races
          \/ limit # 1 /\ Last(lines) # "blank" /\ \A k \in DOMAIN lines : lines[k] = "blank" => k % CapLines # 1
       /\ wt = [tool |-> "read", lines |-> lines, limit |-> limit, from |-> 0, next |-> 1, got |-> <<>>]
Read ==
    /\ wt.tool = "read" /\ wt.next # 0 /\ wt.from =< MaxLines
    /\ LET r == ReadFrom(wt.lines, wt.next, wt.limit)
       IN wt' = [wt EXCEPT !.from = @ + 1, !.next = r.next, !.got = @ \o r.lines]

-----------------------------------------------------------------------------
(* edit                                                                    *)
\* Characters; "r" and "n" are the two of a line's end.
At(text, part, k) == k + Len(part) - 1 =< Len(text) /\ SubSeq(text, k, k + Len(part) - 1) = part
Occurrences(text, part) == {k \in 1..Len(text) : At(text, part, k)}
HasCrlf(text) == Occurrences(text, <<"r", "n">>) # {}
Crlf(text) == FlattenSeq([k \in DOMAIN text |-> IF text[k] = "n" THEN <<"r", "n">> ELSE <<text[k]>>])
\* A text of the model's, as the file writes the ends of its lines.
ToFile(original, text) == IF HasCrlf(original) /\ ~HasCrlf(text) THEN Crlf(text) ELSE text
Edit(old, new) == [old |-> old, new |-> new]
Span(original, edit) ==
    LET old == ToFile(original, edit.old)
        start == CHOOSE k \in Occurrences(original, old) : TRUE
    IN [start |-> start, end |-> start + Len(old), text |-> ToFile(original, edit.new)]
Refused(original, edits) ==
    \/ \E k \in DOMAIN edits : edits[k].old = <<>> \/ Cardinality(Occurrences(original, ToFile(original, edits[k].old))) # 1
    \/ \E j, k \in DOMAIN edits : j # k /\ LET a == Span(original, edits[j])
                                             b == Span(original, edits[k])
                                         IN a.start =< b.start /\ b.start < a.end
\* applyEdits: the spans in the order of the file, and what is between them.
ApplyEdits(original, edits) ==
    LET spans == SetToSortSeq({Span(original, edits[k]) : k \in DOMAIN edits}, LAMBDA a, b : a.start < b.start)
        step(done, span) == [text |-> done.text \o SubSeq(original, done.at, span.start - 1) \o span.text, at |-> span.end]
        all == FoldLeft(step, [text |-> <<>>, at |-> 1], spans)
    IN all.text \o SubSeq(original, all.at, Len(original))
Plain == UNION {[1..n -> {"x", "y", "n"}] : n \in 0..MaxLines}
Parts == UNION {[1..n -> {"x", "y", "n"}] : n \in 0..2}
StartEditor == \E text \in Plain, crlf \in BOOLEAN :
                  wt = [tool |-> "edit", file |-> IF crlf THEN Crlf(text) ELSE text, before |-> <<>>, edits |-> <<>>, calls |-> 0]
EditFile(edits) ==
    /\ wt.tool = "edit" /\ wt.calls < MaxCalls
    /\ wt' = [wt EXCEPT !.calls = @ + 1, !.before = wt.file, !.edits = IF Refused(wt.file, edits) THEN <<>> ELSE edits,
                        !.file = IF Refused(@, edits) THEN @ ELSE ApplyEdits(@, edits)]

-----------------------------------------------------------------------------
(* find and grep                                                           *)
\* Directories, the files and the directories in each, by name; one of them is never walked into.
Root == "root"
Dirs == <<"a", "b", "node_modules">>
Tree == [root |-> <<"f1", "f5">>, a |-> <<"f2", "f3">>, b |-> <<"f4">>, node_modules |-> <<"f6">>]
Below(dir) == IF dir = Root THEN Dirs ELSE <<>>
Skipped == {"node_modules"}
MaxFound == 3
Names == {"f1", "f2", "f3", "f4", "f5", "f6"}
\* How often each file matches: by its name, for find; by its lines, for grep, which passes over a file
\* that is too large, cannot be read or is not a text.
StartFinder ==
    \E most \in 1..2 : \E match \in [{"f1", "f2", "f3", "f4"} -> 0..most], skipped \in SUBSET (IF most = 1 THEN {} ELSE {"f1", "f3"}) :
       wt = [tool |-> "find", match |-> [f \in Names |-> IF f \in skipped THEN 0 ELSE IF f \in DOMAIN match THEN match[f] ELSE 1],
             stack |-> <<Root>>, found |-> <<>>, more |-> FALSE, done |-> FALSE]
Hits(match, files) == FlattenSeq([k \in DOMAIN files |-> [n \in 1..match[files[k]] |-> <<files[k], n>>]])
\* One directory of the walk: its files are matched as they come, its directories are walked into next.
Walk ==
    /\ wt.tool = "find" /\ ~wt.done
    /\ IF wt.stack = <<>> THEN wt' = [wt EXCEPT !.done = TRUE]
       ELSE LET dir == Last(wt.stack)
                all == wt.found \o Hits(wt.match, Tree[dir])
                under == SelectSeq(Below(dir), LAMBDA d : d \notin Skipped)
            IN wt' = [wt EXCEPT !.stack = Front(@) \o Reverse(under),
                                !.found = IF Len(all) > MaxFound THEN SubSeq(all, 1, MaxFound) ELSE all,
                                !.more = Len(all) > MaxFound, !.done = Len(all) > MaxFound]

-----------------------------------------------------------------------------
(* bash                                                                    *)
\* A command: the child, what it leaves in the background with its pipes, the job that holds both, and
\* the output that was produced, is buffered and is told.
CapBuffer == 4
CapOutput == 2
Chunks == {<<1>>, <<1, 1>>} \cup (IF "long line" \in Races THEN {<<3>>} ELSE {})
StartShell ==
    \E windows, sandbox \in BOOLEAN :
       wt = [tool |-> "bash", windows |-> windows, sandbox |-> sandbox, phase |-> "asked", child |-> FALSE, background |-> FALSE,
             job |-> None, held |-> FALSE, aborted |-> FALSE, heard |-> FALSE, timedOut |-> FALSE, stopped |-> FALSE,
             made |-> <<>>, buffer |-> <<>>, told |-> <<>>, cut |-> FALSE]
Bash == wt.tool = "bash"
Running == Bash /\ wt.phase = "running"
Abort ==
    /\ Bash /\ wt.phase \in {"asked", "running"} /\ ~wt.aborted
    /\ wt.phase = "running" \/ "early abort" \in Races
    /\ wt' = [wt EXCEPT !.aborted = TRUE]
Execute ==
    /\ Bash /\ wt.phase = "asked"
    /\ wt' = [wt EXCEPT !.phase = "running", !.child = TRUE, !.job = IF wt.windows /\ wt.sandbox THEN "attaching" ELSE None,
                        \* A listener on a signal that has fired already hears nothing.
                        !.heard = wt.aborted]
\* What the job does when its handle is closed, and taskkill or the group's signal.
JobClosed(x) == IF x.job = "open" THEN [x EXCEPT !.job = "closed", !.child = FALSE, !.background = IF x.held THEN FALSE ELSE @] ELSE x
TreeKilled(x) == IF x.windows /\ ~x.child THEN x ELSE [x EXCEPT !.child = FALSE, !.background = FALSE]
Stopped(x) == [TreeKilled(JobClosed(x)) EXCEPT !.stopped = TRUE]
OnAbort == Running /\ wt.aborted /\ ~wt.heard /\ wt' = Stopped([wt EXCEPT !.heard = TRUE])
Timeout == Running /\ ~wt.timedOut /\ wt' = Stopped([wt EXCEPT !.timedOut = TRUE])
\* The job takes the child, if it is still there; what the child starts from then on is in it too.
Attached ==
    /\ Bash /\ wt.job = "attaching"
    /\ wt' = [wt EXCEPT !.job = IF wt.child THEN "open" ELSE None, !.held = FALSE]
ToBackground ==
    /\ Running /\ wt.child /\ ~wt.background
    /\ "orphan" \in Races \/ ~wt.windows \/ wt.job = "open"
    /\ wt' = [wt EXCEPT !.background = TRUE, !.held = wt.job = "open"]
Output(chunk) ==
    /\ Running /\ wt.child /\ Len(wt.made) < 4
    /\ LET all == Append(wt.buffer, chunk)
           from == Least({n \in DOMAIN all : n = Len(all) \/ SumOf(FlattenSeq(SubSeq(all, n, Len(all)))) =< CapBuffer})
       IN wt' = [wt EXCEPT !.made = Append(@, chunk), !.buffer = SubSeq(all, from, Len(all))]
ChildExits == Running /\ wt.child /\ wt' = [wt EXCEPT !.child = FALSE]
BackgroundEnds == Running /\ wt.background /\ wt' = [wt EXCEPT !.background = FALSE]
\* tail: where the longest end of the output begins that the cap allows.
TailFrom(lines) == Least({n \in 1..Len(lines) + 1 : SumOf(SubSeq(lines, n, Len(lines))) =< CapOutput})
\* close: the child has gone and nobody holds its pipes.
Closed ==
    /\ Running /\ ~wt.child /\ ~wt.background
    /\ LET lines == FlattenSeq(wt.buffer)
           from == TailFrom(lines)
       IN wt' = [JobClosed(wt) EXCEPT !.phase = "settled", !.told = SubSeq(lines, from, Len(lines)), !.cut = from > 1]

Next ==
    \/ Read \/ Walk
    \/ \E e \in Parts, f \in Parts : EditFile(<<Edit(e, f)>>)
    \/ \E e, f \in {<<"x">>, <<"y">>, <<"x", "n">>}, g, h \in {<<>>, <<"y">>, <<"n">>} : EditFile(<<Edit(e, g), Edit(f, h)>>)
    \/ Abort \/ Execute \/ OnAbort \/ Timeout \/ Attached \/ ToBackground \/ ChildExits \/ BackgroundEnds \/ Closed
    \/ \E chunk \in Chunks : Output(chunk)
Init == StartReader \/ StartEditor \/ StartFinder \/ StartShell
Spec == Init /\ [][Next]_wt
-----------------------------------------------------------------------------
\* Reading on from where each answer says gives every line once, and comes to an end.
PagesMakeTheFile ==
    wt.tool = "read" =>
        /\ wt.got = SubSeq(wt.lines, 1, IF wt.next = 0 THEN Len(wt.lines) ELSE wt.next - 1)
        /\ wt.from =< Len(wt.lines)   \* the number of calls

\* An edit changes what it names and nothing else: taken back the same way, where it can be, it leaves
\* the file as it was; and the lines of a file keep their ends.
PureCrlf(text) == \A k \in DOMAIN text : text[k] = "n" => k > 1 /\ text[k - 1] = "r"
PureLf(text) == \A k \in DOMAIN text : text[k] # "r"
EditsAreExact ==
    wt.tool = "edit" /\ wt.edits # <<>> =>
        LET back == [k \in DOMAIN wt.edits |-> Edit(wt.edits[k].new, wt.edits[k].old)]
        IN /\ HasCrlf(wt.before) = HasCrlf(wt.file) /\ ~Refused(wt.file, back) => ApplyEdits(wt.file, back) = wt.before
           /\ PureCrlf(wt.before) /\ HasCrlf(wt.before) => PureCrlf(wt.file)
           /\ PureLf(wt.before) => PureLf(wt.file)

\* A search finds the first files of the walk that match, and says whether there are more.
InOrder == <<"f1", "f5", "f2", "f3", "f4">>
FindsTheFirst ==
    wt.tool = "find" /\ wt.done =>
        LET all == Hits(wt.match, InOrder)
        IN wt.more = (Len(all) > MaxFound) /\ wt.found = SubSeq(all, 1, IF wt.more THEN MaxFound ELSE Len(all))

\* After its time is up or the run is aborted nothing of a command goes on, so that it ends; and once it
\* has ended no job is left open.
CommandsEnd ==
    Bash => /\ wt.phase = "running" /\ (wt.timedOut \/ (wt.aborted /\ wt.heard)) => ~wt.child /\ ~wt.background
            /\ wt.phase = "settled" => wt.job # "open"

\* The model is told the end of the output, and whether that is not all; never nothing of something.
OutputIsTheEnd ==
    Bash /\ wt.phase = "settled" =>
        LET all == FlattenSeq(wt.made)
        IN /\ wt.told = SubSeq(all, Len(all) - Len(wt.told) + 1, Len(all))
           /\ wt.cut = (wt.told # all)
           /\ all # <<>> => wt.told # <<>>
=============================================================================
