----------------------------- MODULE SessionIndex -----------------------------
(***************************************************************************)
(* Listing and searching the sessions: the Sessions service over two       *)
(* storages it can be switched between (the JSONL files, and memory while  *)
(* that plugin is off), the summaries cached by file time and size         *)
(* (session-jsonl), and the SQLite index that the search plugin fills      *)
(* behind the appends and catches up from the files                        *)
(* (session-search-fts over sqlite-index.ts).                              *)
(*                                                                         *)
(* A log is a sequence of what its events say: a word, a rewind to the     *)
(* start or the archive label.  Ranking, snippets and limits are left out. *)
(***************************************************************************)
EXTENDS Naturals, Sequences, SequencesExt

CONSTANTS Ids,        \* sessions
          MaxEvents,  \* events of a log
          MaxWrites,  \* writes to the files
          MaxFaults,  \* crashes, lost indexes and failed writes of one
          Races       \* what this instance admits of "fallback"

VARIABLE si
None == [stamp |-> 0, log |-> <<>>]
Entry(stamp, log) == [stamp |-> stamp, log |-> log]
Empty == [i \in Ids |-> None]
Says == {"word", "rewind", "archive"}

Init ==
    \E sides \in {{}, {CHOOSE i \in Ids : TRUE}} :
    si = [sides |-> sides, storage |-> "jsonl", files |-> Empty, memory |-> Empty, open |-> Empty, cache |-> Empty,
          made |-> {}, deleted |-> {}, fts |-> TRUE, synced |-> FALSE, reconciled |-> FALSE, rows |-> Empty,
          dirty |-> Empty, writes |-> 0, faults |-> 0, answer |-> [of |-> "none"]]

\* What currentBranch leaves of a log, the words of it, and its archive label.
Branch(log) ==
    LET cuts == {n \in DOMAIN log : log[n] = "rewind"} IN
    IF cuts = {} THEN log ELSE SubSeq(log, 1 + CHOOSE n \in cuts : \A m \in cuts : m <= n, Len(log))
Found(i, log) ==
    LET said == ToSet(Branch(log)) IN i \notin si.sides /\ "word" \in said /\ "archive" \notin said

Is(x) == x # None
\* Every step but a list or a search.
Do(x) == [x EXCEPT !.answer = [of |-> "none"]]

-----------------------------------------------------------------------------
(* The index                                                               *)
\* A mistake the runs must catch: a file that is indexed is not read again.
IndexedOnce(x, i) == Is(x.rows[i]) \/ ~Is(x.files[i])
\* The row of a file is as old and as long as the file.
Unchanged(x, i) == x.rows[i].stamp = x.files[i].stamp
\* reconcile: changed and new files are read, rows without a file go.
Reconciled(x) ==
    IF x.reconciled THEN x
    ELSE [x EXCEPT !.reconciled = TRUE,
                   !.rows = [i \in Ids |-> IF ~Is(x.files[i]) THEN None ELSE IF Unchanged(x, i) THEN @[i] ELSE x.files[i]]]
\* upsertFromDisk: what the session has in memory, under the file's time and size.
Upsert(x, i) == [x EXCEPT !.rows[i] = Entry(IF Is(x.files[i]) THEN x.files[i].stamp ELSE x.writes + 1, x.dirty[i].log)]

\* markDirty
MarkDirty(x, i, log) == IF x.fts THEN [x EXCEPT !.dirty[i] = Entry(1, log)] ELSE x
\* flushDirty, of those that are dirty among ids.
FlushDirty(x, ids) ==
    LET batch == {i \in ids : Is(x.dirty[i])} IN
    [x EXCEPT !.rows = [i \in Ids |-> IF i \in batch THEN Upsert(x, i).rows[i] ELSE @[i]],
              !.dirty = [i \in Ids |-> IF i \in batch THEN None ELSE @[i]]]
\* ensureDiskSynced
EnsureDiskSynced(x) ==
    IF x.synced THEN x
    ELSE LET y == Reconciled(x) IN
         [y EXCEPT !.synced = TRUE, !.dirty = [i \in Ids |-> IF Is(x.open[i]) THEN Entry(1, x.open[i].log) ELSE @[i]]]

Timer == si.fts /\ (\E i \in Ids : Is(si.dirty[i])) /\ si' = Do(FlushDirty(si, Ids))
Warmup == si.fts /\ ~si.synced /\ si' = Do(EnsureDiskSynced(si))
\* session.flush
Flush(i) == si.fts /\ Is(si.open[i]) /\ Is(si.dirty[i]) /\ si' = Do(FlushDirty(si, {i}))
\* SQLite refuses the write of a batch: it is dropped, and the files are compared again by the next search.
UpsertFails ==
    /\ si.fts /\ si.faults < MaxFaults /\ \E i \in Ids : Is(si.dirty[i])
    /\ si.storage = "memory" => "fallback" \in Races
    /\ si' = Do([si EXCEPT !.faults = @ + 1, !.reconciled = FALSE, !.dirty = Empty])
\* The plugin is switched off, after a last flush, or on.
SwitchSearch ==
    si' = Do(IF si.fts THEN [FlushDirty(si, Ids) EXCEPT !.fts = FALSE, !.reconciled = FALSE, !.synced = FALSE]
             ELSE [si EXCEPT !.fts = TRUE])

-----------------------------------------------------------------------------
(* The storages                                                            *)
Written(x, i, log) == [x EXCEPT !.writes = @ + 1, !.files[i] = Entry(x.writes + 1, log), !.cache[i] = None]
\* What append and create of the storage at hand do with a log that is now this one.
Stored(x, i, log) ==
    IF x.storage = "jsonl" THEN Written(x, i, log) ELSE [x EXCEPT !.writes = @ + 1, !.memory[i] = Entry(1, log)]

Create(i) ==
    /\ i \notin si.made /\ si.writes < MaxWrites
    /\ si' = Do(MarkDirty([Stored(si, i, <<>>) EXCEPT !.made = @ \cup {i}, !.open[i] = Entry(1, <<>>)], i, <<>>))
AppendTo(i, said) ==
    /\ Is(si.open[i]) /\ Len(si.open[i].log) < MaxEvents /\ si.writes < MaxWrites
    /\ LET log == Append(si.open[i].log, said) IN
       si' = Do(MarkDirty([Stored(si, i, log) EXCEPT !.open[i] = Entry(1, log)], i, log))

Held(x) == IF x.storage = "jsonl" THEN x.files ELSE x.memory
Load(i) ==
    /\ ~Is(si.open[i]) /\ Is(Held(si)[i])
    /\ si.storage = "memory" => "fallback" \in Races
    /\ si' = Do([si EXCEPT !.open[i] = Entry(1, Held(si)[i].log)])
\* Idle sessions are unloaded.
Sweep(i) ==
    /\ Is(si.open[i])
    /\ (si.files[i].log # si.open[i].log \/ ~Is(si.files[i])) => "fallback" \in Races
    /\ si' = Do([si EXCEPT !.open[i] = None])

\* A mistake the runs must catch: a deleted session stays in the index.
DeleteUnsearched(i) ==
    [si EXCEPT !.open[i] = None, !.files[i] = None, !.memory[i] = None, !.cache[i] = None, !.deleted = @ \cup {i}]
\* delete of the storage, and of the index when it is there.
Deleted(i) ==
    LET x == [si EXCEPT !.open[i] = None, !.cache[i] = None, !.deleted = @ \cup {i}]
        y == IF si.storage = "jsonl" THEN [x EXCEPT !.files[i] = None] ELSE [x EXCEPT !.memory[i] = None] IN
    IF si.fts THEN [y EXCEPT !.dirty[i] = None, !.rows[i] = None] ELSE y
Delete(i) ==
    /\ Is(si.open[i])
    /\ (si.storage = "memory" /\ Is(si.files[i])) => "fallback" \in Races
    /\ si' = Do(Deleted(i))

\* A mistake the runs must catch: a storage that comes back has what it had.
AdoptNone(x, i) == x
\* adopt: what the file lacks of an open session is appended.
Adopt(x, i) ==
    IF ~Is(x.open[i]) \/ (Is(x.files[i]) /\ x.files[i].log = x.open[i].log) THEN x ELSE Written(x, i, x.open[i].log)
\* registerStorage and its undoing: the JSONL plugin is switched off or on.
SwitchStorage ==
    /\ si.writes < MaxWrites
    /\ (si.storage = "jsonl" /\ si.synced /\ ~si.reconciled) => "fallback" \in Races
    /\ si' = Do(IF si.storage = "jsonl"
                THEN [si EXCEPT !.storage = "memory", !.cache = Empty,
                                !.memory = [i \in Ids |-> IF Is(si.open[i]) THEN si.open[i] ELSE @[i]]]
                ELSE FoldLeft(Adopt, [si EXCEPT !.storage = "jsonl"], SetToSeq(Ids)))

\* The Host dies, maybe after a line was written that nobody heard of, and starts again; the index may
\* have been lost, or be of another schema.
Crash ==
    /\ si.faults < MaxFaults
    /\ si.storage = "memory" => "fallback" \in Races
    /\ \E kept \in BOOLEAN, unheard \in {<<>>, <<"word">>}, i \in Ids :
       LET log == si.open[i].log \o unheard
           x == IF unheard = <<>> \/ ~Is(si.open[i]) \/ Len(log) > MaxEvents THEN si ELSE Written(si, i, log) IN
       si' = Do([x EXCEPT !.faults = @ + 1, !.storage = "jsonl", !.synced = FALSE, !.reconciled = FALSE,
                          !.rows = [j \in Ids |-> IF kept THEN @[j] ELSE None], !.open = Empty, !.dirty = Empty,
                          !.cache = Empty, !.memory = Empty])

-----------------------------------------------------------------------------
(* The answers                                                             *)
\* The cached summary of a file, if the file has not changed since.
Summary(i) == IF si.cache[i].stamp = si.files[i].stamp THEN si.cache[i] ELSE si.files[i]
StorageList == IF si.storage = "memory" THEN si.memory ELSE [i \in Ids |-> IF Is(si.files[i]) THEN Summary(i) ELSE None]
\* list: what is stored, the open ones as they are now.
Listed == [i \in Ids |-> IF Is(si.open[i]) THEN si.open[i] ELSE StorageList[i]]
List ==
    si' = [si EXCEPT !.cache = IF si.storage = "jsonl" THEN StorageList ELSE @,
                     !.answer = [of |-> "list", ids |-> {i \in Ids : Is(Listed[i])}, logs |-> [i \in Ids |-> Listed[i].log]]]

\* search: by the plugin's index, or else by a scan that loads every session.
SearchIndex ==
    /\ si.fts
    /\ LET x == FlushDirty(EnsureDiskSynced(si), Ids)
           y == Reconciled(x) IN
       si' = [y EXCEPT !.answer = [of |-> "search", ids |-> {i \in Ids : Is(y.rows[i]) /\ Found(i, y.rows[i].log)}]]
Scan ==
    /\ ~si.fts
    /\ LET visited == {i \in Ids : Is(Listed[i]) /\ i \notin si.sides /\ "archive" \notin ToSet(Branch(Listed[i].log))}
           logs == [i \in Ids |-> IF i \in visited /\ ~Is(si.open[i]) THEN Entry(1, Held(si)[i].log) ELSE si.open[i]] IN
       /\ (si.storage = "memory" /\ \E i \in visited : ~Is(si.open[i])) => "fallback" \in Races
       /\ si' = [si EXCEPT !.open = logs, !.answer = [of |-> "search", ids |-> {i \in visited : Found(i, logs[i].log)}]]

Next ==
    \/ \E i \in Ids : \/ Flush(i) \/ Create(i) \/ Load(i) \/ Sweep(i) \/ Delete(i)
                      \/ \E said \in Says : AppendTo(i, said)
    \/ Timer \/ Warmup \/ UpsertFails \/ SwitchSearch \/ SwitchStorage \/ Crash \/ List \/ SearchIndex \/ Scan
Spec == Init /\ [][Next]_si
-----------------------------------------------------------------------------
Truth(i) == IF Is(si.open[i]) THEN si.open[i] ELSE si.files[i]

\* A list has every session there is, as its log is now, and none that was deleted; a search finds
\* those that say the word now, whether they are open, were indexed before a crash or never.
AnswersAreCurrent ==
    si.storage = "jsonl" =>
        /\ si.answer.of = "list" =>
             /\ si.answer.ids = si.made \ si.deleted
             /\ \A i \in si.answer.ids : si.answer.logs[i] = Truth(i).log
        /\ si.answer.of = "search" => si.answer.ids = {i \in si.made \ si.deleted : Found(i, Truth(i).log)}

\* With the JSONL files in use, each open session is on disk to its last event, through every switch.
SwitchesKeepLogs ==
    si.storage = "jsonl" => \A i \in Ids : Is(si.open[i]) => Is(si.files[i]) /\ si.files[i].log = si.open[i].log
=============================================================================
