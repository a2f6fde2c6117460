----------------------------- MODULE Repository -----------------------------
(***************************************************************************)
(* The user's Git repository and who works on it: the desktop commands     *)
(* that stage, restore, patch, commit and push (src-tauri/src/commands/    *)
(* git.rs, commit.rs, CommitDialog.tsx), the Host's workspace checkpoints  *)
(* (packages/checkpoints), and an agent or a person who edits, stages and  *)
(* commits beside them.  Git itself is external: each command line is      *)
(* modelled by what it does to HEAD, the index and the files.              *)
(*                                                                         *)
(* Contents are versions, 0 for "no such file".  "rules" is .gitignore:    *)
(* while it exists the untracked file "f" is ignored.                      *)
(***************************************************************************)
EXTENDS Naturals, FiniteSets, TLC

CONSTANTS MaxVersion,  \* versions of "f"
          MaxEdits,    \* edits, stagings and commits of others
          MaxOps,      \* commands of the user
          Races        \* what this instance admits of "stage", "commit" and "rules"

VARIABLE repo

Files == {"f", "g", "rules"}
Versions(file) == IF file = "f" THEN 0..MaxVersion ELSE 0..1
Idle == [kind |-> "idle"]
NoCheckpoint == [tree |-> <<>>, index |-> <<>>, ignored |-> {}]

Ignored(r, file) == file = "f" /\ r.work["rules"] # 0
Init ==
    \E content \in {[f |-> 1, g |-> 1, rules |-> 0], [f |-> 0, g |-> 1, rules |-> 1], [f |-> 0, g |-> 0, rules |-> 0]} :
    \E here \in 0..1 :
    repo = [head |-> content, index |-> content, work |-> [content EXCEPT !.f = here],
            upstream |-> "none", ahead |-> 1, behind |-> 0, dialog |-> Idle, op |-> Idle, pane |-> Idle,
            branches |-> {}, checkpoint |-> NoCheckpoint, running |-> FALSE, edited |-> {}, result |-> Idle, edits |-> 0, ops |-> 0]

-----------------------------------------------------------------------------
(* What git reports                                                        *)
Untracked(r, file) == r.index[file] = 0 /\ r.work[file] # 0 /\ ~Ignored(r, file)
Staged(r, file)    == r.index[file] # r.head[file]
Unstaged(r, file)  == Untracked(r, file) \/ (r.index[file] # 0 /\ r.work[file] # r.index[file])
\* parse_git_status of `git status --untracked-files=all`, and the two diffs of git_snapshot.
Status(r) ==
    [files    |-> {f \in Files : Staged(r, f) \/ Unstaged(r, f)},
     staged   |-> {f \in Files : Staged(r, f)},
     unstaged |-> {f \in Files : Unstaged(r, f)}]
\* git_review_snapshot: both sides of the differences of one kind.
Review(r, cached) ==
    [kind |-> "pane", cached |-> cached, old |-> IF cached THEN r.head ELSE r.index,
     new |-> IF cached THEN r.index ELSE r.work]

\* worktreeTree and write_worktree_tree: HEAD in a scratch index, then `add -A`; the real index
\* is not touched.
WorktreeTree(r) ==
    [file \in Files |-> IF r.head[file] # 0 \/ ~Ignored(r, file) THEN r.work[file] ELSE 0]

-----------------------------------------------------------------------------
(* The others: an agent's run, another session, an editor                  *)
Others == repo.edits < MaxEdits
Edit ==
    /\ Others
    /\ \E file \in Files : \E version \in Versions(file) \ {repo.work[file]} :
        /\ file = "rules" => "rules" \in Races
        /\ repo' = [repo EXCEPT !.work[file] = version, !.edited = @ \cup {file}, !.edits = @ + 1]
OthersStage ==
    /\ Others
    /\ repo.op.kind = "commit" => "stage" \in Races
    /\ \E file \in Files :
        /\ repo.index[file] # repo.work[file] /\ ~(Ignored(repo, file) /\ repo.index[file] = 0)
        /\ repo' = [repo EXCEPT !.index[file] = repo.work[file], !.edits = @ + 1]
OthersCommit ==
    /\ Others /\ repo.index # repo.head
    /\ repo.op.kind = "commit" => "commit" \in Races
    /\ repo' = [repo EXCEPT !.head = repo.index, !.ahead = 1, !.edits = @ + 1]
\* A run of this session; a checkpoint is taken before it, none is restored during it.
RunTurns == repo.op = Idle /\ repo.ops < MaxOps /\ repo' = [repo EXCEPT !.running = ~@, !.ops = @ + 1]

-----------------------------------------------------------------------------
(* The review pane                                                         *)
Command == repo.op = Idle /\ repo.ops < MaxOps
Do(r) == [r EXCEPT !.ops = @ + 1, !.result = Idle]

GitStageFiles ==
    /\ Command
    /\ \E file \in Status(repo).unstaged :
        repo' = [Do(repo) EXCEPT !.index[file] = repo.work[file]]
\* git_unstage_files: `restore --staged`, or `reset HEAD` with an older Git.
GitUnstageFiles ==
    /\ Command
    /\ \E file \in Status(repo).staged : repo' = [Do(repo) EXCEPT !.index[file] = repo.head[file]]
\* git_restore_files: nothing is restored when one of the paths is not in the index.
GitRestoreFiles ==
    /\ Command /\ Status(repo).files # {}
    /\ \E paths \in (SUBSET Status(repo).files) \ {{}} :
        repo' = IF \E file \in paths : repo.index[file] = 0 THEN Do(repo)
                ELSE [Do(repo) EXCEPT !.work = [f \in Files |-> IF f \in paths THEN repo.index[f] ELSE @[f]]]
GitReview == Command /\ \E cached \in BOOLEAN : repo' = [Do(repo) EXCEPT !.pane = Review(repo, cached)]

\* A mistake the runs must catch: the patch is applied to whatever is there.
AppliesAlways(now, from, to) == TRUE
\* `git apply` takes a patch only when every file it changes is as the patch says, and changes
\* nothing otherwise.
Applies(now, from, to) == \A f \in DOMAIN from : from[f] # to[f] => now[f] = from[f]
Patched(now, from, to) ==
    IF Applies(now, from, to) THEN [f \in Files |-> IF f \in DOMAIN from /\ from[f] # to[f] THEN to[f] ELSE now[f]] ELSE now
\* git_apply_patch of one file's difference in the pane: stage, unstage or discard it.
GitApplyPatch ==
    /\ Command /\ repo.pane # Idle
    /\ \E file \in Files, cached, reverse \in BOOLEAN :
        LET old == file :> repo.pane.old[file]
            new == file :> repo.pane.new[file]
            side == IF cached THEN repo.index ELSE repo.work
            after == IF reverse THEN Patched(side, new, old) ELSE Patched(side, old, new) IN
        /\ old # new /\ (cached \/ reverse) /\ (repo.pane.cached => cached /\ reverse)
        /\ repo' = IF cached THEN [Do(repo) EXCEPT !.index = after] ELSE [Do(repo) EXCEPT !.work = after]

-----------------------------------------------------------------------------
(* Commits                                                                 *)
\* CommitDialog: with something staged it commits the index, otherwise the files chosen.
OpenDialog ==
    /\ Command /\ repo.dialog = Idle
    /\ LET staged == Status(repo).staged
           listed == IF staged # {} THEN staged ELSE Status(repo).files IN
       \E chosen \in (SUBSET listed) \ {{}} : \E branch \in BOOLEAN :
           /\ staged # {} => chosen = listed
           /\ repo' = [Do(repo) EXCEPT !.dialog = [kind |-> "open", chosen |-> chosen, index |-> staged # {}, branch |-> branch]]
CloseDialog == repo.dialog # Idle /\ repo.op = Idle /\ repo' = [repo EXCEPT !.dialog = Idle]

\* A mistake the runs must catch: what is staged already is committed with the chosen files.
TakesAny(r, dialog) == TRUE
\* git_commit takes paths only with an empty index, and the index only with something in it.
Takes(r, dialog) == dialog.index = (Status(r).staged # {})
\* A new branch is made first; one that exists refuses the commit.
CommitStarts ==
    /\ Command /\ repo.dialog # Idle
    /\ repo' = IF ~Takes(repo, repo.dialog) \/ (repo.dialog.branch /\ "new" \in repo.branches) THEN Do(repo)
               ELSE [Do(repo) EXCEPT !.branches = IF repo.dialog.branch THEN {"new"} ELSE @,
                                     !.op = [kind |-> "commit", step |-> IF repo.dialog.index THEN "commit" ELSE "add",
                                             head |-> repo.head, index |-> repo.index]]
\* `add --all -- paths`, which fails when a path is neither in the index nor on the disk.
CommitAdds ==
    /\ repo.op.kind = "commit" /\ repo.op.step = "add"
    /\ repo' = IF \E f \in repo.dialog.chosen : repo.index[f] = 0 /\ repo.work[f] = 0 THEN [repo EXCEPT !.op = Idle]
               ELSE [repo EXCEPT !.index = [f \in Files |-> IF f \in repo.dialog.chosen THEN repo.work[f] ELSE @[f]],
                                 !.op.step = "commit"]
Committed ==
    /\ repo.op.kind = "commit" /\ repo.op.step = "commit" /\ repo.index # repo.head
    /\ repo' = [repo EXCEPT !.head = repo.index, !.ahead = 1, !.op = Idle, !.dialog = Idle,
                            !.result = [kind |-> "committed", before |-> repo.op.head, index |-> repo.dialog.index,
                                        chosen |-> repo.dialog.chosen, head |-> repo.index]]
\* A mistake the runs must catch: the files of a rejected commit stay staged.
ResetNone(r) == r.index
ResetPaths(r) == [f \in Files |-> IF f \in r.dialog.chosen /\ ~r.dialog.index THEN r.head[f] ELSE r.index[f]]
\* A hook refuses, or there is nothing to commit after all.
CommitRejected ==
    /\ repo.op.kind = "commit" /\ repo.op.step = "commit"
    /\ repo' = [repo EXCEPT !.index = ResetPaths(repo), !.op = Idle,
                            !.result = [kind |-> "rejected", index |-> repo.op.index, now |-> ResetPaths(repo)]]

\* git_push publishes a branch without an upstream; a remote with other commits refuses it.
GitPush ==
    /\ Command /\ repo.ahead > 0
    /\ repo' = IF repo.behind > 0 THEN Do(repo)
               ELSE [Do(repo) EXCEPT !.ahead = 0, !.upstream = "set"]
RemoteMoves == Others /\ repo.upstream = "set" /\ repo.behind = 0
               /\ repo' = [repo EXCEPT !.behind = 1, !.edits = @ + 1]

-----------------------------------------------------------------------------
(* Checkpoints                                                             *)
\* createWorkspaceCheckpoint, before a run that may change files.
TakeCheckpoint ==
    /\ Command /\ ~repo.running
    /\ repo' = [Do(repo) EXCEPT
                  !.checkpoint = [tree |-> WorktreeTree(repo), index |-> repo.index,
                                  ignored |-> {f \in Files : repo.work[f] # 0 /\ Ignored(repo, f)
                                                             /\ repo.head[f] = 0 /\ repo.index[f] = 0}],
                  !.running = TRUE]

\* restoreWorkspaceCheckpoint compares the trees, then makes a patch of the difference ...
RestoreStarts ==
    /\ Command /\ ~repo.running /\ repo.checkpoint # NoCheckpoint
    /\ repo' = IF WorktreeTree(repo) = repo.checkpoint.tree /\ repo.index = repo.checkpoint.index THEN Do(repo)
               ELSE [Do(repo) EXCEPT !.op = [kind |-> "restore", step |-> "apply", from |-> WorktreeTree(repo), work |-> repo.work],
                                     !.edited = {}]
\* ... and applies it to the files as they are by then ...
RestoreApplies ==
    /\ repo.op.kind = "restore" /\ repo.op.step = "apply"
    /\ LET from == repo.op.from to == repo.checkpoint.tree IN
       repo' = IF Applies(repo.work, from, to)
               THEN [repo EXCEPT !.work = Patched(@, from, to), !.op.step = "index"]
               ELSE [repo EXCEPT !.op = Idle]

\* A mistake the runs must catch: the index is left as the run has made it.
StagedKept(r) == r.index
StagedThen(r) == r.checkpoint.index
\* ... and the index is read from the tree of the index then.
RestoreIndex ==
    /\ repo.op.kind = "restore" /\ repo.op.step = "index"
    /\ repo' = [repo EXCEPT !.index = StagedThen(repo), !.op = Idle,
                            !.result = [kind |-> "restored", edited |-> repo.edited, before |-> repo.op.work,
                                        after |-> repo.work, tree |-> WorktreeTree(repo), index |-> StagedThen(repo)]]

Next ==
    \/ Edit \/ OthersStage \/ OthersCommit \/ RunTurns \/ RemoteMoves
    \/ GitReview \/ GitStageFiles \/ GitUnstageFiles \/ GitRestoreFiles \/ GitApplyPatch
    \/ OpenDialog \/ CloseDialog \/ CommitStarts \/ CommitAdds \/ Committed \/ CommitRejected \/ GitPush
    \/ TakeCheckpoint \/ RestoreStarts \/ RestoreApplies \/ RestoreIndex

Spec == Init /\ [][Next]_repo
-----------------------------------------------------------------------------
Result(kind) == repo.result.kind = kind

\* The files chosen in the dialog are committed and no others, whatever is staged by then, and a
\* rejected commit leaves the index as the dialog found it.
CommitIsAsChosen ==
    /\ Result("committed") /\ ~repo.result.index =>
           \A f \in Files \ repo.result.chosen : repo.result.head[f] = repo.result.before[f]
    /\ Result("rejected") => repo.result.now = repo.result.index

\* With no edits meanwhile, a restored checkpoint brings back the files and the staging of its moment.
RestoreBringsBack ==
    Result("restored") /\ repo.result.edited = {} =>
        repo.result.tree = repo.checkpoint.tree /\ repo.result.index = repo.checkpoint.index

\* A patch, of the pane or of a checkpoint, never overwrites a file that was edited after it was made.
KeepsEdits ==
    \A f \in Files : repo'.work[f] # repo.work[f] =>
        \/ repo'.edits # repo.edits
        \/ repo.op.kind = "restore" /\ repo.work[f] = repo.op.work[f]
        \/ repo.op = Idle /\ repo'.work[f] = repo.index[f]
        \/ repo.op = Idle /\ repo.pane # Idle /\ repo.work[f] = repo.pane.new[f]
PatchKeepsEdits == [][KeepsEdits]_repo

\* "Ignored files are deliberately untouched": a restore leaves what was ignored when the checkpoint
\* was taken.  It does not when the rules are other ones by then (packages/checkpoints/src/git.ts).
IgnoredStay ==
    Result("restored") =>
        \A f \in repo.checkpoint.ignored \ repo.result.edited : repo.result.after[f] = repo.result.before[f]
=============================================================================
