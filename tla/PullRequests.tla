---------------------------- MODULE PullRequests ----------------------------
(***************************************************************************)
(* The pull requests page and the commands behind it: the list of the      *)
(* shown repository, the details of one of its pull requests, the form of  *)
(* a new one with the text a model drafts for it, the push before it, the  *)
(* prompts made of a pull request, and worktrees.  Meanwhile others merge, *)
(* checks change, and branches move.                                       *)
(*                                                                         *)
(* gh and git are external: what they read and refuse is modelled from the *)
(* commands' use of them.  Texts are known by whom they are of.            *)
(***************************************************************************)
EXTENDS Naturals, Sequences, FiniteSets, SequencesExt

CONSTANTS Repos,     \* workspaces that are repositories
          Plain,     \* workspaces that are not
          Branches,  \* feature branches, each may become a pull request to "main"
          MaxOps,    \* steps of the user and of others
          Races      \* what this instance admits of "switch", "typing", "branch", "reopen"

VARIABLE pr
Workspaces == Repos \cup Plain
AnyRepo == CHOOSE r \in Repos : TRUE
Nothing == [by |-> "nobody", repo |-> AnyRepo, head |-> "main"]
NoForm == [open |-> FALSE, text |-> Nothing, typed |-> FALSE, draft |-> FALSE, push |-> FALSE, error |-> FALSE]
Idle == [at |-> "idle", repo |-> AnyRepo, text |-> Nothing, over |-> FALSE]
NoList == [repo |-> "none", numbers |-> {}]
NoDetail == [number |-> 0, checks |-> "none"]

Init ==
    pr = [cwd |-> AnyRepo, selected |-> AnyRepo, touched |-> FALSE, expanded |-> 0, list |-> NoList, detail |-> NoDetail,
          form |-> NoForm, drafting |-> Idle, submitting |-> Idle, prefill |-> [repo |-> "none", number |-> 0, checks |-> "none"],
          branch |-> [r \in Repos |-> "main"], pushed |-> [r \in Repos |-> {}], prs |-> <<>>,
          mine |-> {}, ops |-> 0, worktrees |-> [r \in Repos |-> <<>>], clock |-> 0]

Step(x) == [x EXCEPT !.ops = @ + 1]
CanStep == pr.ops < MaxOps

\* The pull requests of a repository that are open.
OpenIn(repo) == {n \in DOMAIN pr.prs : pr.prs[n].repo = repo /\ pr.prs[n].open}

-----------------------------------------------------------------------------
(* The list and the details                                                *)
\* findGitWorkspace: the requested workspace, or the first other one that is a repository.
Resolved == IF pr.selected \in Repos THEN pr.selected ELSE IF pr.touched THEN "none" ELSE AnyRepo
\* The repository of the page: that of the list, or else the requested workspace itself.
RepositoryRoot == IF pr.list.repo # "none" THEN pr.list.repo ELSE pr.selected

\* The answers of another workspace, or of before a change, are not shown.
Forget(x) == [x EXCEPT !.list = NoList, !.detail = NoDetail]
ListAnswers ==
    /\ pr.list = NoList /\ Resolved # "none"
    /\ pr' = [pr EXCEPT !.list = [repo |-> Resolved, numbers |-> OpenIn(Resolved)]]
Refresh == CanStep /\ pr.list # NoList /\ pr' = Step([pr EXCEPT !.list = [repo |-> Resolved, numbers |-> OpenIn(Resolved)]])

Expand(n) ==
    /\ CanStep /\ ~pr.form.open /\ n \in pr.list.numbers
    /\ pr' = Step([pr EXCEPT !.expanded = IF @ = n THEN 0 ELSE n, !.detail = NoDetail])
\* get_pull_request_detail
DetailAnswers ==
    /\ pr.expanded # 0 /\ pr.detail = NoDetail
    /\ pr' = [pr EXCEPT !.detail = [number |-> pr.expanded, checks |-> pr.prs[pr.expanded].checks]]

\* Whether what the user has typed or asked for in the form goes on.
Unfinished == pr.form.text # Nothing \/ pr.drafting # Idle \/ pr.submitting # Idle
\* A mistake the runs must catch: the picker keeps the open details.
PickKeepsDetails(x) == [x EXCEPT !.list = NoList]
\* Another project, or another repository of the picker, is shown from its start.
Picked(x) == [Forget(x) EXCEPT !.expanded = 0]
FollowCwd(w) ==
    /\ CanStep /\ w # pr.cwd
    /\ Unfinished => "switch" \in Races
    /\ pr' = Step(Picked([pr EXCEPT !.cwd = w, !.selected = w, !.touched = FALSE]))
Pick(w) ==
    /\ CanStep /\ ~pr.form.open /\ w # pr.selected
    /\ Unfinished => "switch" \in Races
    /\ pr' = Step(Picked([pr EXCEPT !.selected = w, !.touched = TRUE]))
\* The page is left; what is under way goes on without it.
Left(x) == [Forget(x) EXCEPT !.expanded = 0, !.form = NoForm, !.drafting = Idle, !.selected = x.cwd, !.touched = FALSE]

\* A prompt made of the details goes to a new task in that repository, and so does a review.
SendToChat ==
    /\ CanStep /\ ~pr.form.open /\ pr.detail # NoDetail /\ pr.detail.checks = "failed"
    /\ pr' = Step(Left([pr EXCEPT !.prefill = [repo |-> RepositoryRoot, number |-> pr.expanded, checks |-> pr.detail.checks]]))
Review(n) ==
    /\ CanStep /\ ~pr.form.open /\ n \in pr.list.numbers
    /\ pr' = Step(Left([pr EXCEPT !.prefill = [repo |-> RepositoryRoot, number |-> n, checks |-> "none"]]))
\* gh pr checkout, and the page is left once it succeeds.
Checkout(n) ==
    /\ CanStep /\ ~pr.form.open /\ n \in pr.list.numbers
    /\ pr.submitting # Idle => "branch" \in Races
    /\ pr' = Step(IF pr.prs[n].open THEN Left([pr EXCEPT !.branch[pr.prs[n].repo] = pr.prs[n].head]) ELSE pr)

-----------------------------------------------------------------------------
(* A new pull request                                                      *)
OpenForm == CanStep /\ ~pr.form.open /\ pr' = Step([pr EXCEPT !.form.open = TRUE, !.form.error = FALSE])
\* The backdrop closes the form, also while it is being submitted; its text stays.
CloseForm ==
    /\ CanStep /\ pr.form.open
    /\ pr.submitting # Idle => "reopen" \in Races
    /\ pr' = Step([pr EXCEPT !.form.open = FALSE, !.form.error = FALSE])
Type ==
    /\ CanStep /\ pr.form.open /\ RepositoryRoot \in Repos
    /\ pr.drafting # Idle => "typing" \in Races
    /\ pr.submitting # Idle => "reopen" \in Races
    /\ pr' = Step([pr EXCEPT !.form.typed = TRUE, !.submitting.over = pr.submitting # Idle,
                             !.form.text = [by |-> "user", repo |-> RepositoryRoot, head |-> pr.branch[RepositoryRoot]]])
SetOptions(draft, push) ==
    CanStep /\ pr.form.open /\ pr' = Step([pr EXCEPT !.form.draft = draft, !.form.push = push])

\* pull_request_draft_prompt: the commits of the branch of this moment, and one call of the model with them.
GenerateDraft ==
    /\ CanStep /\ pr.form.open /\ pr.drafting = Idle /\ pr.submitting = Idle
    /\ pr' = Step(IF RepositoryRoot \in Repos
                  THEN [pr EXCEPT !.form.error = FALSE, !.form.typed = FALSE, !.drafting = [Idle EXCEPT !.at = "asked", !.repo = RepositoryRoot,
                            !.text = [by |-> "model", repo |-> RepositoryRoot, head |-> pr.branch[RepositoryRoot]]]]
                  ELSE [pr EXCEPT !.form.error = TRUE])
DraftAnswers ==
    /\ pr.drafting # Idle
    /\ \/ pr' = [pr EXCEPT !.drafting = Idle, !.form.text = pr.drafting.text]
       \/ pr' = [pr EXCEPT !.drafting = Idle, !.form.error = TRUE]

\* handleCreatePr
Submit ==
    /\ CanStep /\ pr.form.open /\ pr.submitting = Idle /\ pr.form.text # Nothing
    /\ pr.drafting # Idle => "typing" \in Races
    /\ pr' = Step([pr EXCEPT !.form.error = FALSE,
                             !.submitting = [at |-> IF pr.form.push THEN "push" ELSE "create", repo |-> RepositoryRoot,
                                             text |-> pr.form.text, over |-> FALSE]])
\* A mistake the runs must catch: the form is emptied whatever became of it.
FailsEmptied(x) == [x EXCEPT !.submitting = Idle, !.form = [NoForm EXCEPT !.open = x.form.open, !.error = x.form.open]]
Fails(x) == [x EXCEPT !.submitting = Idle, !.form.error = x.form.open]
\* git_push of the branch of this moment; the remote may refuse it.
Push ==
    /\ pr.submitting.at = "push"
    /\ LET repo == pr.submitting.repo IN
       \/ repo \in Repos /\ pr' = [pr EXCEPT !.pushed[repo] = @ \cup {pr.branch[repo]}, !.submitting.at = "create"]
       \/ pr' = Fails(pr)
\* A mistake the runs must catch: the list is not read again.
CreatedUnseen(x) == [x EXCEPT !.submitting = Idle, !.form = [NoForm EXCEPT !.draft = @, !.push = x.form.push]]
\* The form is emptied and closed, and every list and every detail is read again.
Created(x) == [Forget(x) EXCEPT !.submitting = Idle, !.form = [NoForm EXCEPT !.draft = x.form.draft, !.push = x.form.push]]
\* create_pull_request: gh refuses a base that is the head, a head that is not pushed, and a second pull request of one.
Create ==
    /\ pr.submitting.at = "create"
    /\ LET repo == pr.submitting.repo
           new == [repo |-> repo, head |-> pr.branch[repo], text |-> pr.submitting.text, open |-> TRUE, checks |-> "pending"] IN
       \/ /\ repo \in Repos /\ new.head # "main" /\ new.head \in pr.pushed[repo]
          /\ \A n \in OpenIn(repo) : pr.prs[n].head # new.head
          /\ pr' = Created([pr EXCEPT !.prs = Append(@, new), !.mine = @ \cup {Len(pr.prs) + 1}])
       \/ pr' = Fails(pr)

-----------------------------------------------------------------------------
(* Others                                                                  *)
\* The user or an agent switches the branch of a repository.
SwitchBranch(repo, branch) ==
    /\ CanStep /\ branch # pr.branch[repo]
    /\ Unfinished => "branch" \in Races
    /\ pr' = Step([pr EXCEPT !.branch[repo] = branch])
ChecksEnd(n) == CanStep /\ pr.prs[n].checks = "pending" /\ pr' = Step([pr EXCEPT !.prs[n].checks = "failed"])
Merge(n) == CanStep /\ pr.prs[n].open /\ pr' = Step([pr EXCEPT !.prs[n].open = FALSE, !.mine = @ \ {n}])

-----------------------------------------------------------------------------
(* Worktrees                                                               *)
\* create_worktree: path and branch are named for the second, so git refuses another one in it.
CreateWorktree(repo) ==
    /\ CanStep /\ Len(pr.worktrees[repo]) < 2
    /\ LET new == [path |-> pr.clock, branch |-> pr.clock] IN
       pr' = Step(IF \E r \in Repos : \E k \in DOMAIN pr.worktrees[r] : pr.worktrees[r][k].path = pr.clock THEN pr
                  ELSE [pr EXCEPT !.worktrees[repo] = Append(@, new)])
Tick == pr.clock < 1 /\ pr' = [pr EXCEPT !.clock = @ + 1]

\* What git worktree list --porcelain says, and what parse_worktrees makes of it.
Lines(trees) ==
    FlattenSeq([k \in DOMAIN trees |->
        <<[is |-> "worktree", of |-> trees[k].path], [is |-> "HEAD", of |-> trees[k].path]>>
        \o (IF trees[k].branch = "none" THEN <<[is |-> "detached", of |-> "none"]>>
            ELSE <<[is |-> "branch", of |-> trees[k].branch]>>)
        \o <<[is |-> "blank", of |-> "none"]>>])
Flushed(acc) ==
    IF acc.path = "none" THEN acc
    ELSE [path |-> "none", head |-> "none", branch |-> "none",
          found |-> Append(acc.found, [path |-> acc.path, head |-> acc.head, branch |-> acc.branch, main |-> acc.found = <<>>])]
ParseLine(acc, line) ==
    CASE line.is = "worktree" -> [Flushed(acc) EXCEPT !.path = line.of]
      [] line.is = "HEAD" -> [acc EXCEPT !.head = line.of]
      [] line.is = "branch" -> [acc EXCEPT !.branch = line.of]
      [] line.is = "detached" -> acc
      [] line.is = "blank" -> Flushed(acc)
ParseWorktrees(lines) ==
    Flushed(FoldLeft(ParseLine, [path |-> "none", head |-> "none", branch |-> "none", found |-> <<>>], lines)).found

Next ==
    \/ ListAnswers \/ Refresh \/ DetailAnswers \/ SendToChat
    \/ \E n \in DOMAIN pr.prs : Expand(n) \/ Review(n) \/ Checkout(n) \/ ChecksEnd(n) \/ Merge(n)
    \/ \E w \in Workspaces : FollowCwd(w) \/ Pick(w)
    \/ OpenForm \/ CloseForm \/ Type \/ GenerateDraft \/ DraftAnswers \/ Submit \/ Push \/ Create
    \/ \E draft, push \in BOOLEAN : SetOptions(draft, push)
    \/ \E repo \in Repos : CreateWorktree(repo) \/ \E branch \in Branches \cup {"main"} : SwitchBranch(repo, branch)
    \/ Tick
Spec == Init /\ [][Next]_pr
-----------------------------------------------------------------------------
\* A pull request has the text that was drafted or typed for its repository and its branch.
CreatedAsShown == \A n \in DOMAIN pr.prs : pr.prs[n].text.repo = pr.prs[n].repo /\ pr.prs[n].text.head = pr.prs[n].head

\* The details, and what is sent to a task, are of a pull request of the repository that is named with it.
FeedbackIsOfThem ==
    /\ pr.detail # NoDetail => pr.prs[pr.detail.number].repo = RepositoryRoot
    /\ pr.prefill.number # 0 => pr.prs[pr.prefill.number].repo = pr.prefill.repo

\* The list shows the pull requests made from here, until they are merged.
OwnAreListed == pr.list.repo # "none" => \A n \in pr.mine : pr.prs[n].repo = pr.list.repo => n \in pr.list.numbers

\* What the user has typed since asking for a draft stays in the form, whatever fails, until it is
\* typed over, a pull request is made of it, or the page is left.
TextStays ==
    pr.form.typed => \/ pr'.form.text.by = "user" \/ (pr'.form = NoForm /\ pr'.prs = pr.prs)
                     \/ (pr'.prs # pr.prs /\ ~pr.submitting.over)
TypedStays == [][TextStays]_pr

\* Each worktree has a place and a branch of its own, and the list says of each what git said of it.
WorktreesAreOwn ==
    LET trees(repo) == <<[path |-> "main", branch |-> "main"]>> \o
                       [k \in DOMAIN pr.worktrees[repo] |-> [path |-> <<repo, pr.worktrees[repo][k].path>>,
                                                             branch |-> IF k = 2 THEN "none" ELSE "w"]]
    IN \A repo \in Repos :
       /\ \A other \in Repos, j, k \in 1..2 :
            (j \in DOMAIN pr.worktrees[repo] /\ k \in DOMAIN pr.worktrees[other]
             /\ pr.worktrees[repo][j].path = pr.worktrees[other][k].path) => repo = other /\ j = k
       /\ ParseWorktrees(Lines(trees(repo))) =
            [k \in DOMAIN trees(repo) |-> [path |-> trees(repo)[k].path, head |-> trees(repo)[k].path,
                                           branch |-> trees(repo)[k].branch, main |-> k = 1]]
=============================================================================
