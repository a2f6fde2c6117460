# PIDesktop in TLA+

PIDesktop is a desktop application for coding agents. A Tauri process (Rust) starts the *Harness
Host*, a Node process put together from plugins, and shows a React page that talks to the Host over
one WebSocket. The Host keeps sessions as append-only logs, runs the agent loop on them, calls
models and tools, and executes scheduled tasks; the desktop process looks after files, Git,
terminals, the screen and the Host itself.

This directory holds TLA+ modules of the parts whose correctness depends on the order of things, the
TLC configurations that check them, and proofs that hold for every value of the constants.

- [The system](#the-system): parts, what they keep, how they talk, what is hard
- [Modules](#modules): which module models which part
- [Runs](#runs): what is checked, with which bounds, under which fairness
- [Races](#races): what the code does admit that breaks a property
- [Findings](#findings): where the code and its own words disagree
- [Proofs](#proofs): what holds for every instance
- [Not modelled](#not-modelled), and [what could come next](#what-could-come-next)

## The system

The Host is one JavaScript thread, the page another one, the desktop process has real threads. The
component names are those of `PROJECT.json`, which has the full list with sources.

### The agent

| Component | Code | State it keeps | Operations | Talks to |
|---|---|---|---|---|
| Session log and derivation | `packages/session/src/derive.ts` | none: everything is derived from a log's events | currentBranch, deriveState, closeDanglingCalls, compactionPoint, settledSeq, forkEvents, summarizeLog | read by the loop, the Host's methods, the page |
| Agent loop | `packages/agent-loop` | one run per session: abort signal, steer and follow-up queues | prompt, steer, followUp, abort, compact; the loop | log, LLM service, tools, listeners of agent/* |
| Sessions service, JSONL storage, index | `packages/session`, `session-jsonl`, `session-search-fts` | open objects, loads under way, holds; a file per session; a SQLite index that can be rebuilt | create, get, hold, sweep, delete, fork, append, flush, list, search, switch of the storage | file system |
| Session methods | `packages/host/src/sessions-rpc.ts` | subscribers per session | session.* requests, fan-out of events | sessions, loop, socket |
| Permissions, hooks, questions | `packages/permissions`, `tools`, `hooks`, `ui`, `plan` | modes and rules per session, open questions | evaluate, ask, answer, cancel | loop, clients |
| LLM service and adapters | `packages/llm`, `llm-*` | none between calls | stream with retries, translate, assemble | providers |
| Subagents, headless runs | `packages/subagents`, `host/src/headless.ts` | a pool of children per call | delegate_task, abort, exit code | loop, sessions |
| Tools | `packages/tool-fs`, `tool-bash` | processes under way | read, edit, find, grep, bash | file system, shells |
| Skills, commands, memory | `packages/prompt-context`, `commands`, `memory` | files, which skills are off | list, edit, create, switch, delete; read, append, replace, clear | prompt, settings panels |

### The Host's services

| Component | Code | State it keeps | Operations | Talks to |
|---|---|---|---|---|
| Plugins | `packages/host/src/plugin-*.ts`, `client-bundles.ts`, `reloadable.ts`, `packages/kernel` | copies on disk, plugins.json, what is mounted, a queue of operations, bundles | install, update, remove, enable, reload, watch, bundle | everything |
| MCP client | `packages/mcp` | clients, connected servers, timers, registered tools | connect, reconnect, refresh, call, list, subscribe, dispose | servers, tool registry, settings panel |
| Providers | `provider-admin.ts`, `secrets.ts`, `ModelsPage.tsx` | providers.json, keys, registry; the page's form | save, delete, check, choose the default | LLM service, settings |
| Scheduled tasks | `packages/schedule` | tasks, runs, two files | save, delete, cancel, tick, run, load | loop, sessions |

### The desktop process

| Component | Code | State it keeps | Operations | Talks to |
|---|---|---|---|---|
| Harness Host process, settings | `harness_host.rs`, `commands/settings.rs`, `control.ts` | the child, recent crashes; settings on disk, in memory, in the Host | ensure_running, restart, push_settings, set_settings | the child's pipes |
| Git, commits, checkpoints | `commands/git.rs`, `commit.rs`, `packages/checkpoints` | HEAD, index, files; patches of a run | stage, restore, patch, commit, push; take and restore a checkpoint | git |
| Pull requests, worktrees | `commands/pull_request.rs`, `PullRequestsPage.tsx` | list, details, form | list, draft, create, review, merge, check out | gh, git |
| Workbench, terminals | `workspace_files.rs`, `terminal.rs`, `workbenchStore.ts`, `TerminalPanel.tsx` | open files, tree, searches; shells and tabs | read, save, list, search; start, write, resize, close | files, shells |
| Browsers, computer use | `packages/browser`, `packages/computer`, `computer.rs` | a browser per session; a lease on the screen | open, act, close; observe, act, stop | DevTools, the screen |
| Pet, editors | `DesktopPetWindow.tsx`, `commands/desktop.rs` | its window and list; preferred editors | drag, open, tell; find, open | main window, other programs |

### The page

| Component | Code | State it keeps | Operations |
|---|---|---|---|
| Client runtimes | `harnessRuntime.ts`, `harnessClient.ts` | connection, runtimes, each one's lastSeq and streaming flag | start, stop, attach, resume, reconnect |
| Transcript | `lib/transcript.ts`, `store/transcript.ts` | messages on screen, buffered deltas | apply an event, show a prompt early, read a history |
| Tasks | `store/runtime.ts`, `store/sessions.ts` | runtime and task on screen, model | connect, prewarm, disconnect, pick, send |
| Queue of messages | `managedQueue.ts`, `store/context.ts` | queued messages, the one on its way | queue, edit, drain, steer, put back |
| Settings form | `SettingsModal.tsx`, `store/settings.ts` | the form's values, what is unsaved, the copy of the settings | edit, save after a pause, close, pick a mode |
| Client plugins | `clientPluginRuntime.ts`, `PluginsSettingsPanel.tsx`, `WorkspaceTrustBanner.tsx` | what is mounted, bundles, the panel's list and form | reconcile, install, switch, configure, remove, trust |
| Side chats, composer, questions | `SideChatPanel.tsx`, `Composer.tsx`, `ExtensionDialog.tsx` | a fork and its runtime; text, attachments, suggestions; the question shown | start, stop, send, mention, pick a mode, answer |
| Projects, navigation | `Sidebar.tsx`, `App.tsx`, `store/ui.ts` | registered projects, orders, trail, notifications | register, pin, archive, navigate, notify |

### What is hard

- **Awaits.** The Host and the page run one thing at a time, but every `await` lets another caller
  in, and both keep values across awaits: a session object, a content read before the user was
  asked, the end of a compaction, a `lastSeq`, the task on screen.
- **Three processes and a socket** that die on their own, in the middle of a write, between a write
  and the message that tells of it, or while another one waits for them.
- **Real threads** in the desktop process, with one mutex held while a process starts.
- **A log that is only appended to** and must keep making sense after any sequence of rewinds,
  compactions, forks, failures and crashes.
- **The world outside**: other programs edit the files, stage, commit, move windows, kill browsers
  and change what a server offers.

Each place where this bites is a row of `hazards` in `PROJECT.json`, with the properties about it.

### What makes each part correct

- **Derivation**: the context sent to a model is one every provider accepts; rewinding, forking and
  compacting keep exactly what they should; the list's entry agrees with the session.
- **Loop**: messages are delivered once; results come in the order of the calls; nothing starts
  after an abort; a run settles; compaction never loses a user message.
- **Store**: one object at most writes a log; memory, file and client agree; nobody has been told of
  an event that is not on disk; nobody gets hold of a deleted session; lists and searches answer from the logs.
- **Gate**: a call runs because a mode in force or the user allowed *this* call; each question is
  settled once.
- **Stream**: a reply that counts as complete is what was sent, whole, in the last attempt.
- **Services**: what runs is what was installed, configured and trusted last, and a failure leaves
  what was there; an occurrence of a task runs at most once.
- **Desktop**: restarts are limited and settings agree; user's edits are never overwritten; commands
  act on what was chosen; nothing is left running or held.
- **Page**: the live conversation is the logged one; what is sent goes where the screen said; no
  queued message is lost or sent twice; a lost connection is made again; a setting, a text and an
  answer are what the user made them last.

## Modules

Names follow the source. An action is the code between two awaits (in Rust: between two points where
another thread may come in), with all it changes. What lies outside a component is reduced to what
the component can observe of it.

| Module | Models | State and actions against the code |
|---|---|---|
| `SessionDerive` | derive.ts | operators, one per function, with folds for its loops |
| `SessionLog` | the writers of one log | `log`, `phase` of the run, `todo` calls; an action is one synchronous block of appends |
| `AgentLoop` | one session's loop and its callers | `pc` names the await the run is suspended at; `steer`, `followUp`, `aborted` are fields of ActiveRun |
| `SessionHistory` | abstract: a session's history grows until it is deleted, and a client knows a beginning of it | |
| `SessionStore` | service, JSONL storage and session.* for one session and one client | `open`, `loading`, `holds`: the service's maps; `objects`: the Session objects ever made, so that two can exist; `chunk`: requests past their `sessions.get` |
| `SessionIndex` | list, search, the switch of the storage, the SQLite index | two storages, the cache by time and size, the rows, appends on their way to the index |
| `PermissionRules` | permissions/src/rules.ts | `EvaluateToolPermission` and what it is made of |
| `ToolGate` | one run's calls through tools/pre-execute | `pc` per call; `asked`, `waiting`: questions at the Host and on their way; `slot`: the one the page shows |
| `LlmStream` | LlmService.stream, four adapters, BlockAssembler | attempt, delay, events of the wire, blocks of the message |
| `Subagents` | one delegate_task call with its children, hooks and a headless Host | `kids[i].at` names the child's await |
| `WorkTools` | read, edit, find, grep, bash | one tool per behaviour; for bash its processes, pipes, time limit and buffers |
| `Skills` | skill files, the list of those that are off, prompt, commands, panel | files, state file, the panel's calls in both directions |
| `Memory` | the memory file, the tool and the panel | each caller's `pc`, the content, the panel's text and query |
| `Plugins` | PluginManager, store, installer, bundles; the kernel's order | `disk`: the version in each directory; `op`: the operation that has the queue and its step; `po`: one step per plugin taken off the kernel's queue |
| `Mcp` | one server and the connections made to it | clients with their processes, the service's maps, refresh locks, calls, the event stream |
| `McpUse` | what sessions and the page have of the servers | tools, lists by page, reads, subscriptions and their renewal, `mcp/changed`, the panel |
| `Providers` | providers.json, keys, registry; ModelsPage | `pv`: the two files, the page's two queries, its form and calls under way; `mp`: the draft of a provider with its models, the discovery, what is hidden, the default |
| `Schedule` | the schedule plugin and its two files | a handler is a queue of writes in `pending`, and a crash may come between any two; `rest` is what tick has still to start |
| `HarnessHost` | HostState's mutex and set_settings on threads of their own | `lock`: where ensure_running is; each writer goes through validate, save, store, push |
| `Repository` | Git commands, the commit dialog, checkpoints | HEAD, index and files by version; git itself is external |
| `PullRequests` | the page and its commands | list, details, form with its draft; gh and git are external |
| `Workbench` | open files, editor, tree, search; the editors that open a folder | `wb`: open items with their loading and saving flags, calls under way, the disk; `op`: what was found, preferences, the command line |
| `Browsers` | BrowserSession per agent session | objects, processes, profile lock, each call's step |
| `Machine` | terminals, with their tabs and shells; computer use, with its native helper | `tm`: the queue of commands, the queue of events, each shell's output as bytes; `co`: control session, last capture, windows, input sent |
| `DesktopPet` | the pet's window and what the main window tells it | place and size, panel, press and drag, messages on their way |
| `ClientRuntimes` | the page's adapter and what it can tell of the Host | `conn`, `loop`, `hostStatus`, `map` are its fields; `toHost`, `toPage` the socket, first in first out |
| `Transcript` | the page's conversation | the log and the run, `wire`, `messages`, the buffer of deltas, history reads |
| `PageTasks` | the task on screen | `version` is connectionVersion; connects, picks and a send by the await each is at |
| `PageQueue` | managedFollowUpQueue | `queue`, `drain`, `steer`, `suppress`; turn ends not yet read |
| `Navigation` | trail of screens, archiving, notifications; the side bar with its projects and sessions | two machines: `nv`: `back`, `forward`, the runtime on screen, notices of the bell and of the system; `pl`: the registered projects as desktop and file have them, the page's cache, calls under way, orders |
| `SettingsForm` | the form that saves itself, and everybody else who writes settings | the form with its timer and flush, the page's copy, `set_settings` calls, what the user meant |
| `ClientPlugins` | what the page mounts of plugins, the panel, the question of trust | the Host's plugins and active workspace, calls and answers, fibers, queries, the panel |
| `SideChat` | the side chat of the workbench; the composer; the dialog of questions | three machines: `sc` forks, runtimes, calls and answers; `cm` the mode shown and the mention; `qd` the batch of questions and its drafts |
| `AgentParts`, `HostParts`, `DesktopParts`, `PageParts` | sums of the above | see below |
| `AgentLoop_proofs`, `SessionStore_proofs`, `ClientRuntimes_proofs`, `HarnessHost_proofs`, `ToolGate_proofs`, `PageQueue_proofs`, `Memory_proofs`, `Schedule_proofs` | theorems | see [Proofs](#proofs) |

How they fit together: `SessionLog` and `AgentLoop` use `SessionDerive`, so that the context the loop
sends is the one the derivation makes of the log the loop has written. `ToolGate` and `Subagents` use
`PermissionRules`. `SessionStore` implements `SessionHistory` by `history <- file.events`,
`told <- seen`. The events that parts of the page have of each other (a turn's end, a runtime's
start) are actions in each of them.

A **sum** puts components side by side that share no state: the variable `part` picks one at the
start, the others keep their initial values, so their states add up and do not multiply. Every
property of a component is stated in the component's module, with what it is about; a property of a
sum is a conjunction of those of its components that answer one question (for example `ScreenIsTrue`:
what the page shows is what there is, and what it sends is what it showed). `AgentParts` extends
`ToolGate` and `Subagents`, `HostParts` extends `Schedule`, `DesktopParts` extends `HarnessHost` and
`PageParts` extends `PageQueue` and `PageTasks`, so that their runs check by name the properties that the
theorems are about.

Operators with the comment "A mistake the runs must catch" are faulty variants of the definition
after them. No specification uses them; each property of a passing run is checked to fail when one
of them takes the place of the definition (`mutants` in `PROJECT.json`).

## Runs

| Run | Bounds | Shows |
|---|---|---|
| `session_log` | 6 events, 2 calls in a reply | every log that runs, failures, rewinds, compactions, forks, settings and crashes can leave. Six events hold a user message, a reply with two calls, one result and what undoes it, or two nested rewinds around a compaction |
| `agent_loop` | 2 turns, 2 parallel calls, 2 user messages, 1 of rewind, compaction or abort, 1 restart | interleavings of callers with the loop's awaits: validity of every request, order of results, delivery of messages, aborts |
| `agent_loop_live` | 1 turn, 1 call, 2 user messages, usage above the limit or not, 1 restart | the three ways to compact against messages that arrive meanwhile; that runs settle, under fairness |
| `session_store` | chunks of 2 requests, 6 events, 5 objects | two requests that share a load, sweeps, compactions, a deletion by itself, crashes before and after a line; the refinement of `SessionHistory` |
| `client_runtimes` | 2 runtimes, 2 sessions, 2 events each, 1 crash, 2 messages in flight | a crash at any point of starting, stopping and resuming. Two events are needed for a gap: one live, one missed. Runtimes and sessions are symmetric, and no state but the last deadlocks |
| `agent_parts` | gate: 2 calls, 1 reload, 1 change of mode; stream: 4 formats, 2 attempts, 4 events; 2 children in 2 slots; files of 4 lines; connection: 2 crashes | what the loop calls and is called through: who is asked and what runs on which ground, what is delegated (`DelegationIsTrue`), whole replies (`RepliesAreWhole`); liveness of aborts and of the reconnect loop (`NothingHangs`) |
| `host_parts` | plugins: 2 versions with each kind of fault, 2 operations; MCP: 3 clients, 2 revisions; its use: 2 servers that differ in all they offer, 2 calls, 2 operations; index: 2 sessions, 2 writes, 1 fault; providers: 4 operations; models page: 9 steps; skills: 3; memory: 2 callers, 4 operations; all graphs of 3 plugins and 2 services; schedule: 2 tasks, 2 slots, 2 crashes; the store of a session with `DeletesRace`, `TornWrites` and `SlowSummaries`: chunks of 2 requests, 4 events, 3 objects | the Host's services. A session may be deleted among the other requests of its read, during a compaction or a load: what was deleted may be written anew, but only by who had its object, which nobody gets again (`DeletedIsLeft`); three objects are the deleted one, one loaded meanwhile and a fresh one. Two versions tell the old from the new one, two operations are what can overlap, two crashes let a restart itself be cut off; nine steps hold an edit, a discovery, a save and another edit of a provider |
| `desktop_parts` | Host: 2 delays, a window of 6 units, 2 writers; Git: 2 edits of others, 4 commands; 2 files in 2 workspaces; 2 tabs; 2 agents, 3 browsers; 5 steps of computer use; 2 tasks of the pet; 2 projects to open elsewhere | what the desktop process looks after: its settings and the Host (`SettingsAgree`, `RestartsAreLimited`), what a command does and leaves (`DoesAsAsked`), what is shown (`ShowsWhatIs`), what must not be overwritten (`EditsAreKept`) |
| `page_parts` | transcript: 5 events, 2 prompts, 1 loss; 2 connects; 3 queued messages, 2 aborts, 1 failure; 7 steps of pull requests; 3 sessions in 2 projects; 3 moves; settings: 2 edits, 1 of others, the form opened twice; plugins: 2 operations, 2 directories; side chat: 2 conversations, 2 panels, 5 operations; 3 questions of 2 types | the page's state. Three messages make the queue's order visible, two connects let one overtake the other (and `TaskRaces` admits "slow stop"); the second opening of a form or panel is the one that what is left of the first can disturb |
| `torn_line`, `ignored_lost`, `browser_gone` | small | a violation each, see [Findings](#findings) |

Deadlock is checked in `client_runtimes`. In the others the bounds on events, operations and objects
make behaviours stop.

### Fairness

- `AgentLoop!FairSpec`: a step of the run is taken when it can be, because listeners return and
  `llm.stream` finishes in every case (it turns errors into a finish, which `LlmStream` checks). A tool
  may wait for its user for ever; it returns once the signal is aborted. So `RunSettles` says that a run
  settles *or* waits at a tool, and `AbortSettles` that an abort gets it to settle.
- `AgentParts!PartsSpec`. Gate, as in `ToolGate!Spec`: sessions are read, hooks end, a tool returns once its signal
  is aborted; nothing obliges the user to answer. That hooks end is their time limit's doing, with one
  exception the code does not exclude: the limit kills the hook, but its end is awaited on `close`
  (`hooks/src/index.ts:73`), which a grandchild that holds the hook's output delays for as long as it
  lives. So `NothingHangs` of the gate is about hooks without such a grandchild; what one does to an
  abort is "stuck hook" of `Subagents`. Children: a child's loop goes on (`Progress`), which
  is what `AgentLoop` shows. Commands: a process that was killed and all it has started close their
  pipes. Connection: the Host serves what it is sent, the page takes what arrives, a closed socket is
  noticed, timers fire. `Connects` is strongly fair: a Host that is asked again and again does start, or
  Rust says that it keeps crashing.
- `Schedule!LiveSpec` (for `DueTasksStart`, which holds with a slot for every task): writes go on,
  a restarted Host loads; the timer, a run's time limit and the end of a timed-out run are strongly fair,
  since handlers only keep them from happening for a while.

## Races

In the passing runs the constant `Races` of a module (`TaskRaces` of `PageTasks`) is empty, and flags such
as `SlowSummaries` are false. The exceptions are `host_parts`, which admits all three of the store's,
`page_parts` with "slow stop", and those the table names. That is *not* an assumption about the code.
Each name stands for a behaviour the code does have; admitting one (`Races <- {"..."}`) makes TLC find the
property of the last column violated. The passing runs then say that within the bounds nothing *else*
breaks it. With the names admitted, the modules have all that the code does. A number of operations in
brackets is the bound it takes where that is above the run's; the passing runs pass with one operation
more in these parts, too.

| Module | Race | What happens | Breaks |
|---|---|---|---|
| `SessionStore` | `TornWrites` | the Host dies in the middle of a line; the next append continues the line | ToldIsStored |
| `SessionStore` | `SlowSummaries` | session.compact keeps its Session without a hold, and its summary takes longer than idleMs (`agent-loop/src/index.ts:111`) | OneObject |
| `SessionStore` | `DeletesRace` | session.delete with other requests of its read, or while session.compact waits for its summary: an append through the old object makes the file again, beside a new one; `host_parts` admits it | OneObject, FileIsLog, ClientInSync, ToldIsStored, KeepsHistory |
| `SessionIndex` | "fallback" | while the in-memory storage stands in for the files, sessions are loaded, unloaded or deleted, the index fails or the Host dies | AnswersAreCurrent |
| `LlmStream` | "cut" | a stream that is cut without its last event counts as complete, in the three formats other than Anthropic's | CompleteIsWhole |
| `LlmStream` | "moved" | Gemini signs more than one thought, or other parts than those its signatures go back on | SignaturesReturn |
| `Subagents` | "unattended" | the child of an unattended session is a session of its own and asks | NobodyIsAsked |
| `Subagents` | "again" | the user prompts a child while the hooks of its first run go on; that second run keeps going when the restriction of its tools is lifted (`subagents/src/index.ts:91`) | ResultsAreTheirs, KeepToTheirTools |
| `Subagents` | "stuck hook" | a hook's grandchild keeps its output open after the hook's time limit | AbortReturns |
| `WorkTools` | "blank line" | a page that ends with a blank line is taken for one line shorter, and so the next one | PagesMakeTheFile |
| `WorkTools` | "long line" | a line, or a piece of output, is longer than an answer may be | PagesMakeTheFile |
| `WorkTools` | "orphan" | on Windows a command without a job object leaves something running in the background | CommandsEnd |
| `WorkTools` | "early abort" | the abort comes before the command listens for it | CommandsEnd |
| `Skills` | "overtaking" | another skill is picked while one is being read | EditorIsTheirs |
| `Skills` | "moved on" | another skill is picked or typed into while a creation or a deletion is under way | ChangesAreExact |
| `Skills` | "after delete" | a skill is saved while its deletion or switching is under way | ChangesAreExact |
| `Skills` | "torn state" | the list of those that are off is read while it is being written | ChangesAreExact |
| `Skills` | "by hand" | files are changed outside the panel | ListIsTrue |
| `Skills` | "names" | a name that is no command's ends the list of commands; of two skills with one name the later one is offered | AllAreOffered |
| `Memory` | "late confirm" | the content changes while the user is asked, and what was confirmed replaces it | EntriesAreKept, MeantOnly |
| `Memory` | "lost update" | the same in full access, where nobody is asked | EntriesAreKept |
| `Memory` | "blind save" | the panel saves a text it loaded before an agent's change, or deletes it | EntriesAreKept |
| `Memory` | "overlap" | the file is written or deleted while another call writes it | EntriesAreKept |
| `Memory` | "half written" | the file is read, or left by a Host that dies, while it is being written anew | EntriesAreKept, MeantOnly |
| `Memory` | "early save" | the panel saves before it has loaded | TypedStays |
| `Memory` | "typing" | the user types on while a save is under way | TypedStays |
| `Memory` | "trust" | trust is withdrawn while the user is asked | MeantOnly |
| `Plugins` | "backup" | an install is cut off by a crash before its backup is cleaned up | LatestRuns |
| `Plugins` | "clear" | "reload all" clears the cache of bundles while one is being built (3 operations) | BundleIsFresh |
| `Plugins` | "behind a cycle" | a plugin that only needs one on a cycle is mounted as if it were on it | ProvidersComeFirst |
| `Mcp` | "overlap" | a reconnect while a connect is under way | ServedToolsWork |
| `Mcp` | "slow" | the server exits between its list of tools and its place in the map, which waits for another server | ServedToolsWork |
| `Mcp` | "early change" | the tools change in that same moment | ServedToolsWork |
| `McpUse` | "late answer" | a request over HTTP is answered after its connection has been given up | SubscriptionsHold |
| `McpUse` | "refused" | a server refuses to renew a subscription, which is kept in the map | SubscriptionsHold |
| `McpUse` | "overlap" | a reconnection while another one of the same server is under way | ServersAreKnown |
| `Providers` | "overlap" | two changes of the file overlap | RestIsKept |
| `Providers` | "stale form" | a form opened before another change is saved after it | KeysAreKept |
| `Providers` | "headers" | the form drops the headers it does not show | RestIsKept |
| `Providers` | "late check" | a provider's key is changed while the check of it is under way | CheckIsOfNow |
| `Providers` | "half written" | the first of the two files is written, the second one fails | KeysAreKept |
| `Providers` | "torn edit" | an edit by hand leaves a mistake in the file | RestIsKept |
| `Providers` | "desktop default" | the provider of the desktop's default model is renamed | DefaultFollows |
| `Providers` | "added again" | a provider is added under the name of a removed one, some of whose models were hidden | HiddenAsMeant |
| `Providers` | "typed" | the user goes on in the form while it is being saved | SavesWhatIsShown |
| `Providers` | "other address" | the address is changed after, or while, its models are discovered | OffersAreOfAddress |
| `Providers` | "auth" | the switch for the authorization header is set: what is saved never has it | SavesWhatIsShown |
| `Providers` | "tagged anew" | models are discovered whose capabilities in the form are others: they get the label of what was found | TagsAreTrue |
| `Providers` | "model gone" | the default model is taken out of its provider | DefaultIsTold |
| `Providers` | "none left" | the last provider, with the default model, is removed | DefaultIsTold |
| `Schedule` | `TearsLines` | the interrupted mark is written onto half a line and lost with it (`schedule/src/index.ts:366`) | NothingRunsForever |
| `Schedule` | `DiesWhileWriting` | a crash between a run's end and its task's: a completed run's task shows as interrupted (`:272`); the passing run admits it | InterruptedIsUnfinished |
| `HarnessHost` | `WritersOverlap` | two set_settings calls overlap and leave three different copies (`commands/settings.rs:173`) | SettingsAgree |
| `Repository` | "stage" | others stage between the staging of what was chosen and the commit | CommitIsAsChosen |
| `Repository` | "commit" | others commit between the staging of what was chosen and the commit (`commit.rs:236-239`); the rejected one then resets to their HEAD | CommitIsAsChosen |
| `Repository` | "rules" | .gitignore is edited between a checkpoint and its restoration | KeepsEdits |
| `Workbench` | "switch" | the workspace is switched while files are open or calls under way | CleanIsOnDisk |
| `Workbench` | "overtaking" | a read or a save of a file begins while another one is under way | CleanIsOnDisk |
| `Workbench` | "reopen" | a file with edits, whose last read or save has failed, is opened again (3 operations) | EditsStay |
| `Workbench` | "late listing" | the workspace is switched while a directory is being listed | CleanIsOnDisk |
| `Machine` | "reload" | the page is reloaded, and its shells stay | NoOrphans |
| `Machine` | "early typing" | a key is pressed before its terminal is open | ShellKnows |
| `Browsers` | "parallel calls" | two calls of one session: the second one moves the tab between the first one's switch, action and picture | ActsOnItsTab |
| `Browsers` | "slow call" | a call takes longer than the idle time, and the browser is closed under it | ActsOnItsTab, NoBrowserLeft |
| `Browsers` | "two starts" | a session starts while the browser that holds the profile has not reported its port yet | OneBrowserPerProfile |
| `Machine` | "mode" | the session's mode changes within a control session | InputWasApproved |
| `Machine` | "parallel calls" | two calls of one agent; one was not confirmed | InputWasApproved |
| `Machine` | "titles" | a window is found by a title that another window's title contains | CapturesItsWindow |
| `Machine` | "drag" | a drag is cut off between press and release | NothingIsHeld |
| `DesktopPet` | "early" | the list is sent before the pet's window listens | PetIsTold |
| `DesktopPet` | "failing save" | saving the pet's settings fails | PetIsTold |
| `DesktopPet` | "unsaved" | a task without a file runs while another one is shown | OneActivityEach |
| `DesktopPet` | "touch" | a long press opens the menu while the tray is open (3 operations) | OnePanel |
| `DesktopPet` | "emptied" | the list empties while the tray is open or about to be | TrayIsAsked |
| `DesktopPet` | "native drag" | the system keeps the release of a drag to itself | PressActs |
| `DesktopPet` | "quick" | a change of size begins before the last one has ended | PetStays |
| `Workbench` | "main button" | the main button opens with the editor of another project | OpensInItsOwn |
| `Workbench` | "blocked" | the page's storage is blocked, so a choice is forgotten (4 operations) | OpensInItsOwn |
| `Workbench` | "unix" | an editor's command is a fork's, which only on Windows its folder gives away | StartsTheOne |
| `Workbench` | "two roots" | one editor is installed twice | StartsTheOne |
| `Workbench` | "colon names" | a file name that ends like a line number | OpensAsAsked |
| `ClientRuntimes` | `SharedSession` | with two runtimes on one session, a live event between their resumes makes the second one skip its backlog (`harnessRuntime.ts:612`) | NoGap |
| `ClientRuntimes` | `StartsOffline` | a runtime started while the page reconnects is resumed before it is attached and has its log replayed (`:164`); `agent_parts` admits it | NoGap |
| `ClientRuntimes` | `DiesInResume` | a connection that closes while the runtimes are resumed ends the reconnect loop (2 crashes) | LostIsNoticed, NothingHangs |
| `ClientRuntimes` | `RetriesOnline` | reconnectNow on a connection that is open again leaves the banner at reconnecting (`:554`) | LostIsNoticed |
| `Transcript` | "steer" | a message is steered into a run before its first model call | LiveIsHistory |
| `Transcript` | "abort" | a session is aborted before it exists, or a prompt is sent between an abort and the end of the turn it cuts | LiveIsHistory |
| `Transcript` | "lost" | the connection is lost between a prompt's message and the start of its run | LiveIsHistory |
| `Transcript` | "sync" | a log that was asked for is used after what came later | LiveIsHistory |
| `PageTasks` | "switch" | another task is opened, or a new one begun, while a prompt is being sent | PromptGoesAsShown |
| `PageTasks` | "early" | a prompt is sent while a connect is about to apply the default model | PromptGoesAsShown |
| `PageTasks` | "unread" | a model is turned down and the runtime's own one cannot be read, or a session's state cannot (`store/runtime.ts:421`) | ModelIsTrue |
| `PageTasks` | "slow stop" | the user goes on before the Host has answered `agent.stop`, or it never does; `page_parts` admits it | nothing; the proof of `TaskShownIsTrue` excludes it |
| `PageQueue` | "lost answer" | the Host has taken a message but its answer is lost: it is sent again | InOnePlace |
| `PullRequests` | "switch" | the workspace is switched with a call unfinished | CreatedAsShown |
| `PullRequests` | "branch" | the branch changes, or one is checked out, with a call unfinished | CreatedAsShown |
| `PullRequests` | "typing" | the user types or submits while the draft is made | TextStays |
| `PullRequests` | "reopen" | the form is closed or typed in while it is submitted | TextStays |
| `Navigation` | "overtaking" | two calls run in another order than they were made in | ShownAsRegistered |
| `Navigation` | "refetch" | a query, a registration or a failed write overlaps a change | ShownAsRegistered |
| `Navigation` | "unwritten" | a registration whose write fails stays in memory | ShownAsRegistered |
| `Navigation` | "spelling" | two spellings of one path | OneGroupEach |
| `Navigation` | "leaves" | the user moves on while archiving stops runtimes | NoneArchived |
| `Navigation` | "early" | a conversation that is being archived is still listed and opened | NoneArchived |
| `Navigation` | "partial" | archiving several fails in part | NoneArchived |
| `Navigation` | "starting" | a run tells of itself while the runtime on screen is not the session's on screen | LeadsThere |
| `Navigation` | "limit" | the oldest notice is dropped from the bell while the system still shows it (more notices than MAX_NOTIFICATIONS) | SystemShowsListed |
| `Navigation` | "reload" | the page is reloaded, and the system's notices stay | SystemShowsListed |
| `SettingsForm` | "overlap" | settings are saved from two places at once: each writes all of them, from what it read last | ChoicesAreKept |
| `SettingsForm` | "pause" | the user types on behind the mask of a credential, and the mask is saved with it | ChoicesAreKept |
| `SettingsForm` | "old status" | the timer that clears "saved" goes off when the form says something else | StatusIsTrue |
| `ClientPlugins` | "stale toggle" | a plugin is switched to "watch" while its list is read anew: the switch sends the configuration it was shown with (3 operations) | ChoicesStand |
| `ClientPlugins` | "closed" | the panel is closed before the answer to switching a built-in plugin, whose setting is then not saved | ChoicesStand |
| `ClientPlugins` | "restart" | the Host restarts, and neither the panel nor the banner asks again | PanelIsTrue |
| `ClientPlugins` | "moved" | the workspace is switched while the panel lists the plugins of the old one, or the panel is opened while the page asks for another one: the Host is left at either | PageFollowsHost, PanelIsTrue |
| `ClientPlugins` | "left" | the page leaves a workspace for none: `pluginClient.list` then names no workspace, the Host stays at the old one, and so do its plugins | PageFollowsHost |
| `ClientPlugins` | "entry" | the entry of a client that is not watched is saved, and the page asks for the client: it gets the saved one, the Host lists the old one | PageFollowsHost |
| `ClientPlugins` | "failed off" | a plugin whose client has failed is switched off or removed: its error stays | PageFollowsHost |
| `SideChat` | "away" | the panel goes, or the connection is lost, while its chat starts or stops: the fork stays | ForksAreHeld |
| `SideChat` | "attach fails" | the fork is made and the call that subscribes to it fails: the panel never learns of the runtime, and the fork stays | ForksAreHeld |
| `SideChat` | "typed" | the user types on while a message is sent that is then refused and put back | KeepsInput |
| `SideChat` | "attached" | a message with attachments is refused: they are gone | KeepsInput |
| `SideChat` | "late refusal" | a message queued is refused after the turn has ended, or a prompt after another run has begun | StreamingIsTrue |
| `SideChat` | "cut off" | the connection is lost when a call is served and not answered yet | KeepsInput, StreamingIsTrue, ShowsItsModes |
| `SideChat` | "two questions" | a second question replaces the first one, which nobody can answer any more | DialogIsAsked |
| `SideChat` | "withdrawn" | an abort, a crash or a lost connection takes a question back, or comes between; the page handles no ui/cancel and does not ask for what is open | DialogIsAsked |
| `SideChat` | "fast keys" | a suggestion is taken while those of the text before are still shown | InsertsWhatWasTyped |
| `SideChat` | "other mode" | the composer starts with the settings' modes, a fork with its parent's | ShowsItsModes |
| `SideChat` | "drawn again" | a batch of questions is drawn again by its parent, and its answers are reset | AnswersStand |
| `SideChat` | "tab" | the user moves between the questions with what is typed not taken over | OwnAnswersArePlaced |

Five properties are stated in the modules but hold in no run, with or without a race:
`SideForkIsSettled` (`SessionLog`: settledSeq counts a call as open from its tool-call event on, so a
side chat forked before that event starts with a reply whose calls have no result,
`session/src/derive.ts:174`), `SettledQueuesEmpty` (`AgentLoop`: while a finished run flushes its log it
is still registered, so a message sent then is queued on it and dropped with it,
`agent-loop/src/index.ts:163`), `RewoundStaysOut` (`AgentLoop`: a rewind made while session.compact
waits comes back as part of the summary, `:302`), `DueTasksStart` with fewer slots than tasks (`Schedule`:
one that is due again when its run ends keeps its slot, `schedule/src/index.ts:234`) and
`StoppedForGood` (`HarnessHost`: a minute after the last crash any request starts the Host again, not
only restart_harness_host, `harness_host.rs:304`).

Where the code leaves something behind for which a property makes an exception, the property names it:
`RuntimesAreListed` (`PageTasks`) excepts the runtime of a start whose subscription failed, which
`HarnessRuntimes.start` has registered by then and nothing takes out again (`harnessRuntime.ts:164`);
`ServedToolsWork` (`Mcp`) the tools of a server whose last list was refused, which stay as they were
(`mcp/src/index.ts:272`); `KeepsRunning` (`Plugins`) a plugin whose old version could not be applied
again either (`plugin-manager.ts:1043`), which its error then says; and `AbortStartsNothing`
(`AgentLoop`) the one model call of a run that was past its check of the signal, which is handed the
raised signal.

## Findings

Three runs expect a violation. Each checks what a document or a comment of the repository says, quoted
in `findings`:

- `torn_line`: ADR 0008 says that a crash of the Host cannot leave the page with an event that is
  not on disk. After a crash in the middle of a line the next append continues it; parseLog skips the
  line and every later event with it, because their numbers do not follow.
- `ignored_lost`: a comment in `checkpoints/src/git.ts` says that ignored files are deliberately
  untouched. A checkpoint restored after a run has changed `.gitignore` deletes a file that was ignored
  when the checkpoint was taken.
- `browser_gone`: a comment in `browser/src/driver.ts` says that a fresh browser is started when the
  previous one is gone. Before it starts one, the call that finds it gone closes what is left; closing
  asks the dead endpoint first and fails, the call fails with it, and the port stays set. So every later
  call of that session fails in the same place and starts the idle timer anew; only when nobody has
  called for the idle time is the entry forgotten (`browser/src/index.ts:68`), and the next call starts
  a browser.

Three more are visible in definitions only, or without a run of their own. A Host that dies or hangs before it reports its port is no
crash to `ensure_running` (`harness_host.rs:309`) and is launched again at once and without limit, so
`RestartsAreLimited` counts the processes that came up. And a commit that Git rejects leaves the branch
that was made for it (`commit.rs`). And a comment in `store/runtime.ts` (line 421) says that the last confirmed
value is kept when the runtime cannot be queried; what is on screen by then is the pick itself, shown at
once and never confirmed: the composer shows a model its runtime does not have ("unread" of `PageTasks`,
with which TLC finds `ModelIsTrue` violated).

## Proofs

Eight modules hold theorems, each for every value of the constants. What a theorem assumes of them is
in its statement, and for each such condition the table of races, or a flag in it, has the
violation that TLC finds without it.

`AgentLoop_proofs`, for any number of turns, calls, messages and restarts:

- `ResultsKeepCallOrder` (`ResultsInCallOrder`). The property only looks at results that are there, and
  an append keeps it only if what is appended next is the next call's. The invariant says what is owed:
  `Replies`, that every reply in the log is settled (answered in full, not at all, or up to a call when
  the Host died), but for the last one while its tools run, to which exactly the calls in `todo` are
  owed. `OneWritten`, `ReplyWritten` and `ResultWritten` say what each kind of append makes of it, and
  `StepKinds` that every step is one of those or leaves replies and results alone.
- `MessagesAreDeliveredOnce` (`DeliveredOnce`), by `Queues`: what is in the steer queue,
  in the follow-up queue and in the log are messages that were sent, and none is in two of these. What
  the property leaves out, and a delivery needs, is that each queue has a message once.
- `NothingStartsOnceAborted` (`AbortStartsNothing`, an action property): once the signal is up no
  tool, message or turn is started, and the model is asked nothing more. The loop checks the signal at
  the top of a turn and after a reply, so a compaction or a listener of `agent/turn-start` may leave it
  past its check: then one more call is made, with the raised signal (`LateIsLast`: such a
  call is the run's last), whose reply is empty. It needs that the signal of a run that is over is down.

`SessionStore_proofs`, for every bound, read size and number of events:

- `TypeCorrect`: `TypeOK`, with torn writes, slow summaries and racing deletes allowed.
- Under `Calm` (no torn line, no summary call longer than the idle time, no delete that races):
  `OnlyOneObject`, `FileFollowsMemory` (`FileIsLog`), `StoredBeforeTold` (`ToldIsStored`),
  `MemoryFileClient` (these two and `ClientInSync`), `HoldsAreCounted`, and
  `ImplementsHistory`, the refinement of `SessionHistory`.

  None of them is inductive. That the file is the log is kept by an append only if whoever appends
  does so through the open object; that needs `WritersAreOpen`, which a load keeps only because nothing
  can hold an object while none is open, which is `HoldsCount`; and a load gives the open object the
  file's events because nothing is appended meanwhile (`FileIsWhole`). Deletion keeps all of this
  because its request finds no other one behind it and no compaction (`DeletesAlone`). `IInv` is the
  conjunction. For the refinement, `FileSteps` and `SeenSteps` say what any step makes of the file and
  of what the client has, and each step then is one of Advance, Forget or a stutter.
- `NobodyGetsTheDeleted` (`DeletedIsLeft`), without `Calm`: however deletions race, none happens under a
  run, and while there is no file the only ones who can write it are those who could when it went. It
  needs that an object in the service's map has a file (`OpenIsOnDisk`).

`ClientRuntimes_proofs`, for any number of runtimes, sessions, events, crashes and messages under way:

- `TypeCorrect`: `TypeOK`, with all four exceptions of the module admitted.
- `LostConnectionIsNoticed` (`LostIsNoticed`), without `RetriesOnline` and `DiesInResume`. It rests on
  `Wired` (a wire carries messages only while there is a connection, and one backlog at a time while
  runtimes are resumed) and on `Banner`.
- `NothingIsSkippedOrRepeated` (`NoGap`), without `SharedSession` and `StartsOffline`. Its inductive
  invariant `Gapless` adds who waits for an attachment (`NoneWaits`, `Attaching`), that a session has one
  follower and a request asks from no later than its last event (`Followers`), and, at its heart,
  `Counted`: for each event under way, what comes before it on the wire brings its runtime to the event
  before it, and what is on the wire of a watched session ends with its log. A message that is taken
  keeps this because it moves `lastSeq`; one that is sent, because the Host subscribes and reads the log
  in one step. `Covered` and `OpenedPast` then say what was shown.
- `PageCatchesUp` (`CaughtUp`), under the same two conditions: with nothing under way on an open
  connection, a live runtime has shown its log to the end, knows whether its session runs, and only
  sessions somebody follows are watched. `Converging` is `Gapless` with six more conjuncts: nobody is
  ahead of a log (`Behind`), a runtime is in the map once (`Once`), who is live is subscribed, now or
  by a message on its way (`Subscribed`), behind an unsubscription nobody is attached but by a later request
  (`Departed`), who is asked for has a follower or is leaving (`Followed`), and the last thing a runtime will
  be told of its run is true (`Told`).

`HarnessHost_proofs`, for any number of writers, any delays and any window:

- `CopiesAgree` (`SettingsAgree`), without `WritersOverlap`. The invariant follows the one writer
  through validate, save, store and push; a Host that is starting reads what is in memory, and who stores
  meanwhile finds the mutex taken and pushes once it is free.
- `RestartsLimited` (`RestartsAreLimited`): at most as many processes come up within a window as there
  are delays, and the first one. The code counts crashes, the property launches, so the invariant
  compares them (`Followed`): from any instant of the window on, there are no more launches, but for the
  one that is up, than crashes. A launch keeps this since the one before it was counted when it
  crashed, later than it came up; and the code's own pruning never drops a crash of the window.

`ToolGate_proofs`, for any calls, rules, modes, reloads and orders of answers:

- `LooserModeNeverStricter` and `ConfinedWritesAreBlocked`, of the rules alone: with the modes ordered
  from read-only to full access a looser one never gives a stricter verdict, and where writes are
  confined to the workspace no rule lets one outside it through, but in full access.
- `TypeCorrect`, `QuestionsAndCallers` (`QuestionsHaveCallers`), and from it `AbortEndsQuestions`: the step
  that aborts a run ends every call that waits for an answer, which is the safe half of what the run
  checks as `AbortEndsCalls`, a part of `NothingHangs`.
- `ClientsFollow` (`ClientsCanFollow`): what a client will hold open once it has read all it was sent
  depends on the last message about each question only (`FollowsLast`, `FollowsWithdrawn`), so that
  reading changes nothing of it and settling a question sends exactly what it takes.
- `GroundOfRunning` (`RunsOnGround`), with `Consented`: an answer on its way that says yes has been said by
  the user about that question. Without it a late or repeated answer could be the ground of a call
  nobody allowed.

and for the children of a delegated call (`Subagents`), for any number of tasks, slots and tool calls:

- `KeptToTheirTools`, without "again" and whatever is aborted or stuck: no rule of a child's allows a write
  outside of the workspace without asking (`OutsideIsAsked`), and its toolbox stays the one of the call
  until its run is over. A second run of the child's goes on after that, with the shell too.
- `ExitsAsItEnded`, with every race of the module: a headless Host exits when its run is over, and that
  is not while a child is at work.
- `DelegatedIsTrue` (`DelegationIsTrue`, the two above and `ResultsAreTheirs`), without "again": what a result says is
  said once, when its child is over (`ChildKept`), and the next task is one whose child is still queued
  (all others that have left the queue are below `sub.next`), so that no slot takes a task twice and no result is overwritten.
- `AbortReachesAll` (`NoMoreStart`, whose step `NothingHangs` checks): an aborted parent's listening
  children are all aborted, and a task taken after that ends without a run.

`PageQueue_proofs`, for any number of messages, requests and runs, and for `PageTasks` any number of
connects, picks and messages:

- `TypeCorrect` and `MessagesStay` (`NothingLost`), with every race admitted: what was queued is queued,
  on its way, taken out by the user (to the composer or for good) or with the Host, and each step moves it to the next of these.
- `QueueServed` (`QueueIsServed`), without "lost answer". `AllApart` says that no message is in two places,
  `Served` why nothing waits for ever: while there is a queue and the user has not stopped it, a run, a
  turn's end or a request is under way. The end that is swallowed after an abort is where this is not
  obvious: it must be followed by another one if a run has started since, and `Served` counts them.
- `ShownTaskWorks` (`ScreenIsTask`, `RuntimesAreListed`), with every race admitted, and but for the
  runtimes that failed starts have left. `Latest` says what
  connectionVersion is for: no two connects have the same version, the one that has the current version is
  for the task on screen, and it is the pending one until it is over.
- `TaskShownIsTrue` (`TaskIsTrue`), without "switch", "early", "unread" and "slow stop"; a model picked
  after a message went off need not be the one that answers it. The model on screen is the runtime's, or
  something under way will make it so (`ModelShown`): the last pick for the runtime, a session that is being
  read, or a queued model that is about to be applied. `InOrder` is why the last pick is the one that
  counts: a pick reaches the Host only when those before it are over. While a prompt goes, what is queued
  can only be what the last pick makes the runtime's model (`QueuedIsPicked`); without this, a session read
  late would show a model the Host does not have.

`Memory_proofs`, for any number of callers and operations: `TypeCorrect` (with every race admitted) and
`NoEntryIsLost` (`EntriesAreKept`) under `Careful`, which excludes the five races that break it, each by
itself: "late confirm", "lost update", "blind save", "overlap" and "half written". The
invariant says what each writer is about to leave: the entries to keep are in the content or, while the
file is being written anew, in what its one writer is writing; and a writer that goes ahead does so
with a content that is still the one on disk.

`Schedule_proofs`, for any tasks, slots and crashes:

- `TypeCorrect` and `RunsAtMostOnce` (`FiresOnce`), wherever the Host dies, in the middle of a line too.
  That a prompt is sent only for an occurrence that is owed rests on the order of the writes: `Starting`
  says that a scheduled run either has its task still due, in memory, or has its prompt still owed and
  the task's next run already in the file, and `OwedWhenDue` that what is due anywhere is owed. A crash
  keeps both because it leaves the file, and `load` makes of it no task that was not due there.
- `CutOffRunsAreShown` (`OccurrencesRunOnce`, with `NothingRunsForever`), without `TearsLines`. Who shows as
  running runs, or the write that ends it is still in `pending` (`RunsAreShown`, `TasksAreShown`); the
  file is the list but for a handler that has still to save it (`FileIsList`).

Only model-checked:

- liveness (`RunSettles`, `AbortSettles`, `NothingHangs`, `DueTasksStart`): the prover
  does not do fairness;
- what the folds of `SessionDerive` compute for logs of any length, and with it all of `SessionLog`,
  `RequestIsValid`, `ContextKeepsUsers` and `LiveIsHistory`: these need induction over data;
- the parts of the sums that have no theorems: stream and tools; the Host's services
  but for the memory and the schedule; Git, workbench, terminals, browsers, screen and pet; the page but for its queue
  and the task on screen.

## Not modelled

- The content of messages, prompts, plans and tool calls; wording, layout, rendering and logging.
- File formats beyond "whole, torn or out of order"; SQL, ranking and snippets; unpacking and downloads.
- Characters of more than one byte and files with mixed line ends, in what the tools read, edit and
  print; the cap on bytes of a page is there only under "long line" of `WorkTools`.
- What is one call to the operating system, Git, GitHub, a browser or a provider: these are external and
  modelled by what the code does with their answers. A crash is the process's: writes that the operating
  system has accepted survive it.
- The RPC gateway's framing, the web server, diagnostics and log files, prices and the system prompt: no
  state, or I/O only. What matters of the gateway (requests of one read start together, the order of
  answers and notifications) is in `SessionStore` and `ClientRuntimes`.
- The bridge to other plugin formats, start-up of the desktop, tray, keychain.
- Rendering components of the page, and fields whose state is one component's own.

`components` in `PROJECT.json` says for each part what is left out of it.

## What could come next

1. `SettingsForm` as a client of `HarnessHost`: the calls of the one are the writers of the other.
2. The gateway's batching as an abstract channel that `SessionStore` and `ClientRuntimes` implement.
