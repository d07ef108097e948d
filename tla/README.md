# Verification of okf-knowledge-hub

TLA+ models of the desktop application in this repository (a Tauri program: a
Rust backend under `src-tauri/src`, a React window under `src`), the TLC
configurations that check them, and proofs that the TLA+ proof system checks.
Paths below are relative to the repository. `PROJECT.json` is the index: the
components, the runs, which definition models which lines, the hazards and the
theorems.

* [1. The system](#1-the-system)
* [2. The modules](#2-the-modules)
* [3. The runs](#3-the-runs)
* [4. Fairness](#4-fairness)
* [5. What is proved](#5-what-is-proved)
* [6. Disagreements found](#6-disagreements-found)
* [7. What is not modelled](#7-what-is-not-modelled)
* [8. Plan](#8-plan)

## 1. The system

A user signs in to GitHub, connects a local clone of a team's document
repository, and reads, searches and edits its Markdown documents. The window
talks to the backend by Tauri commands (a call, an answer, which may be dropped
with the window) and hears from it by events (one way, in order). Nothing is
shared between the two but these, and they are ordered only within a channel.

| part | state it keeps | operations | what is hard |
|---|---|---|---|
| **document runtime** `documents/runtime.rs`, `reconcile.rs`, `watcher.rs` | one generation slot (none, starting, active) with an owner (session id, nonce); per active session a snapshot (tree, open document, index status), a reconcile gate, the watcher and its degradation | reserve, prepare, activate, complete or abort a start; stop; refresh; set the open document; watcher callbacks; the reconcile worker | every task outlives the generation it was started for and works with the lock released: scans, body reads, the opening of the cache on a blocking thread |
| **document cache, indexer, discovery** `documents/cache.rs`, `indexer.rs`, `discovery.rs` | one sqlite file per repository: identity, one row per document, last opened path | open (with recovery), plan, apply in a transaction, open path | the plan is made under a lock the reads are not made under |
| **document event delivery** `commands/documents.rs`, `documents-reducer.ts` | a broadcast channel of 64 messages, a revision counter, envelopes, the reducer's latest revision | publish, flush at start, forward, recover from a lag behind a barrier, reduce | a slow receiver loses messages, also while it recovers; the result of the start and the events travel apart |
| **document command sessions** `state.rs`, `commands/documents.rs`, `commands/auth.rs` | a registry with a pending and an active session, its mutation lock, the authenticated-command gate, one listener task per session, cleanup guards | start (in eight phases), stop, logout, read | starts replace each other and are dropped at any wait; three locks and two kinds of task wait for each other |
| **documents window state** `documents-reducer.ts`, `DocumentsProvider.tsx` | tree, selection, home, the read in progress, the query cache, last opened path | events, start result, pick, home, read, answer | answers of reads the selection has moved away from; a shared request; a resync in place of an event |
| **authentication** `auth/service.rs`, `commands/auth.rs`, `state.rs` | the lifecycle (generation, active jobs, pending authorizations), begin reservations, the session in memory, the principal, login jobs | begin, run, cancel; token request with load, rotation, deletion; `get_auth_state`; logout | each of these spans several locks and network calls, and each may overtake another |
| **credential storage** `auth/keyring_store.rs` | the entry in the OS keychain | load, save, delete | the call goes on when its request is dropped |
| **job registry** `state.rs` | running, cancelling, completing, free per job id | register, cancel, claim completion, finish | cancellation against completion |
| **drafts** `documents/drafts.rs`, `authoring.rs` | a branch, a worktree, a record, a journal and files per change; the active change | create, add, save, switch, close, discard, recover | several files written one after the other; crashes; other writers of the same file |
| **authoring window state** `document-authoring-reducer.ts`, `DocumentsProvider.tsx` | the editor, its save states, the pending switch, the recovery | edit, autosave, conflict, switch, close | text typed while a save or a switch is under way |
| **clone and connection** `repository/service.rs`, `commands/workspace.rs` | clone jobs, staging directories | clone, cancel, publish, connect | cancellation and logout against finalization; others write into the same parent directory |
| **workspace initialization** `workspace/initialization.rs`, `repository/service.rs` | the previews, the pending context in memory and in the settings, the attempt file, branches here and on GitHub | preview, claim, commit, push, pull request, clean up, resume | a crash, a failure or a lost answer between two effects; a login or another preview meanwhile |
| **workspace contract** `workspace/inspection.rs`, `validation.rs`, `diagnostics.rs`, `references.rs`, `path_safety.rs` | `.okf/workspace.yml` and the folders it names | inspect, validate, preview of an initialization | two checks of one file that have to agree |
| **document reader, history, assets** `documents/reader.rs`, `history.rs`, `frontmatter.rs`, `search_text.rs` | per session: issued versions, the latest read, the open document | read, list a page of the history, read a version, read a picture | HEAD, catalog, session and file change between the sections of one call |
| **document tree and search** `documents/indexer.rs`, `discovery.rs`, `cache.rs` | rows and index rows of the cache | cold and warm tree, apply, search | two ways to build one tree; two tables matched by row number |
| **local settings** `settings/service.rs`, `store_adapter.rs` | the settings file and the store's memory of it | read and write each value, remember a folder | read, change and write back; a write that fails after memory was changed |
| **AI runner, terminals** `settings/ai_runner.rs`, `ai_terminal.rs` | one task, a table of terminals | run, cancel, time out; open, stop, exit | child processes that keep a pipe open; several threads for one program |
| **project board** `commands/project_board.rs`, `workspace/model.rs` | linked projects, the active one, cached boards | link, unlink, activate, get, sync | read, change and write back; sub-issues in any shape |
| **GitHub clients** `github/client.rs`, `auth/reqwest_api.rs` | none between two calls | items, repositories and Projects page by page; device code, polls, refresh | limits, items that lack something, installations that vanish; times |
| **workspace connection machine** `features/workspace-connection` | the wizard's state, the account's state | sign in and out, choose a repository, find or clone a checkout, initialize, connect, replace; every answer and event of these | answers and events that come late, or to a wizard that was thrown back meanwhile |

How they interact. The window's `start_document_session` enters the
authenticated-command gate, takes a place in the session registry, makes the
runtime reserve and prepare a generation, spawns the listener that forwards the
runtime's events and returns a snapshot. From then on the native watcher drives
the runtime, the runtime its reconcile worker and its event channel, the
listener the window, and the window the reads, which register in the active
session, read the file with no lock held and then write the runtime's memory of
the open document. A logout is the writer of the command gate: it waits for the
commands that hold it, cancels the login and clone jobs, deletes the
credentials, and ends the active session. The editor sends its saves as commands of
the session; a command that creates, opens or switches a draft makes the window
start its session again, on the worktree of the draft.

What makes each part correct:

* **runtime**: a task of a superseded generation changes nothing; one task at a
  time has the cache file; a session has one worker; no change of the files is
  missed; a failure of the watcher is shown until it has been recovered from;
  tree, index and open document agree.
* **event delivery**: the window ends up where the runtime is and never goes
  back to an earlier tree.
* **sessions**: nothing runs with nobody to stop it; registry and runtime agree
  at rest; a logout leaves no session; a command writes only into its own
  session; commands do not wait for each other in a circle.
* **window**: what is selected is listed; a loading document will be answered;
  the user is not moved; what is shown is what the file holds.
* **authentication**: what a logout or a newer login did to the credentials is
  not undone; an accepted cancellation leaves nothing behind; nobody is the
  principal during a login; every login is answered.
* **drafts and editor**: a text that was accepted is kept until it is replaced; what
  another program wrote is not replaced unseen; every request is answered once, to
  the editor that made it.
* **clone**: an accepted cancellation is final, a completed clone is there, whole,
  and replaced nothing.
* **initialization**: a result is true on GitHub; the attempt file never claims
  more than was done; one pull request however often it is repeated; no branch
  of others is moved; a claim ends.
* **AI task, terminal**: one task, and a cancellation reaches that one; the exit
  is told once, after the output; everything ends.
* **lists and boards**: what is left out is marked or counted; nothing is there
  twice; the budget holds.
* **contract, front matter, tree, search, settings, linked projects**: what is
  computed or kept twice agrees.
* **reading**: what is listed can be read; a picture is the file its reference
  means, and whole; a late answer opens nothing.
* **connection wizard**: what it or the account waits for is under way; it goes on
  with the directory picked last and shows the workspace that is remembered.
* **device login**: polls keep GitHub's distance, and codes and tokens are used
  while they live.

## 2. The modules

| module | models | used by |
|---|---|---|
| `ReconcileGate` | the gate of `reconcile.rs`, as pure operators | `DocumentRuntime` |
| `GenerationSlot` | abstract: a slot with one owner and nonces that are given out once | implemented by `DocumentRuntime`, used by `DocumentSessions` |
| `DocumentRuntime` | `runtime.rs`, `watcher.rs`, the parts of the cache and of discovery it drives | `MCDocumentRuntime`, `DocumentRuntimeProofs` |
| `EventFeed` | abstract: the trees on screen are trees the runtime had, in order, and the last one arrives | implemented by `DocumentEvents` |
| `DocumentEvents` | the event channel, the flush, the listener, lag recovery, the reducer's revisions | |
| `DocumentSelection` | the selection of the window with its reads, and the runtime's memory of the open document | `MCDocumentSelection`, `MCServices` |
| `DocumentSessions` | the registry, the gate and the session commands, over `GenerationSlot` | `MCCommands` |
| `JobRegistry` | the registry of cancellable jobs, as pure operators | `Authentication`, `RepositoryClone` |
| `Authentication` | logins, the token request, `get_auth_state`, logout, the keychain | `MCAuthentication`, `MCCommands` |
| `DeviceFlow` | the same login and token request in time | `MCServices` |
| `DocumentDrafts` | the files of the drafts, the draft commands, the editor of the window | `MCWindow`, `WindowProofs` |
| `ConnectionWizard` | the wizard and the account of the window, and the commands as it sees them | `MCWindow`, `ConnectionWizardProofs` |
| `WorkspaceInitialization` | previews, the pending context, the attempt | `MCOperations` |
| `RepositoryClone` | clone jobs, staging directories, targets | `MCOperations` |
| `AiSessions` | the AI task, the terminals | `MCOperations` |
| `WorkspaceInspection` | `workspace.yml`, its two checks, references, the preview | `MCServices` |
| `WorkspaceProjects` | the commands of linked projects over the workspace file and the cached boards | `MCServices` |
| `IssueTree` | from the list of items to the trees of the board, as recursive functions | `MCServices` |
| `GithubPages` | reading items, repositories and Projects page by page | `MCServices` |
| `LocalSettings` | the settings file, the store's memory, its transactions | `MCServices` |
| `DocumentReads` | reads, history pages and versions of a session | `MCServices` |
| `AssetReads` | the picture a document refers to | `MCServices` |
| `MarkdownReading` | the three readers of the front matter, the heading ids | `MCServices` |
| `DocumentTree` | the cold and the warm tree | `MCDocumentTree`, `MCServices` |
| `DocumentSearch` | the rows, the index rows and a search | `MCServices` |
| `MCDocumentRuntime`, `MCRuntimeProgress` | the safety and the fair instances of `DocumentRuntime` | |
| `MCCommands`, `MCOperations`, `MCServices`, `MCWindow` | instances of several components, see section 3 | |
| `DocumentRuntimeProofs` | theorems about `DocumentRuntime`: the types, the session slot, the refinement, the active session and its workers, freshness | |
| `DocumentEventsProofs` | theorems about `DocumentEvents`, and that it implements the safety of `EventFeed` | |
| `ConnectionWizardProofs` | theorems about `ConnectionWizard` | `WindowProofs` |
| `WindowProofs` | theorems about `DocumentDrafts` (the types, accepted and foreign texts, the records, the answers), and those of the wizard on the instance `MCWindow` | |
| `AuthenticationProofs` | theorems about `Authentication` | `CommandsProofs` |
| `CommandsProofs` | theorems about `DocumentSessions`, and those of the sign-in where it runs beside the sessions | |
| `OperationsProofs` | theorems about `WorkspaceInitialization`, `RepositoryClone` and `AiSessions`, on the instance `MCOperations` | |
| `ServicesProofs` | theorems about `DeviceFlow`, `LocalSettings`, `DocumentSelection`, `DocumentReads`, `GithubPages` and `AssetReads`, on the instance `MCServices` | |

Composition is by the abstract specification: `DocumentSessions` runs the
commands over the actions of `GenerationSlot`, and `DocumentRuntime` is shown to
implement `GenerationSlot`, so the sessions need not carry the runtime's
actions. `DocumentSelection` likewise takes from `DocumentEvents` that events
arrive in order and that a tail of them may be replaced by one resync.

A definition whose name ends in an underscore and a word (`HoldsSlot_SessionOnly`)
is a faulty variant of the definition after it, or of the one it names; no
specification uses it. Each is a fault that some checked property detects: at
least one per property is listed in `PROJECT.json` under "mutants", and each
part of a property that joins several components has one of its own.

### DocumentRuntime

One action is one critical section of the runtime's state lock, one file read,
or one message of the watcher. Every task is named by its owner's nonce:
`starter[n]` is `finish_reserved_session`, `listener[n]` the native watcher, its
channel and `watch_changes`, `worker[n]` is `run_reconcile_worker`.

| variable | code |
|---|---|
| `generation`, `nextNonce` | `RuntimeState` and its `Generation` |
| `mutation` | `startup_mutations`; only the cache opener keeps it across a wait, so every other holder is one action guarded by `StartupLockFree` |
| `gate`, `watch`, `snapshot`, `notice` | the `ActiveSession`: gate, watcher fields, `DocumentSessionSnapshot`, the last reconcile outcome told to subscribers |
| `cache` | the sqlite file, rows as summary and version of the indexed body |
| `batch` | `body_read_batches`, a fair mutex, as its queue of workers |
| `fs`, `writes`, `faults` | the files, and the bounds on what the environment does |
| `former` | history: the versions each path held before; only `Fresh` reads it |

A document is a version and a frontmatter id: exactly what the summary
comparison (`plan_reconcile`), the rename rule (`reconcile_open_document`) and
freshness tell apart. A scan reads one path at a time, so a scan during a rename
may find a document twice or not at all. The first state includes what an
earlier run may have left in the cache: rows that are missing, rows of files
that are gone, and an open path that no longer exists.

### DocumentEvents

The tree is a number the runtime counts up. The channel keeps `Capacity`
messages and overwrites the oldest; the receiver learns it at its next receive.
`reader` says who reads (the flush of the start command, then the listener) and
where in the recovery it is: drop what is retained, publish a barrier with the
snapshot, drop everything up to it. The envelopes (`wire`) and the answer of the
start (`result`) are two channels. Waiting for a barrier, the flush may end on an
empty channel and hand over to the listener, as the code does.

### DocumentSelection

A read is three steps (register, read the file, finish) with the file and the
runtime moving in between. `calls` are the requests on their way, one per path
because the query library shares them; `query` is its cache, which only a tree
event invalidates, and which grows stale by itself (`QueryGoesStale`, the 30
seconds of `staleTime`). The ids of the files are unique here; what happens when
two documents carry one id is checked in `DocumentRuntime`.

### DocumentSessions

A session is named by the start command that made it, as the code compares
contexts by pointer; several starts may use one session id. The cleanup guard is
the pair of fields `owns` and `prev`, and runs in two steps as its `Drop` does:
first the place in the registry, then what it still answers for. A start fails,
or its future is dropped, at every place where it waits (`AbortStart`). The
lease of the gate is held from `leased` to the end of the guard.

### Authentication

The lifecycle lock is held across a wait in one place, by a login between its
save and its second look at the cancellation; `LockFree` is every other section's
guard. Credentials are told apart by the login that obtained them, which also
names the account. A token pair is fresh, then stale (the access token expired),
then dead (the refresh token did).

Where the model differs from the code on purpose:

* the first generation is 1, so that 0 can say "no entry in this map";
* a login's request id is used once; the window makes a new one for each;
* the holder of the refresh lock is a request of `get_auth_state` or of a "task".
  A command that holds a lease behaves like a task that is never dropped and is
  not overtaken by a logout, so its behaviours are among those of the task;
* tokens grow old only while nothing but a login that waits for its user is under
  way: requests take seconds and tokens live for hours;
* one keychain call at a time outlives its request. Such a call may store
  credentials after a logout deleted them; `stray` remembers that it did, and the
  two properties it would break say "short of such a call". The code cannot
  prevent it, since a blocking thread cannot be cancelled;
* the entry a dropped request leaves among the active jobs is dropped with it:
  the next request overwrites it and nobody else reads it.

### DocumentDrafts

Three parties in one module, since every hazard is between two of them: the
commands that write the files, the editor that sends them and hears from them,
and other programs that write the same files. One write of a file, one removal,
one comparison is one action; a command holds the session lock (`job`) across
them, and the others wait in `queue`.

| variable | code |
|---|---|
| `active`, `records`, `trees`, `journals` | the files under the workspace's draft directory: `active.json`, `metadata/`, `worktrees/`, `journals/` |
| `queue`, `job`, `answers` | the commands that wait for `lock_mutation`, the one that has it, the promises that have settled but not been handled |
| `editor`, `requests` | `DocumentAuthoringState`: the editor, and the creation, edit, copy and switch |
| `intent` | a call of `flushCurrentEditor` |
| `load` | the session of the window and the effect that loads the recovery |
| `accepted`, `shown`, `late` | history: the last text a save went on with, the foreign texts the window has shown, that a failed write had taken effect |

* A text stands for its hash. `mine` on a command stands for the editor having
  its request id; `stale` for a session that has ended, in which a command may
  be refused, or be done and answered with an error.
* A failing write leaves what the code's way of writing can leave: a rename that
  is followed by a failing sync has taken effect although an error is reported;
  a file that is written in place may be torn. A crash falls between two writes
  or tears a first write.
* Other programs replace a document, they do not remove one. The start of a
  session always succeeds here; its failures are those of `DocumentSessions`.
* A second request of one kind is not made while the first is under way. The
  window disables the buttons meanwhile, except in the moment before a flush ends.

Two properties carry an exception because the code cannot do better:
`ForeignTextShown` lets a write between the comparison and the rename go, and
`NoDanglingRecord` speaks of a single failure, without an end of the
application, that had no effect.

### ConnectionWizard

`wizard` is `ConnectionState`, `account` the `AccountSessionState` beside it;
`at` is the step and the status of the reducer in one name. A call is asked by the
window, served by the backend and answered, in three steps, and answers and
events arrive in any order. An action of the user is offered when a page shows it
and the reducer takes it; one of the window's effects (load the list, inspect,
connect) may come late or never, as the user's next click may come before it.

* The backend is what `Authentication`, `RepositoryClone` and
  `WorkspaceInitialization` promise of it: a login has one outcome, a clone ends
  with one event, a connection is in the settings when it is answered. What a
  listing, an inspection or an initialization answers is chosen when it arrives.
* A command that finds no credentials it may use tells the window so under an id of
  its own, at any time (`SignInRefused`): the two reducers take that event in any
  state.
* `picked` and `dropped` are history: the directory the user gave last, and that the
  wizard was thrown back (by a refused sign-in or a logout) from a connection that
  was under way, which the settings may then remember although the window does not.
* Left out: which repository or account it is, the pages of the list, the choice of
  the directory itself, the preview of a clone's target, and
  `revalidateCurrentWorkspace`.

### WorkspaceInitialization

One working directory and one GitHub repository, which may be empty at first.
`cmd` is the window's command at work: a preview, or an initialization at one of
its steps. A step is one write of a file, one request, one change of the
repository here, or one section under a lock. Every write and request may fail;
a request may be done although its answer is lost; the application may end
between any two steps; other people commit, push, merge or close the pull
request; the account may change; time passes. A commit is named by the preview
it was made for. `disk` holds the attempt's files, of which `initializing`,
`committed` and `pushed` are the steps the retry goes on from.

### RepositoryClone and JobRegistry

`clone[r]` is the thread of a clone, `staging[r]` its directory. The parent
directory belongs to everybody: other programs make and remove the target, and
two clones may want the same one. The move to the target is a rename that fails
on anything but an empty directory. `appeared` is history: what was ever moved.
`logout` cancels all jobs and waits for none. The jobs are the operators of
`JobRegistry`, which `Authentication` uses too.

### AiSessions

A task is a thread that polls its process; a terminal is a reader, a writer and a
waiter around one process. `alive` is the process, `pipe` whether somebody holds
its output open - a child of it may, after it ended. Output comes as chunks and
the exit as an event; `asked` remembers whom a cancellation was for.

### The modules without an interaction

* `WorkspaceInspection` has the content of `workspace.yml` as a record of what
  the checks tell apart, and computes the diagnostics of both checks. A field holds
  a text, a plain scalar such as `42` or `true`, or what is no scalar: the
  configuration takes the second for its text, as the YAML library does for a String
  field, the raw checks call it a type error. Edits of the file, of the folders and of the documents come between the calls; a preview
  remembers which files it will make.
* `WorkspaceProjects`: a command is load, ask GitHub, persist, in steps; `older`
  are the cached boards under the key of an earlier version of the file.
* `IssueTree` builds the board of each way three items can name each other as
  sub-issues. `GithubPages` reads each way a short list can be cut into pages.
* `LocalSettings`: a thread's operation is a list of transactions; a transaction
  reads or changes memory, saves the file, and restores memory when that fails.
* `DocumentReads`: a call is registered, works with nothing held, and publishes.
  Commits have a tree and the renames that git's similarity finds; a page is
  computed from the trail of one document, and the cursor of an earlier page is
  looked for in the trail of the present HEAD.
* `AssetReads`: resolve, open, measure, read, check, publish, one step each.
* `MarkdownReading`: a file is a sequence of kinds of lines; each of the three
  loops that look for the front matter is an operator, as is the numbering of
  equal headings.
* `DocumentTree`: the two constructions of the tree, over sequences of names.
* `DocumentSearch`: the delta of a reconcile and the rebuild of the cache change
  both tables in one transaction; a search orders and cuts the rows and marks the
  words. A text is a sequence of characters.
* `DeviceFlow`: time as a number, with the clocks of GitHub and of the program in
  step. A second of the model is the unit of every limit of the code.

## 3. The runs

Model values stand for paths, ids, sessions and commands; the safety runs use
symmetry over those that are interchangeable, the runs with temporal properties
do not. Every counter of the environment has a bound that is a CONSTANT (its
name begins with `Max`; `Horizon`, `OfEmpty` and `Bounds` are bounds too) and a
guard. When the bounds are used up a system comes to rest, so the runs say
`CHECK_DEADLOCK FALSE`: a program with nothing to do does stop. That nobody waits
for each other is what `CommandsGoOn`, `GenerationsSettle` and `OperationsEnd` say.

Four instances hold several components that share no state: `MCCommands`,
`MCOperations`, `MCServices` and `MCWindow`. Their variable `part` says which component a
behaviour is about, and the others stand still, so the states are those of the
components added up, not multiplied, and a property states for all of them what
they promise alike. Each of its parts is a named property of the module it is
about and can be checked there alone.

| run | asks | bounds, and why they are enough |
|---|---|---|
| `runtime_generations` | Do superseded tasks leave everything alone, has the cache file one opener and a session one worker, does the runtime implement `GenerationSlot`? | Two session ids and two nonces: two generations with different ids, or with the same one used again, which is where comparing ids would go wrong. One document suffices for a worker to have something to read. The properties that only involve a generation and its predecessor hold for any number of them by the theorems. |
| `runtime_documents` | Are no changes missed, and do tree, index and open document agree? | One generation, two documents with an id or none, one change: a scan can be half way when a file is written, removed or renamed, and both documents can carry one id, which forbids to follow a rename. Every content of the old cache is an initial state. The watcher may fail once, at any time. |
| `runtime_progress` | Does a refresh clear only the failure it followed, is a change indexed or a failure told, do starts and workers of superseded generations end? | A behaviour keeps to one of two bounds: one generation with one change and two failures of the watcher, since the hazard is the second one during the refresh of the first; or two nonces of one session id without changes, with aborts and stops at every place. |
| `events_delivery` | Does the window agree with the runtime after any lag, and never go back? | A channel of two messages and three changes, each of up to two events: five or more messages against two places, so a lag can hit the flush, the listener and the barrier itself. |
| `commands` | Is anything abandoned, do registry and runtime agree at rest, does a logout leave no session, do writes stay in their session, is there a circle of waits? Are logouts and logins ever undone in the keychain, does a cancellation leave anything, is every login answered? | Three starts over two ids: one active, one that replaces it, and a third that comes while the second is dropped; a stop, a logout and a read at any time. Two logins, of which one overtakes the other; three generations, so two transitions in every order of login and logout; tokens that grow old once, from a stored pair that is fresh, stale, dead or absent, reach every state of the token request. |
| `window` | Is an accepted text ever lost, a foreign one overwritten unseen, an answer lost or credited to another editor, a record left listing a file that is not there? Does the wizard ever wait in vain, go on with another directory than the one picked last, or show a workspace that is not remembered? | Drafts: two changes, two documents, one of them in the commit; two texts typed, one further wish (close, create, edit, copy, switch, leave), and one foreign write, one failing write and one end of the application, each anywhere: every property needs at most one of each, and a save beside the other command. Two wishes, with one text and no end of the application, also pass; that graph (5.8 million states) takes too long to be kept as a run. Wizard: two checkouts, of which either may be the remembered one, two request ids alive at a time, so the answer to an earlier request meets a later one, and one refused sign-in that throws the wizard back at any time; everything else is unbounded. |
| `operations` | Is what an operation answers what happened, is it alone where it must be, does it spare what others made, does it end? | Initialization: two previews by two accounts, two commands, and one disturbance of any kind at any step, on a repository with content or empty; of the previews one may be of the empty repository (both, 682,000 states, pass too). Clones: two that want one target, one foreign change, one logout. AI: two tasks and a terminal with two chunks of output. A hazard needs the operation, one rival and one disturbance. |
| `services` | Does everything that works for itself keep its promises? | See below. |
| `selection_restored`, `selection_after_lag`, `authentication_logout`, `tree_at_root` | see section 6 | no pick and no resync; one change, one pick, one resync; as `commands`; two documents under the root `.` |

The instances of `services`:

* selection: two paths and ids, one change, two picks, one resync: a rename, a
  read that is overtaken by a pick and another that shares its call (two changes,
  3.1 million states, also pass);
* reads: two documents, pages of one item, and one of three bounds: three commits
  and three pages, two commits and a HEAD that goes back between two pages, or
  three reads and a new session;
* issue trees: every graph over three items with up to two sub-issues each, one of
  them possibly outside the project: shared children, cycles, and trees deeper than
  the limit of 1 and larger than the limit of three nodes, so that each is reached;
* inspection: two edits of the file or the folders, lists of two entries;
* linked projects: two projects, two commands at the same time; settings: the main
  thread and one other, each value twice;
* pages: up to three items, repositories or installations in pages of one or two,
  with limits of two pages, so every list may end before, at or after its limit;
* device login: two seconds between polls, codes and tokens that live for four to
  seven, requests of one second, up to second thirteen: slow_down twice, a code
  that runs out during a request, a token that does within the safety window;
* Markdown: all files of up to five lines of ten kinds and 14 bytes, so the limit
  of bytes falls on, inside and behind a closing line;
* tree: roots that overlap in both orders, one written with a dot, one outside the
  repository, one within `.git`; five changes;
* search: words of one and two characters over two documents, two transactions;
* assets: thirteen references from two places, through links that lead to another
  picture, to a file of git and out of the repository; two changes meanwhile.

What the properties say, beyond the comments beside them:

* `OnlyTheOwnerWrites` is an action property: it looks at which task moved and
  at whether the session or the cache file changed in that step. A check of the
  owner that is left out anywhere violates it, and so does one that compares
  session ids only (`HoldsSlot_SessionOnly`).
* `QuietMeansFresh` is the promise of the indexer. "Quiet" lists everything that
  may still be under way (a worker, a message, a native notification, a start
  that has not made its first request) and everything that has been told to the
  user (a degradation, a failed run). A session that is quiet shows and has
  indexed exactly what the files hold, with one exception that the code has as well:
  a document that was moved away from its path and back (`CameBack`) may be indexed
  with the text that stood there in between, see section 6. The gaps it covers are the one between the
  first scan and the watcher, the one during a run, and the coalescing window.
* `IndexAgreesWithTree` excuses a run that failed after it committed the rows;
  the code then tells the user that the run failed.
* `FeedSpec` is refinement, and carries the liveness of `EventFeed`: the last
  tree arrives as long as the session is open.
* `CommandsGoOn` says that some step of the commands under way can be taken
  whenever a command is. The steps it counts never repeat for one command (each
  moves a start, stop, logout or read to a later place), so it is also the
  argument that every command ends if it is scheduled. A plain deadlock check
  would not do: the environment can always call something else.
* `AccountsDoNotMix` relates what the window was told of a login to the owner of
  the credentials, whatever else was under way at the time, and a login that is
  under way to the principal.
* `AcceptedTextKept` relates the journal to the file. A text is accepted when its
  journal is written, and from then on one of the two has it, until a later text
  is accepted or another program replaces the file it was in.
* `ChangesAreIndexed` is its counterpart over time, where watchers fail and a
  refresh recovers from that.
* `AnswersOwed` (in `NothingIsAwaitedInVain`) counts: the editor is saving exactly when one save of its own is
  queued, running or answered, and likewise for the other requests. It fails when
  an answer is dropped, or when a later editor takes it for its own.
* `AwaitedIsUnderWay` (there too) says of each status of the wizard and of the
  account that only an answer or an event ends that this very answer or event is
  still to come. An event heard before the answer of its request, two logins that
  overtake each other, or a cancellation that loses its race would leave the wizard
  in it for good.
* `ShownIsSaved` (in `ConnectsThePicked`) relates the window to the settings file
  over replacements, completed or cancelled at any moment.
* `AttemptTellsTruth` (in `OutcomeIsTrue`) relates the attempt file to the
  repository here and on GitHub after any failures: `committed` and `pushed` are
  claimed only when it is so, and a result is given only when the pull request or
  the branch is there.
* `OnePullRequest` (in `OneAtATime`) counts pull requests over crashes and lost
  answers; only other people's closing one lets a retry open another.
* `CancelIsFinal` (in `OutcomeIsTrue`) relates the answer of a cancellation to
  everything the clone does later, and `PublishesWhole` (in `OthersAreSpared`) is an
  action property over the parent directory.
* `OperationsEnd` is liveness for each caller: what was begun is answered and its
  process is gone, under the fairness of section 4.
* `HistoryIsWhole` (in `WhatIsMissingIsSaid`) is about the list in the window, which
  is put together from pages that were computed at different HEADs: no version is
  missing between two of its items. Where the list ends is not promised (section 6).
* `ListIsHonest` (there too) holds the list of a Project's items against the Project:
  without the mark it has everything usable, and the number of the rest. It excepts
  what the code leaves out by design, the sub-issues of an issue deleted while they
  are followed (`github/client.rs:1145`), and null nodes (`client.rs:998`).
* `ValidatorsAgree`, `IndexMirrorsDocuments`, `ReadsAreSaved` (in `CopiesAgree`) and
  `CachedMatchesCold`, `ReadersAgree`, `VersionsAgree` (in `WhatIsShownIsThere`) compare
  two computations or two copies; none of them says how either is made.
  `ValidatorsAgree` compares the two checks on files that both can read. They differ
  only in plain scalars where a text belongs, which is section 6: on a file without
  them the two find the same, and on one with them all else that the raw checks find
  is found by the other, and what they miss is at the place of such a scalar. What a
  root `.` does to the trees is section 6 too.
  `VersionsAgree` is about one file at a time; that of two commands one may undo the
  other's change is section 6.
* `TypedTextIsFound` and `SpansAreReal` (in `WhatIsShownIsThere`) are about what a
  search returns for text that documents hold, and what it marks.
* `ReadsAreSaved` (above) and `LoadingHasCall` (in `ReadsAreTrue`) are about what is in
  memory only: a setting that a thread may read although another's save of it is
  about to fail, and a document that would stay "loading" when its call was shared.
* `EveryRepositoryOnce` (in `ReadsAreTrue`) is about a list that several answers
  make while an installation may vanish between two of them.
* `PollsKeepTheirDistance` (in `LimitsAreKept`) is GitHub's view: no poll comes
  earlier than the interval it asked for last, counted from its side.

Each property of each passing run has a mutant: a plausible fault in one mapped
definition under which TLC finds that property violated. The type invariants were
found to hold on the same instances; only that of `DocumentRuntime` is a property
of a run, and those of the modules with proofs are theorems.

## 4. Fairness

* `DocumentRuntime!Fairness` is weak fairness of the steps of each start, of each
  watcher with its listener, and of each worker. The tasks are spawned on the
  async runtime, which polls every task that is ready; the blocking thread of the
  cache opener runs to its end; the operating system reports a change some time
  after it. Nothing obliges the user to act, the files to change, a step to fail.
  Weak fairness is enough for the batch lock because the lock is a queue. It is
  taken once per task and not per action: a task does one thing at a time.
* `DocumentEvents!FairSpec` is weak fairness of the start, of the reader of the
  channel, and of the window's two receivers. The runtime's publications are not
  fair, and are bounded: a runtime that published for ever faster than the
  listener reads would never let a lag end, in the code as in the model.
* `WorkspaceInitialization!Fairness`, `RepositoryClone!Fairness` and
  `AiSessions!Fairness` are weak fairness of each command's, clone's or task's next
  step, of a task's timeout and of the grace time of a terminal's readers. Threads
  go on; requests have a timeout, and a transfer of libgit2 is assumed to end or
  fail (it has no timeout of its own, so a connection that neither delivers nor
  breaks would hold a clone for ever, in the code as well). A process is not
  assumed to end by itself: it is the timeout, the cancellation or the stop that
  ends it, and the property is only about terminals whose program ended or was
  stopped. Nobody is obliged to cancel, log in, or repeat.
* The other modules have safety properties only.

`NoReadingNext` of `MCRuntimeProgress` starts from the first use of a repository
and leaves out `SetOpenDocument` and `StopSession`, which take no part in whether
a start or a worker ends; that keeps the liveness graph small.

## 5. What is proved

The theorems are about `DocumentRuntime`, for every number of sessions, nonces,
documents, ids, changes and faults; about `DocumentEvents`, for every capacity of
the channel and every number of changes; about `DocumentDrafts`, for every number
of changes, documents, texts, foreign writes, failures and ends of the
application; about `DocumentSessions`, for every number of starts, session
ids, nonces and logouts; about `Authentication`, for every number of logins,
generations and ageing tokens; about `ConnectionWizard`, for every number of
checkouts, request ids and refused commands; about `WorkspaceInitialization`,
`RepositoryClone` and `AiSessions`, for every number of previews, accounts,
commands, clones, targets, tasks, terminals and disturbances; and about `DeviceFlow`,
`LocalSettings`, `DocumentSelection`, `DocumentReads`, `GithubPages`, `AssetReads`,
`DocumentSearch` and `WorkspaceInspection`, for every interval and lifetime, every number of
threads, settings, documents, requests, repositories and Projects, every page size and
limit, every number of changes to the cache and of edits, and lists of every length. The assumptions are those of the
modules:

* `SlotAssumption` (no session id is the one of an empty slot, there is a nonce)
  and `RuntimeAssumption` (no path is the one of no document, no id is the one of
  no id, the bounds are natural numbers), which TLC evaluates on every run of
  `DocumentRuntime`;
* `EventsAssumption` (the channel holds at least one event, the bound is a natural
  number), which it evaluates on `events_delivery`;
* `DraftsAssumption` (there is a change, the values for nothing are not changes or
  documents, the bounds are natural numbers) and `FilesAssumption` (a missing and a
  torn file differ from each other and from every file that can be read), which it
  evaluates on `window`;
* `SessionsAssumption` (no start is the value of no start or of the holder of a
  stop, the bound on logouts is a natural number), which it evaluates on `commands`;
* `AuthenticationAssumption` (the values for the refresh job, for the stored
  credentials and for nobody are not logins, the bounds are natural numbers). It is
  a hypothesis of the theorems of `AuthenticationProofs`. In `CommandsProofs` it is
  not: `CommandsAssumption` of `MCCommands` gives it, and is evaluated on `commands`;
* `WizardAssumption` (the value of no checkout is not a checkout, there is a request
  id, the bounds are natural numbers), a hypothesis of the theorems of
  `ConnectionWizardProofs`. In `WindowProofs` it is not: `WindowAssumption` of
  `MCWindow` gives it, and is evaluated on `window`;
* `OperationsAssumption` of `MCOperations` (the values for nothing, for other people's
  commits and files and for the base are told apart from previews, clones and tasks;
  there is a user; the bounds are natural numbers), which it evaluates on `operations`;
* `ServicesAssumption` of `MCServices`, the conjunction of those of its instances (the
  values for nothing are not threads, texts, paths or ids; a page, a limit and a
  budget is at least one; a request ends, and the safety window of a token covers two
  of them; the bounds are natural numbers), which it evaluates on `services`. What
  `MCServices` gives as a definition - the limits on what may be read in
  `DocumentReads`, the four files and the places that links lead to in `AssetReads`, the
  texts of `DocumentSearch` - is as small in the theorems as in the run.

| theorem | states |
|---|---|
| `TypeCorrect` | `Spec => []TypeOK` |
| `OwnershipHolds` | `Spec => []Ownership`, the inductive invariant |
| `CacheOpenIsExclusive` | `Spec => []CacheOpenExclusive` |
| `ImplementsSlot` | `Spec => SlotSpec`, the refinement |
| `SessionHolds`, `GateIsRight`, `DegradationIsShown`, `OpenIsListed` | `SessionOK` and its conjuncts `GateMatchesWorker`, `DegradedIsShown`, `OpenDocumentListed` |
| `OwnerWrites` | `Spec => OnlyTheOwnerWrites`, an action property |
| `BatchesMatch` | `Spec => []BatchMatchesPlan` |
| `QuietIsFresh` | `Spec => []QuietMeansFresh` |
| `IndexAgrees` | `Spec => []IndexAgreesWithTree` |
| `EventsTyped`, `StreamHolds` | `DocumentEvents`: `Spec => []TypeOK`, `Spec => []EventsInv`, the inductive invariant |
| `WindowAgrees` | `DocumentEvents`: `Spec => []WindowAgreesWithRuntime` |
| `FeedInOrder` | `DocumentEvents`: it implements `EventFeed` without its fairness |
| `DraftsTyped` | `DocumentDrafts`: `Spec => []TypeOK` |
| `AcceptedTextIsKept` | `DocumentDrafts`: `Spec => []AcceptedTextKept` |
| `ForeignTextIsShown` | `DocumentDrafts`: `Spec => ForeignTextShown`, an action property |
| `RecordsHaveFiles` | `DocumentDrafts`: `Spec => []NoDanglingRecord` |
| `AnswersAreOwed` | `DocumentDrafts`: `Spec => []AnswersOwed`, the drafts' half of `NothingIsAwaitedInVain` |
| `SaveAnswersAreTrue` | `DocumentDrafts`: `Spec => SaveAnswerIsTrue`, an action property |
| `SignInTyped`, `SignInHolds` | `Authentication`: `[]TypeOK`, `[]AuthInv`, the inductive invariant |
| `LogoutDeletes`, `AccountsApart`, `CancelKeeps`, `LoginsAnswered` | `Authentication`, and again of `CommandsSpec`: `LogoutDeletesCredentials`, `AccountsDoNotMix`, `CancelLeavesNothing`, `EveryLoginIsAnswered` |
| `WaitsHold`, `NothingAwaitedInVain` | `ConnectionWizard`: `[]WaitsInv`, the inductive invariant, and `[]AwaitedIsUnderWay` |
| `ConnectsHold`, `GoesOnAsPicked`, `ConnectedIsSaved` | `ConnectionWizard`: `[]ConnectsInv`, and the conjuncts `GoesOnWithThePicked`, `ShownIsSaved` of `ConnectsThePicked` |
| `WindowConnectsThePicked`, `WindowWaitsForSomething` | `MCWindow`: `WindowSpec => []ConnectsThePicked`, `WindowSpec => []NothingIsAwaitedInVain` |
| `OutcomesAreTrue`, `OneWorksAtATime` | `MCOperations`: `OperationsSpec => []OutcomeIsTrue`, `OperationsSpec => []OneAtATime` |
| `OthersStaySpared` | `MCOperations`: `OperationsSpec => OthersAreSpared`, an action property |
| `TheLimitsAreKept`, `TheReadsAreTrue`, `TheCopiesAgree` | `MCServices`: `Spec => []LimitsAreKept`, `[]ReadsAreTrue`, `[]CopiesAgree` |
| `TheChoicesStay` | `MCServices`: `Spec => ChoicesStay`, an action property |
| `Invariance` | `DocumentSessions`: `Spec => []SessionsInv`, the inductive invariant |
| `NothingAbandoned`, `WritesStay`, `RegistryMatches`, `LogoutEndsThem` | `DocumentSessions`: `NothingIsAbandoned`, `WritesStayInSession`, `RegistryMatchesRuntime`, `LogoutEndsSessions` |
| `SessionsUseTheSlot` | `DocumentSessions`: `Spec => SlotSpec`, the commands use the slot as `GenerationSlot` allows |

The argument, module by module:

1. `DocumentRuntimeProofs`. The types alone are not inductive: a worker leaves
   the batch lock by `Tail(batch)`, a sequence only if the queue is not empty.
   `BatchLine` says that a worker that waits or reads is in the queue and the one
   that reads is at its head. `TypeOK /\ BatchLine` is inductive.
2. `DocumentRuntimeProofs`, second part. Tasks compare owners, which are pairs of a session
   id and a nonce. `HolderKnown` (the slot carries the session id its start was
   given, and its kind agrees with the place of that start) reduces the
   comparison to the nonce: lemma `HolderIsNonce`. `NothingEarly` says nonces are
   given out in order and that neither worker nor listener exists before its
   session is active, so that a newly reserved generation meets no old task under
   its nonce. With `CacheOpenExclusive` these make `Ownership`. Without
   `HolderKnown` a step of a task could release the slot in a state no run
   reaches, and `CacheOpenExclusive` is not preserved.
3. `ImplementsSlot` follows from `Ownership`: every step reserves, activates or
   releases the slot as `GenerationSlot` allows, or leaves it alone.
4. `DocumentRuntimeProofs`, third part. `SessionOK` is inductive relative to `Ownership`: a
   request changes gate and worker together, a mark changes degradation and status
   together, and a run that is applied moves the open document to a listed path
   (lemma `RenamedIsListed`).
5. `DocumentRuntimeProofs`, fourth part. `OwnerWrites` needs no further invariant. `BatchesMatch`
   needs `PlanStands`, which says of every worker from its plan on what
   `BatchMatchesPlan` says of the last place only. It is inductive relative to
   `Ownership`: only a run of the owner changes the rows, and a cache is opened in
   the absence of a session (`CacheOpenExclusive`). The model keeps one worker per
   nonce; `GateIsRight` is what justifies that, as it says that a request never
   spawns a worker over one that runs.
   *Freshness.* `QuietIsFresh` asks where a change is at every moment, and three
   invariants answer. `BodiesInv`: a body is read after the scan that asked for it, so
   a row may hold a newer text than its summary; but then the document has left that
   path since, which `former` remembers. `WatchInv`: from the first request on, a
   session has an installed watcher or a degradation, and a run claims a degradation
   only if the watcher was installed when the refresh was asked for; marks only grow,
   so no run under way can clear the mark of a watcher that failed during it.
   `SightInv` puts the two together for the holder of the slot: a run that would
   leave the session without a degradation has scanned what the files hold
   (`RunSees`), and a session that rests shows it (`RestSees`), unless a change was
   `Heard` since: it is in the native watcher, in the channel, in the coalescing window,
   pending in the gate, or a worker is spawned that has not begun to scan. Without
   `Clears` in `RunSees` a run that began while the watcher was down would have to have
   seen everything. The last conjunct, `Agrees`, is `IndexAgreesWithTree`. `BodiesInv`
   is inductive with `Ownership` and `PlanStands`, `WatchInv` with `Ownership`, and
   `SightInv` with all of them and `SessionOK`.
6. `WindowProofs`, the drafts. `DraftsInv` adds two things to the types and
   `AcceptedTextKept`. `AcceptedListed`: a text is accepted only for a document
   that its record lists and that has a file. With it a rollback or a discard of
   a change without documents takes no accepted text along, and a document that
   is being added has none. `JobOK`: what a command may rely on at each place; an
   addition has the document in the record and nobody has saved it (`PlacingOK`),
   a save past its journal has the text there and, past the rename, in the file
   (`SavingOK`), and a change that is being made has no documents (`MadeOK`).
   The other program's writes are the reason `accepted` is part of the argument:
   they may fall between any two steps of a save, and then the text is in the
   journal or no longer the program's to keep. The window's steps leave the files
   and the command alone (`FilesSame`), up to the marks of a restarted session.
7. `WindowProofs`, the drafts' other promises. Each one has its own invariant, beside `DraftsInv`.
   *Foreign texts.* `ShownOK`: a text that the window would send as the one it knows
   (in the editor, in the queue, in the command at work, in a journal that a recovery
   would read, in a load on its way) was on the screen, if another program wrote it.
   `SeenOK`: what the command looked at before its rename is that text. A rename over a foreign
   text it did not look at can then only be the one for which the text came between
   the comparison and the rename, and the property names that case.
   *Records.* `DanglingOK`: unless something else is to blame (an end of the
   application, a second fault, a write that was reported failed and happened), a
   record lists a document without a file only while the one command that adds it has
   the file still to write, or its one failed write still to clean up. The count of
   faults is what bounds the failing steps to one, so that the cleanup succeeds.
   *Answers.* Instead of counting over the queue `OwedOK` says that a command the
   window waits for is in exactly one place, the queue, the lock or the answers
   (`Once`), and is in one of them exactly while the window awaits it (`Pending`,
   `Awaited`). `ConflictOK` is needed since a recovered editor may come up with a conflict.
   *Save answers.* `SavesOK` follows the text of a save from the editor through the
   queue and the command to its answer: while it is under way the editor is the
   one it was sent from, and no other save of the window follows it (`AsSent`), so that
   only another program can replace it in the file between the rename and the answer
   (lemma `FileStands`).
8. `DocumentEventsProofs`. The channel may lose any number of events, and revisions are given
   when events are sent on, so neither the channel nor the window alone says how far
   the window is behind. `EventsTell` says of each of the two things a snapshot holds, the
   tree and the index status, that the last event on the wire and in the channel that bears on
   it says what the runtime has, or, if there is none, that the window shows it; while a barrier is awaited the same holds of the part of the channel from
   the barrier on, which is in the channel (a receiver that lags loses the
   oldest, and then begins again). `PhaseOK` says who reads in which phase and
   `RevisionsOK` that the wire is numbered in the order of emission, above what the
   window heard, so that the reducer ignores none of it and ignores a late result.
   `TreesInOrder` adds that the trees come in the order the runtime had them, which is
   `EventFeed` without its fairness; that the last one arrives stays with TLC.
9. `AuthenticationProofs`. A login, a token request and a logout each act on a
   generation they were given earlier, and a call to the keychain outlives a request
   that was dropped. `GenerationsOK`: a generation belongs to the one login or logout
   that began it. `JobOK`, `ActivityOK`: a job runs until its window was told, and is
   active in the lifecycle only under the present generation, which no token
   request entered then. `LoggedOutOK`, `LoggedInOK`: after a logout nothing that can
   come back is in the keychain or on its way there, after a login nothing else is.
   `RotationOK`, `TokensOK`: why a rotation cannot undo that. Only tokens that
   are old are rotated, and those of a login are fresh until its window was told; a
   login that was cancelled has deleted its own. The exception in each is `stray`, a
   call on a blocking thread that finishes in a later generation, which the code cannot
   recall and the properties exempt by name.
10. `CommandsProofs`, the sign-in. A behaviour of the composition is one of `Authentication`: the
   steps of the sessions leave its variables alone. The lemmas `SameInit` and `SameNext`
   identify the instance that TLC runs with the one that is proved about.
11. `CommandsProofs`, the sessions. The hazard is that a start, a stop, a logout and a
   read each remember a session over steps in which the others change the registry
   and the slot. `SessionsInv` says who may still do what. `PlacesOK`: from the
   moment a start has taken the previous session out until it is active itself, it
   holds the pending place and no session is active, so no two starts are at these
   steps. `NoncesOK`: a nonce belongs to one start. `PastOK`: a session that was
   active, and that somebody still remembers, never comes up again; without it the
   second generation under an id could be stopped, or written to, in the name of
   the first. `ComingOK` and `ActiveOK`: the slot and the listener are those of the
   start that comes up or of the active session, for which nobody else answers.
   `LocksOK`: what a stop and a logout have done at each place. `NothingIsAbandoned`
   and `WritesStayInSession` are conjuncts of it, as each needs the other parts to be
   inductive; `RegistryMatchesRuntime` and `LogoutEndsSessions` follow from it. The
   proof has a lemma per action.
12. `SessionsUseTheSlot` closes the composition: the commands start and end
   generations only as `GenerationSlot` allows, and `ImplementsSlot` shows that the
   runtime does what `GenerationSlot` says.
13. `ConnectionWizardProofs`. Answers and events come in any order, under request ids
   that are used again once nothing under way bears them. `WaitsInv` is
   `AwaitedIsUnderWay` with the types of what is on its way (`TrafficOK`) and
   `AcceptedOK`: what the backend accepted, a login or a clone, is under way or its
   outcome is on its way as long as the window that has not heard the answer would
   still wait for it. A request is sent under an id that nothing in flight bears, so
   it is never answered by the answer of another. `ConnectsInv` adds, for every
   inspection that is awaited, that it is of the directory picked last (`PickedOK`),
   and, while the wizard was not thrown back from a connection, that the one
   connection under way is the one the wizard waits for (`ConnectionOK`) and that what
   it has of the saved workspace is what was saved last (`RemembersOK`). Being thrown
   back is exempt by name, since a connection that goes on without the window is
   remembered by the settings only.
14. `WindowProofs`, the composition. A behaviour of `MCWindow` is about the drafts or about the wizard,
   and the other component rests in its first state, so that it is a behaviour of
   each component's specification (`DraftsRun`, `WizardRuns`). `SameInit` and `SameNext`
   identify the instance of the wizard that TLC runs with the one proved about. The
   theorems about each component then give both conjuncts of the two properties.

15. `OperationsProofs`, the initialization. The retry trusts what an attempt wrote down, and
   the command at work trusts what it looked at some steps ago, while crashes, lost
   answers and other people come in between. `ClaimInv`: one command holds the claim,
   and works for the claimed preview. `LoginInv`, `AccountInv`: a login empties what can
   be claimed and is refused while a claim is at work, so a command that is past its
   check of the account still has the account that previewed. `PlaceInv` says of each
   place of the command what has happened by then (the commit, the push, the
   publication), `FilesInv` and `AttemptTellsTruth` the same of the files of an attempt,
   which a later command takes up. `PrInv` counts: a pull request is opened where none is
   open, so there are no more of them than other people closed, and one. `DoneInv`:
   what was answered or is recorded as completed has happened. That no branch is moved
   follows from the steps that create one looking at what is there in the same step.
16. `OperationsProofs`, the clones and the AI sessions. `JobInv` ties the thread of a clone to
   its job, `PromiseInv` what it was told or promised to its place, `AppearInv` its
   appearance to both, and `TargetInv` says that what bears a clone's mark at a target was
   published by it. `TaskInv`: the slot of the task names the one thread that polls, and
   a flag is raised only by the user who asked. `ToldInv` and `ProgramInv`: an exit event is the
   last of its terminal and comes after the program is gone.
17. `ServicesProofs`. Each component has an invariant of its own; `ServicesInv` joins them.
   *DeviceFlow* (`DeviceInv`): time is a number that waits for what is due. `DistanceOK`: the
   loop sleeps until the distance is over or the code is dead; `IntervalOK`: its interval is
   the one GitHub asks for, but for a `slow_down` just received; `TokensOK`: how much later
   than GitHub the program counts the life of a token, which is at most two requests and
   therefore within the safety window.
   *LocalSettings* (`SettingsInv`): `LockOK`, who holds the lock; `SavingOK`, memory differs
   from the file only in the value a thread is about to save, and that thread knows the
   value of the file. The map of folders is read and written in two transactions; that
   nothing comes in between holds because only the main thread runs them, which the
   types of what a thread may have left to do (`Rests`) say.
   *DocumentSelection* (`SelectionInv`): the shape of the window's state (`UiOK`) and
   `LoadingHasCall`, over every event, answer and pick.
   *DocumentReads* (`ReadsInv`): the reads of the active session bear different numbers, none
   above the last one given out, so the one that may open a document is the latest.
   *GithubPages* (`PagesInv`): `RequestsInv`, every request is a page or was taken from the
   budget; `RepositoriesInv`, what is listed is exactly what is before the cursor
   (`ListedTo`), also when an installation before or after it vanishes; `ProjectsInv`, for
   the one answer that lists the Projects.
   *AssetReads* (`AssetInv`): among the sizes a file had since it was opened is the present
   one, and no more was read than the file holds.
   *DocumentSearch* (`SearchInv`): ids and paths of rows are unique and no id is greater
   than the number of changes, so the next id, one above the greatest, is new. That a
   greatest id exists is `BoundedHasGreatest`, from the least upper bound.
   *WorkspaceInspection* (`InspectionInv`): the shapes the parts of the file have. The two
   checks are compared part by part (`WorkspacesAgree`, `RootsAgree`, `RepositoriesAgree`,
   `ProjectsAgree`): to agree, but for scalars that are no strings, carries over from
   the parts to the whole (`PartsAgree`, `MembersAgree`). A part of which the raw
   checks say nothing deserializes (`WorkspaceIsNamed` to `GithubIsNamed`).

Only model-checked:

* `WhatIsMissingIsSaid` and `WhatIsShownIsThere` on `services`.
  They compare what two folds or recursive functions compute over sequences and
  trees (boards, folders, rows, pages of a history, lines of a file), for which one
  needs induction over the data;
* `CommandsGoOn`, which is about `ENABLED`;
* all liveness: `LagsEnd`, `OperationsEnd`, the fairness of `EventFeed`, and
  `ChangesAreIndexed` and `GenerationsSettle` on `runtime_progress`.

Liveness under fairness, `ENABLED` and induction over data are
outside what the proof system handles here.

## 6. Disagreements found

Four runs end in a counterexample. Each shows something the documentation or a
test says of the program and the program does not do.

* `selection_restored` / `RestoredDocumentShown`. A start publishes its tree
  before it returns, so the first event usually reaches the window before the
  result. The reducer then ignores the result, whose revision is 0, and with it
  the remembered document, which no event carries. The document is not restored.
* `selection_after_lag` / `ShownIsCurrent`. When the tree event of a change to
  the open document is lost to a lag, the resync that stands in for it neither
  invalidates the read nor reopens the document: the window keeps the old text.
* `authentication_logout` / `LogoutSignsOut`. A token request that has loaded the
  stored credentials publishes them as the session in memory after it has let go
  of the lifecycle lock. A logout fits in between, and the session in memory
  outlives it.
* `tree_at_root` / `CachedMatchesCold`. When the repository itself is the root of
  its documents, the tree that the cache gives a warm start names its folders
  `/docs`, the scan that replaces it `docs`. `DocumentTree.tsx` opens the folders
  above the selected document by comparing paths, which fails for the former.

Observations that are not runs, since nothing in the repository says otherwise:

* A document's text is read for the index some time after its summary was scanned.
  When the document is moved away in between, another one stands at its path while
  the text is read, and the document is moved back before the next scan, its
  summary is the one that was indexed, so `plan_reconcile`
  (documents/cache.rs:252-311), which compares summaries, does not read it again:
  the search keeps the other document's text until the file changes. A write in
  place does not do this, as it changes the time in the summary. `QuietMeansFresh`
  exempts exactly these documents (`CameBack`).
* After a failed initialization `handle_initialization_failure` gives up the claim
  before it takes the lock under which it clears the pending context, and may
  clear the one of a newer preview. When the context expired and the settings
  cannot be written after the commit, the context is gone although the attempt
  could be resumed.
* A file `.tmp-...` that a crash left in the attempt's directory makes
  `remove_attempt` fail. On an empty repository a crash or a failing write
  between the creation of the branch and the attempt file that records it leaves
  a working directory that looks dirty, and every retry is refused
  (repository/service.rs:385).
* Two commands on linked projects that run at the same time may lose the change
  of one; a late sync replaces a newer board.
* `set_ai_config` writes two values and may be applied by half; AGENTS.md is
  created after a check, not with it.
* An item that GitHub does not show at all is passed over and not counted; an
  item that lacks what the board needs is.
* The two checks of `workspace.yml` disagree about plain scalars. A file with
  `name: 42` or `key: true` parses, is valid, and opens, as the YAML library takes any
  scalar for a String field; when an unrelated field keeps the same file from parsing,
  the raw checks call them type errors (`diagnostics.rs:154`, and the tests at
  `service_tests.rs:192` and `:266`, whose files do not parse for other reasons).
  `ValidatorsAgree` says that this is all they disagree about.
* `projects: null`, and `null` in the list of projects, are refused without naming a
  diagnostic, although the raw checks say that an explicit null is as good as nothing
  (`diagnostics.rs:406`); a
  document that names a repository key makes a fresh workspace invalid, and
  `create_initialization_preview` does not inspect first.
* A version listed under a path that is no Markdown file cannot be read. When the
  document is gone from HEAD between two pages, the list ends with an empty page
  as if it were complete. Reading a version makes an outstanding read of the
  document not the latest one.
* A line of dashes that is cut off by the limit of 256 KiB closes the front matter
  for the catalog only. The line of a YAML error counts inside the block.
* The cold tree has empty folders, the warm one has none; `.GIT` is left out by
  the warm one only; a root that is not valid fails the cold start and is passed
  over by the warm one.
* The wizard. When the saved workspace cannot be read after a sign-in, the wizard
  shows an error whose retry is `startLogin`, which the account refuses as it is
  signed in; the page then stays until the application is started again
  (docs/product/screens.md:26 speaks of a recovery page). After a failed
  clone the reducer refuses an existing directory, and after a failed inspection a
  clone, though the form offers both (screens.md:24).
* The account. The answer of `getAuthState` has no request id there: one that comes
  late overwrites a login or a logout under way. `cancelLogin` tells both reducers
  "cancelled" whatever the backend answered, so a sign-in that was complete leaves
  the window signed out while the credentials are stored. A command that is
  refused while a login runs takes the wizard out of that login.
* When one of the two subscriptions of the connection provider is rejected, the
  window shows its loading page for ever. `cancel_repository_clone` is never called.

## 7. What is not modelled

* The two small providers, pages and components (see `PROJECT.json`); of the documents window, the search box and the
  state of the panels.
* I/O under the models: SQL and the recovery of its schema (a damaged cache is an
  empty one), the notify backend and its path filters (a watcher reports, or fails
  and loses what it had), the keychain protocol, HTTP and the decoding of answers,
  pseudo terminals. What matters to the models is that each may succeed, fail, or
  be late.
* Inspection: the `scope` of a project, and a value left empty (`name:`).
  YAML itself is decided by the library.
* Reads: commits with several parents (the code follows the first), versions whose
  type is a link or a submodule. Assets: a file that shrinks while it is open.
* Markdown: duplicate keys, blank lines, CRLF and a missing final newline.
* Tree: symbolic links and the order of the entries (the two trees sort names
  that differ in case differently).
* Search: the ranking within one kind of match, case folding. `upsert_content` is
  used by tests only.
* Settings: the write of the file is one step; the plugin also saves when the
  application ends.
* Device login: a clock that is set back, or a machine that sleeps.
* Text typed while a switch of drafts is in flight is dropped with the editor, and
  `discard_empty_change` removes `active.json` whichever change it names: the
  drafts have both as steps, and no property, since the code promises nothing
  about either.
* A logout whose credentials cannot be deleted leaves the document sessions as
  they are; `DocumentSessions` has it as a step.

## 8. Plan

1. The wizard, further: the check of a connected workspace, the accounts' identity,
   and a backend that is the operators of `Authentication` itself.
2. The drafts, further. What reading the code suggests and no run shows yet: a
   recovery with a conflict carries the hash of the file, so that typing saves over
   the other program's text without the choice that
   `docs/product/use-cases.md:142` promises; "saved" is shown for a text that
   equals `savedMarkdown` while the file holds another one (after "use mine" of a
   conflict, or after a recovery, whose `savedMarkdown` is empty); a recovery that
   arrives late reopens a document that was closed meanwhile; a file that cannot
   be read leaves the templates loading. Abstract specification: a change as a map
   from document to text in which saves are atomic.
3. Proofs: the instances of `DocumentReads` and `AssetReads` with their bounds and files as
   parameters; the parts of `WhatIsShownIsThere` that are about one step of a search
   or of a picture; a step count for `CommandsGoOn` in place of `ENABLED`.
