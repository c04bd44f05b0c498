# Desktop Smart File Butler: a specification

TLA+ modules, TLC configurations and TLAPS proofs for the back end under
`src/backend/app` (a FastAPI process around a LangGraph agent that moves,
renames and deletes the user's files) and for what the desktop client under
`src/frontend/src` shows of it. Paths below are relative to the former
directory, those of `.ts` and `.tsx` files to the latter, unless they start with
`src/`.

To check: `tlc -workers 2 -config AgentBulk.cfg MCAgentGraph` (likewise for the
other runs), `tlapm AgentGraphProofs.tla`.

## 1. The system

| Component | State it keeps | Operations | Talks to |
|---|---|---|---|
| Agent graph (`agent/graph.py`) | a checkpoint per thread: plan, step index, pending approval, approved batch, counts, outcome | start, resume, cancel; nodes perceive, planning, act, approval, reflecting | policy, tools, model, checkpoints |
| Policy (`policy/engine.py`, `approval.py`, `authorization.py`) | none of its own: reads the checkpoint and the disk | evaluate a step, build and verify an approval, resolve a scope | agent graph, conversation handlers |
| Tools of the agent (`agent/tool_executor.py`) | model calls used | execute one step, file by file | file operations |
| Runtime lifecycle (`main.py`, `agent/graph.py`) | the serving runtime; per runtime: retired, closed, streams | get, reset, retain, release, retire, close | every request, the settings pages |
| Conversation threads (`main.py`, `runtime/threads.py`, `api/events.py`) | per thread: lock, registrations, cancel mark; the stream | message, answer, cancel, scheduled stream | event loop, agent graph, clients |
| Path locks (`tools/path_locks.py`) | a re-entrant lock per directory | acquire a set of directories | all file operations |
| File operations, trash, operation log (`tools/filesystem.py`, `tools/trash.py`, `db.py`) | the disk; the log | move, rename, delete, restore, roll back | path locks, index |
| Previews (`tools/preview.py`) | a row per preview: items, last confirmation, status | create, confirm, claim, verify, execute item by item | file operations, the rows in `db.py` |
| Watcher (`tools/watcher.py`) | rules, observations, events | polling loop, run once, switch, delete | file operations |
| Scheduler (`tools/scheduler.py`) | job records, the clock's timetable, busy folders, a pool | start, stop, fire, run, add, remove | conversation threads |
| Index (`tools/indexer.py`) | rows of the content index, one job per folder | build, cancel, prune, note a move | disk, file operations |
| Duplicates (`tools/duplicates.py`) | scans with their groups | scan, cancel, clean up | disk, file operations |
| Authorization (`policy/authorization.py`) | the scope, in the thread's checkpoint | make, narrow, check a call | agent graph, tools, previews |
| Outcome (`agent/outcome.py`), manifests (`tools/manifests.py`) | observations of a run; lists of scanned files | record, check again, give a verdict; store, match | agent graph, tools |
| Secrets and model settings (`security/`, `llm_config.py`) | the key in the secret store, an older one in the database, the state of its migration | save, clear, migrate, resolve | settings pages, runtimes |
| Checkpoint clean-up (`agent/checkpoints.py`) | the checkpoints | remove old finished threads | agent graph |
| Connections (`api/connections.py`) | a WebSocket per client | connect, send, broadcast, forget | conversation handlers, client |
| Desktop client (`App.tsx`, `state.ts`, `api/client.ts`) | the conversation in the foreground, views of the others, busy, the approvals on offer | handle events, reconcile after a reconnection, send, decide, stop, leave, switch | WebSocket, REST |
| Tool contracts, model client, tracing, extraction and naming, settings, Electron shell | settings; token counts | validate, ask a model, parse, format | not modelled (section 6) |

What is hard here:

* **Concurrency.** Requests of one thread run as tasks of the event loop and
  meet at every `await`; the graph runs in worker threads; rules, previews,
  scheduled tasks and clean-ups in threads of their own, on the same folders.
* **Time of check, time of use.** An approval is built from the plan and the disk,
  answered minutes later, verified twice and executed file by file.
* **Failure.** The process can stop between any two nodes and inside a batch, and
  goes on from the last checkpoint; a tool, the model, the database can fail.
* **Stale lists.** Previews, scans, rules, clean-ups and index builds work through a
  list made earlier, while others change the same folders.
* **Lost events.** The connection to the client breaks; what is sent meanwhile is gone,
  and answers to questions about the state may be overtaken by newer events.
* **Bookkeeping across steps.** The bulk threshold, refusals and budgets hold for a
  request, over all its replans.

What makes the components correct, in a line each (section 4 has what the code leaves
open): no bulk change or delete without an approval, and never more than it lists (agent
graph, policy); streams of a thread one at a time, an approval answered once, a cancel
that holds (threads); a runtime closed after its last stream and never before
(runtimes); no file overwritten, no lock circle, an exact roll-back (files); a preview
that does what was confirmed, once (previews); no file moved twice or forgotten
(watcher); an index that is exact once complete (index); no key, busy mark, conversation
or last copy lost (services); nothing done that was not asked for, and no success that
is none (request); busy and approvals as the back end has them (client).

`PROJECT.json` lists the hazards at their lines with the properties that cover them.

## 2. The modules

`MC*` modules only give constants their values. Modules named `*Proofs` extend a
module by its theorems.

### AgentGraph

One thread of the agent together with its policy and the batch tools.

* *State.* The checkpoint (`status`, `outcome`, `plan`, `idx`, `pending`, `batch`,
  `limit`, ...), the process (`at`: the node that runs next, `answer`: what
  `Command(resume=...)` carries, `run`: the tool call in progress), the disk as
  far as source paths show it (`stamp`: size and mtime in one number), and
  observability variables the actions never read (`moved`, `granted`, `served`,
  `unlogged`).
* *Actions.* A node of the graph is one step; each early return of `_act` is an
  action (`ActClarify`, `ActDenied`, ..., in the order of the code). A tool call
  takes one step per file, so that edits and crashes fall between files;
  `ToolReturn` writes the node's update.
* *Nondeterminism.* The planner may return any plan of `Steps`, the reflector any
  decision; `agent/outcome.py` any outcome. Files are edited or removed at any
  time; scope, approval and time budget may run out.
* *Abstractions.* Digests are equality. A step is a tool kind with the files it
  names: destinations are not part of it, a destination that gets occupied is an
  approval that lapsed. Kinds of tools: `single` (move, rename), `batch` (the
  three batch tools), `delete`, `clarify`, `invalid` (the policy turns it down),
  `other` (everything that changes no file). The truncation of an approval's list
  at `MAX_SNAPSHOT_ITEMS` and the scope's limits on paths and items are left out.
  The branch of `_act` for a plan without steps left is not modelled:
  `_after_plan` and `_after_reflect` never enter `act` then.

### Runtimes

`get_runtime`, `reset_runtime` and the lifecycle of `AgentRuntime` under threads
that chat and threads that save settings. A step is what runs between two lock
operations or reads of the global; the unlocked reads of `_runtime` are steps of
their own (`Look`, `Fetch`).

### Sessions

All requests of one thread. `AgentGraph` has one stream and a cancel that comes
from outside; here the graph is what its stream shows and everything around it is
modelled: `asyncio.Lock` with its queue, registration, cancel mark, the double
check of an answer, what the client is told, crash and restart.

* LangGraph writes a node's checkpoint after it has yielded the node's item; so an
  item leaves something `unwritten` that the next `next()` writes. A cancel
  between the two is why `Stop` writes the checkpoint itself.
* `next()` runs in a worker thread, which is why `Write` and `Item` are separate
  steps between which other tasks run. Token items change nothing and are left out.
* LangGraph resumes a checkpoint cancelled in the meantime at the reflecting node,
  which changes nothing (`ItemTooLate`).
* With `Scheduled` the first request is `_scheduled_runner`, whose stream takes no
  lock; its thread is known to the client once its events arrive (the client can
  switch to it and write to it).
* `client` is what the interface makes of it: busy once it has sent a message, free
  after a `done` and after nothing else (an `error` leaves it busy, App.tsx:262). Where a
  `done` goes to nobody the history keeps why: "away" for an answer over REST and a
  stopped process (the interface is not connected then and asks when it is again:
  ClientView), "forgotten" for a stream that is refused (`StreamRefused`, section 4).

### PathLocks

Who locks which directories, in which order and inside what. A directory is its
place in the order of the lock keys; an operation is the sequence of its nested
acquires (at most two).

### FileStore

The files and the operation log over PathLocks, which it extends: every operation
asks for its locks, chooses a free name, moves, and writes its log entry inside the
locks (`move_file`, `rename_file`) or after them (`delete_file`,
`restore_operation`). That its locks behave as PathLocks says is the property
`LocksSpec`, so what PathLocks shows holds of these operations.

* *State.* `loc` (where each file is), `log`, the job of each thread, and what a
  roll-back has still to undo. A name is a plain name and the numbers
  `_unique_dest` appended to it.
* *Callers.* The conversation (`mine`, one call at a time), other conversations,
  rules and previews, which hold the locks around the call (`wrapped`; a preview
  takes no other name, `strict`), `write_summary`, the trash and roll-backs.
* *Abstractions.* The sandbox, deletion and restoring of whole directories,
  `make_dir` and the index are left out. A preview's delete nests its locks
  otherwise; locks_cleaning is about it. `shutil.move` is one step. Entries of
  roll-backs, summaries and failures are never read back and are left out. Other
  programs may remove a file at any time; that one of them creates a file under a
  chosen name just before the move is beyond what the program can prevent.

### Request

What one request may do and how it is judged; AgentGraph has the control flow of a
run and only a yes or no for the scope, here it is the other way round.

* *State.* The files (`disk`), the checkpoint's `status`, trusted intent, scope,
  observations and outcome, the lists of scanned files, the clock, and `mandate`,
  a history variable: what the user asked for before any answer.
* *Actions.* `Message` (start_stream with build_scope, merged with the earlier scope
  when it is an answer), one action per tool, `Clarify`, `Finish` (evaluate_completion),
  and the disk and the clock. The planner is any sequence of calls with any arguments; a
  move may give its file a new name. Of what a batch has made an observation keeps some
  `MaxKept` as its `results`, and only these are looked at again at the end.
* *Abstractions.* A message is what is read out of it (effects, folders, files,
  targets, extensions); the words themselves and their lexing are left out. Folders
  have no subfolders, filters are by extension only, a name keeps its extension.

### Preview and ConfirmedBatch

One preview: its row, the disk, and requests that confirm and execute it. A step is what
lies between two accesses to the database or to a file; so a confirmation is written
after the status it was checked against may have changed, and items are moved one by
one. The check of an item at its turn and its `shutil.move` are one step: an edit
between the two, which no code could see, is not in the model. `ConfirmedBatch` says
what the user was promised; `KeepsPromise` is that Preview implements it, with `op`,
`granted` and `moves` mapped to themselves and "none" for an unknown operation. The
rules that find a category are any choice; the locks of an item are in PathLocks; an
approval that expires and a scope that expires are one event (`late`).

### Watcher

One rule: the loop and "run now" each have a program counter, a list and a file in hand.
`settle_seconds` is a bit that `Tick` sets. A restart forgets the observations and keeps
the events. `moves` has each file with the signature it had when it was moved, which
need not be the listed one that is recorded. How a file is classified is left out (it
always has one target).

### Indexer

One build at a time, of any folder (the code lets builds of different folders overlap):
the stack of subfolders to visit, the list of the present one, the text just extracted,
what was seen, what is stale. `Below`, `Depth` and `Home` are the tree of folders and its
authorized roots; a build goes down to `MaxDepth`. A row has its path, the signature it
was made with and the folder it is filed under (`root`), which an unchanged file's row
keeps and a move may change. Moves by the program note themselves in a second step
(`hand`), and both fall anywhere in a build. Text, segments and the search itself are
left out.

### Scheduler, Checkpoints, Duplicates, Secrets

* *Scheduler.* Records, the timetable (APScheduler's, external), the pool and the busy
  marks. A run goes through `hand`, `queued`, `works`. Cron expressions are left out:
  a job may be due at any time.
* *Checkpoints.* `cleanup_checkpoints` reads each thread's state and last checkpoint,
  sorts, and deletes one thread after the other, while conversations go on.
* *Duplicates.* A scan (walk, sift by size, hash, group) and clean-ups that go through
  its groups; a path holds a content or nothing. All files have one size, the case in
  which hashing decides. Hard links and progress are left out.
* *Secrets.* The store, the plain text of an older version, the migration with its
  lock, saves and clears without it, each access a step that may raise. `last` is the
  user's last choice; `raced` (a choice and a migration at once) and `cut` (a clear that
  ended half way) are the two cases in which the code does not keep to it.

### ClientView

The client and the back end over one connection that breaks and is opened again.

* *State.* Of the back end, per thread, where its stream is, its checkpoint, its last
  approval and the messages that wait for its lock: the little of Sessions and AgentGraph
  that a client can tell apart. The events on their way (`wire`), the answers to
  `GET /api/threads/{id}` (`gets`) and to an approval over REST (`answering`). Of the
  client `active`, `busy`, `views`, `detached`, `approvals`.
* *Actions.* One per handler of `App.tsx`, and `Receive` and `Reconcile`, which hand an
  event or an answer to `Handle` (`handleSocketEvent` with `reduceThreadEvent`). `Drop`
  loses what is on its way; a message sent just then is lost too; `Open` asks for the
  states of `ToReconcile`.
* *Gaps.* The code has ways for client and back end to come apart that nothing repairs
  (section 4). The history variable `astray` notes the first of them, and behaviours are
  followed up to there: the properties say that they are the only ones.
* *A stream that raises* (`StreamRaises`), at its start, before its first item or after
  it, ends with `done` and no terminal checkpoint. If that `done` is lost, nothing frees
  the thread (`Stranded`): the two places where this shows are gaps.
* *Abstractions.* Texts, tasks and summaries are left out. A first item and its
  checkpoint are one step, and so are the last one and what is told of it. Left out are a
  stop of the back end and a stream that a closed runtime refuses (`StreamRefused` of
  Sessions), after which no event comes either. A start that raises on a thread that waits
  for an approval would only lead to one of the gaps. A conversation that goes on after an
  approval
  over REST has no receiver (`told`, `Untold`). The queue of approvals is a set: its order
  decides only which one is shown first.

## 3. Runs

| Run | Module, configuration | Shows |
|---|---|---|
| agent_bulk | MCAgentGraph, AgentBulk | `BulkNeedsApproval`, `OnlyApprovedFiles`, `RejectedStops` within one request |
| agent_mixed | MCAgentGraph, AgentMixed | `TypeOK`, `PendingCurrent`, `BudgetKept` over two requests, `RunEnds` under `FairSpec` |
| sessions_safe | MCSessions, SessionsSafe | `OneStream`, `AnsweredOnce`, `EveryChatTold`, `CancelledStands`, with failures, crashes and a scheduled stream |
| sessions_live | MCSessions, SessionsLive | `JobsEnd`, `CancelEndsWait` under `FairSpec`, `CancelNeverApproves` |
| store_safe | MCFileStore, StoreSafe | `NothingOverwritten`, `RollBackExact`, `LocksSpec` (FileStore implements PathLocks) |
| preview_all | MCPreview, PreviewAll | `KeepsPromise` (Preview implements ConfirmedBatch), `NothingOverwritten`, `MovedAsShown`, `ClaimsHaveOwners` |
| folders_all | MCFolders, FoldersAll | of Watcher `MovedOnce`, `NothingForgotten`; of Indexer `CompleteBuildExact`, `BuildKeepsFiles`, `BuildEnds` |
| services_all | MCServices, ServicesAll | of Secrets `KeyNeverLost`, `ChosenKeyServed`; of Scheduler `OneRunPerFolder`, `BusyHasRun`; of Checkpoints `ConversationsKept`; of Duplicates `CopyKept`; of ClientView `BusyAgrees`, `ApprovalsAgree` |
| requests_all | MCRequests, RequestsAll | of Request `OnlyWhatWasAsked`, `OnlyWhatWasNamed`, `SuccessIsTrue`; of Runtimes `StreamsKeepTheirRuntime`, `OneServing`, `NoneLeftOpen` |
| sessions_stale | MCSessions, SessionsStale | that `LaterRequestsUnharmed` does not hold (section 4) |
| locks_cleaning | MCPathLocks, LocksCleaning | that `NobodyStuck` does not hold with clean-ups (section 4) |
| watcher_twice | Watcher, WatcherTwice | that `EventsHold` does not hold (section 4) |

MCFolders, MCServices and MCRequests put modules into one run that share no state: a
variable chosen at the start says which of them moves, so that each behaviour is one of
that module and the states add up instead of multiplying. ClientView has three such
parts: two conversations, of which one asks for an approval, a conversation and a
scheduled task, which both ask, and one conversation that asks twice.

*Bounds.* The constants that begin with `Max` and the sizes of the sets are bounds of
the model, except for settings of the code scaled down: `Threshold`, `MaxPlan`,
`MaxReplans`, `MaxCalls` and `MaxTools` of AgentGraph, `MaxDepth` of Indexer,
`MaxSessions` and `MaxAge` of Checkpoints, `MaxItems`, `MaxKept` (ten in the code) and
`Ttl` of Request. Why they are enough:

* agent_bulk has two files against a threshold of one, which lets a request pass it by
  single moves, by a batch and by both; a replan and an edit suffice for a stale
  approval. agent_mixed has one file but two requests, for anything left over from the
  first one, and tools that call the model twice, which is what can pass a budget.
* Two savers let a runtime be retired while the next one is being used. Three tasks are
  a holder of the lock, a waiter and a cancel that comes between; two approvals let a
  late answer meet the wrong one.
* Two threads with two directories suffice for a deadlock, and for a name chosen by
  both; two files of one name in two folders make names collide. `MaxAsked` counts
  operations: two, with one roll-back and its undo steps besides, are a chain to undo
  and a restore against a competitor. locks_cleaning has three threads and three
  directories.
* preview_all has two requests, two files of one name and a threshold of one: a
  selection below and above it, two confirmations to mix up, two items for one target,
  one change from outside at any step.
* folders_all: two files against a threshold of one are a batch that is left alone and
  one that is moved; two events from outside allow a roll-back and a restart. For the
  index, a folder in a folder in a folder and a depth of two put a file below, within and
  above what a build sees, and three changes let it move on and back, be edited and taken
  away. One document is enough: the rows of two never meet, and the limit on their number
  (`Truncate`) may be met at any file.
* services_all: two saves race a migration in a third thread; two jobs of one folder,
  three fires and starts; three conversations with one to keep; three copies, two
  contents, two clean-ups; for the client two messages and one break of the connection,
  over two threads with an approval each or for one of them (one in front, one behind
  it, and a loss at any point of either) or over one thread with two approvals (an old
  one and a new one to take for each other).
* requests_all: a task and its answer, or two tasks; three calls let one result be moved
  on and moved again; two names with two extensions in two folders; batches of two files,
  of which one result is kept. Of the runtimes, two chats, two savers and three runtimes.

*Fairness.* `AgentGraph!FairSpec`: `_run_stream` calls `next()` until the stream
ends, so the graph's own steps (`Graph`) are weakly fair; the user, the disk and
the clock are not. `Sessions!FairSpec`: the event loop runs every ready task and
`asyncio.Lock` wakes its first waiter, so `Work(j)` is weakly fair for each task;
requests need never come. `FoldersSpec`: the watcher's thread is a loop that catches
what a pass raises (`LoopRead`, `Work("loop")`), time passes (`Tick`), and a job of
the index is a thread without waits (`Build`); the user, the disk, manual runs and
restarts are not fair. The locks of `threading` promise nothing of the kind, so
no liveness is claimed of PathLocks; `NobodyStuck` is stated as a safety property
because a deadlock of two threads is none of the whole system.

*Deadlock* is checked for PathLocks and FileStore, where somebody can always
start again (the process itself, after a crash). It is not for the others, which stop
once the bounded number of requests, changes or calls is used up, or (a preview) when
they are done; `RunEnds`, `JobsEnd`, `NothingForgotten` and `BuildEnds` say there that
nothing stops early.

## 4. Where code and documents disagree

These are shown by runs that TLC stops with a counterexample.

| Run | Property | What happens |
|---|---|---|
| sessions_stale | `LaterRequestsUnharmed` | only a message's end clears the cancel mark; one set while an answer's stream ends stays and stops the next message (main.py:475) |
| watcher_twice | `EventsHold` | a file is written to between the look of a pass and its move: the event recorded names the old signature (watcher.py:207), and after a roll-back the file is moved again (watcher.py:206, against the docstring at watcher.py:6) |
| locks_cleaning | `NobodyStuck` | preview deletes and duplicate clean-ups nest two acquires against the order (preview.py:958, duplicates.py:480) |

The others were met while modelling. The modules have the steps that lead there, and
the properties name them as their exceptions, or speak of the rest:

* Saving a key does not take the migration's lock: a migration that has looked at an
  empty store writes the older key over the new one, and nothing has the new one any more
  (llm_config.py:232, against llm_config.py:135). `KeyNeverLost` and `ChosenKeyServed`
  except it by `raced`.
* `clear_api_key` raises where its comment says that the database is still cleaned
  (llm_config.py:264, against llm_config.py:262); `cut`.
* A runtime is retired and closed between `start_stream` and `retain_stream`: `retain`
  raises outside every `try`, and the task ends without the event that frees the client
  (main.py:321, against the comment at main.py:256). `EveryChatTold` excepts it by the
  client's state "forgotten".
* A stream raises while the connection is down: its `done` is lost, and after the
  reconnection the checkpoint says running, or there is none, of which the client makes no
  `done` (client.ts:437, against the comment at client.ts:435); the thread stays busy, in
  the foreground until the watchdog gives up on it (App.tsx:317), behind it for ever.
  `BusyAgrees` follows behaviours up to that opening (`Stranded`).
* A build does not go below a depth of 20 and does not note that; a file moved down there
  within its indexed folder is pruned while it is there (indexer.py:398, against the
  comment at indexer.py:441). `BuildKeepsFiles` speaks of what is within `Reach`.
* The prune looks only at rows filed under exactly the build's folder; rows of builds of
  the folders above stay when their files have vanished (indexer.py:452, against
  indexer.py:8). `CompleteBuildExact` speaks of the rows filed under the folder.
* A batch keeps its first ten results and the last look sees no others: an eleventh that
  vanishes before the end does not keep the run from being a success
  (tool_executor.py:219, against src/README.md:107). `SuccessIsTrue` speaks of the
  results kept.
* A batch over no file at all ends well and counts as the move that was asked for, a
  success where nothing has moved (outcome.py:241, against src/README.md:100).
  `SuccessIsTrue` asks for a call that ended well, not for a file that moved.
* The approval of a batch that is not the plan's last change records all files of the
  plan as selected and compares them with the batch's; it can never be given
  (approval.py:451, against the table at src/README.md:179).
* The scheduled stream has no lock: it can write its next state over a cancellation
  whose mark is already consumed, and the cancelled run goes on (main.py:116, against
  main.py:562).
* The trash identifies a file by its path: an entry whose file has left is listed again
  when another file takes the path, and restores that one (trash.py:73, against
  trash.py:4).
* A clear that ends between the store and the database (the process stops, SQLite
  raises) leaves the plain text of an older version there, and the next migration
  brings the cleared key back (llm_config.py:265).
* Two clean-ups of one scan with different keepers can move every copy to the trash
  (duplicates.py:447).
* `shutdown` cancels queued runs without giving back their busy marks, which the
  comment at scheduler.py:81 wants to avoid (scheduler.py:136).
* The source of a summary counts as consumed, so that its loss during the run is not
  noticed (outcome.py:118).
* A conversation that is left before its first event, or dropped after the watchdog gave
  up on it, is not detached: its late events are taken into the new conversation
  (App.tsx:451, 413; the comment at App.tsx:439 says they never are).
* After a reconnection the client asks about the foreground and the busy views only: an
  approval of another thread, asked for meanwhile, is never shown (App.tsx:288). An
  approval settled meanwhile in a thread that goes on is taken down by no answer
  (client.ts:434); it stays before the new one, of which only the first is shown
  (App.tsx:706), until the thread's next event takes both down (`Outdated`). The answers
  are handled even when newer events have overtaken them (App.tsx:272).
* An answer that says running, of a thread whose stream has raised, opens a busy view of
  it behind a new conversation (client.ts:425, App.tsx:170). And a decision whose stream
  raises before the first item leaves the approval pending in the checkpoint, where it
  can be answered again, while its `done` takes it down in the client (main.py:408,
  App.tsx:247); so does the `done` of a message whose start raises (main.py:461).
* Over REST the client removes the first approval once the answer is there, whichever it
  is by then (App.tsx:479), and the conversation goes on without a receiver for its
  events (main.py:646).
* A scheduled thread that is switched to stays in the background for its events
  (state.ts:224 against App.tsx:535); a refused message or answer, which is an `error`,
  opens a busy view of a thread in which nothing runs (App.tsx:170).

## 5. Proofs

| Module | Theorem | Shows for all values of the constants |
|---|---|---|
| AgentGraphProofs | `TypeCorrect` | `TypeOK` |
| AgentGraphProofs | `BulkSafe`, `ApprovalsSafe`, `RefusalSafe` | `BulkNeedsApproval`, `OnlyApprovedFiles`, `RejectedStops` |
| AgentGraphProofs | `PendingSafe`, `BudgetSafe` | `PendingCurrent`, `BudgetKept` |
| RuntimesProofs | `TypeCorrect`, `StreamsSafe`, `ServingSafe`, `OpenSafe` | `TypeOK` of Runtimes, `StreamsKeepTheirRuntime`, `OneServing`, `NoneLeftOpen` |
| FileStoreProofs | `NoDeadlock` | `NobodyStuck` of PathLocks, without clean-ups |
| FileStoreProofs | `LocksKept`, `NeverStuck` | `LocksSpec` (FileStore implements PathLocks), `NobodyStuck` |
| FileStoreProofs | `NoLoss`, `RollBackSafe` | `NothingOverwritten`, `RollBackExact` |
| SessionsProofs | `OneAtATime`, `AnswersSafe`, `CancelSafe` | `OneStream`, `AnsweredOnce`, `CancelledStands` on a thread without scheduled stream |
| SessionsProofs | `EveryoneTold` | `EveryChatTold`, with a scheduled stream, failures and crashes too |
| SessionsProofs | `CancelWins` | `CancelNeverApproves`, without scheduled stream, failures and crashes |
| PreviewProofs | `TypeCorrect`, `PromiseKept`, `NamesKept`, `ShownIsMoved`, `ClaimsGivenBack` | `PreviewTypeOK`, `KeepsPromise` (Preview implements ConfirmedBatch), `NothingOverwritten`, `MovedAsShown`, `ClaimsHaveOwners` |
| FoldersProofs | `MovedOnceSafe` | `MovedOnce` of Watcher |
| FoldersProofs | `IndexSafe`, `SearchSafe` | `CompleteBuildExact`, `BuildKeepsFiles` of Indexer |
| RequestProofs | `RequestTyped`, `AskedSafe`, `NamedSafe`, `SuccessSafe` | `RequestTypeOK`, `OnlyWhatWasAsked`, `OnlyWhatWasNamed`, `SuccessIsTrue` |
| ServicesProofs | `SchedTypeCorrect`, `RunsApart`, `MarksGivenBack` | `SchedTypeOK`, `OneRunPerFolder`, `BusyHasRun` of Scheduler |
| ServicesProofs | `ConversationsSafe` | `ConversationsKept` of Checkpoints |
| ServicesProofs | `CopySafe` | `CopyKept` of Duplicates |
| ServicesProofs | `KeySafe`, `ServedKeySafe` | `KeyNeverLost`, `ChosenKeyServed` of Secrets |
| ServicesProofs | `BusySafe`, `ApprovalsSafe` | `BusyAgrees`, `ApprovalsAgree` of ClientView |

With them every invariant and action property of the passing runs, and both
refinements, are theorems.

They assume the named assumptions of the modules (finite sets, positive thresholds, a
single or delete step names one file, at first one file at a path, folders that are a
forest, `None` is no thread) and nothing else, but for the restrictions of Sessions and
PathLocks named in the table, which the theorems state: each excludes a case in which
the property does not hold.

*BulkSafe.* `moved <= max(Threshold, granted) + unlogged` is not inductive: it
says nothing of the tool call in progress. `IInv` adds where a call can be
(`Places`), that the pending approval was recorded at the present count
(`Record`), that the count the code keeps and the files a call still has never
exceed what was cleared when it began (`Ahead`), and that the code's count is the
number of files really moved, less those of the running call and those whose log
entry failed (`Exact`).

*The rest of AgentGraph.* `Careful` serves three properties at once: a tool that runs or
may be approved has an allowance left (`Within`; the approval node does not look again),
the pending approval is current, ids are handed out once (`Numbered`), and nothing that
counts towards the threshold is begun after a refusal (`Unrefused`). That no file is
taken twice under one approval needs more (`ServedInv`): what an approval that may still
be given has served is not as it was, so verifying it fails (`ServedPending`: this is
what protects a batch that a crash has cut short); what the approval in force has served
is marked done once its tool returns (`ServedBatch`); and a running tool has in hand
only what is left of it (`Hand`).

*Runtimes.* `Counted` ties `active_stream_count` to the set of streams; the steps
between a decision and `close` are covered because `close` looks again.

*Sessions.* `Locked` (who is past the lock owns it) makes the streams exclusive;
`Fresh` and `Carries` tie the pending approval to the one answer in flight;
`Cancelled` says that a cancelled checkpoint has no stream but a message's over it.
The proof needs `~Scheduled`: the scheduled stream breaks `OneStream`. `Owed` (a
busy client has an approval to answer, or a task that `Owes` it a done) needs no such
restriction. For the cancel, `Marked`: the approval that
waits while a cancel was accepted still has its mark; a failure or a stop of the process
would lose it.

*PathLocks.* `Ascending` and `Above`: what a thread still wants is in order and above
all it holds, unless it holds it already; `Nested` says that an inner acquire is for
the locks of the outer one. In a circle the thread that waits for the largest key
would be kept by one that waits for a larger one (`Largest`: a set of directories
has a maximum). The proof needs `~Cleaning`, which locks_cleaning shows necessary.

*FileStore.* Every step is one of PathLocks or leaves the locks alone (`LocksStep`),
so the invariant of PathLocks holds. With it: a thread that waits claims the folder
it moves to, and once it has chosen a name it holds that folder's lock (`Claimed`)
and nothing is there (`Chosen`). Two threads never hold the folder both
(`Exclusive`), so no other move can take the name.

*RollBackExact* speaks of where the files were long ago; the invariant `Retraced` has that
history. There is a sequence `H` of placements, from the first to the one after the last
entry of the log, each of which follows from the one before by its entry (`Leads`: the
file was at `from`, and nothing was at `to`), with one file at a path in each (`Past`).
Before the roll-back the disk is the last of them, but for the operation under way
(`Before`); during it, with `k` entries left, the disk is number `k`, or `k + 1` while the
entry between is being undone (`During`). `Back` says that an entry can be undone in one
way only: its `to` holds the file that was moved, and its `from` is free, so no other name
is chosen and no other file is taken. This is where the order matters. The proof made the
model say that a path has one file at first, and that the entries to undo are a set from
which the newest is taken.

*Preview.* That a batch is carried out once needs more than the guarded claim.
`OneOwner`: one request is past its claim, and the preview is executing then.
`Untouched`: before the claim, and before the approval is marked used, nothing has
moved, so a claim that is given back gives back an untouched preview. `InHand`: what a
request executes was granted, though the approval may have been overwritten by a later
confirmation. `Working`: all that has moved moved for the selection in hand, and no file
of it that is still to be done has. The types need the invariant: what is moved to a
folder has to be a granted selection.

*Scheduler.* `RunsMarked`: a run has its folder marked, and a mark that the end of the
pool lost has no run. A fire needs an unmarked folder, so runs of one folder never
overlap, and the mark a run gives back is its own. `InService`: requests are served only
while the clock is up.

*Watcher.* `MovesKnown`: a move that was not exposed is recorded, or the pass that made
it is about to; where its file was rolled back to the inbox, no pass has it on its list
(`AtRest`). What was recorded is never listed again, over restarts too. The moves are
compared by the signature a file has when it is moved; where that is not the listed one
(`edited`) the event protects nothing, which is the one exception watcher_twice shows.

*Indexer.* Until something disturbs a build, `Following`: what it has seen has its right
row (`SeenRight`), every file within its reach is below a folder on the stack, on the list
in hand, or seen (`Covered`, unless the build was cut short), and so what it prunes of its
reach is what is not there (`PruneRight`). `TreeAssumption` says all that is needed of
the folders.

*Request.* `Observing` says of each observation what the properties say of the changes
(`Legitimate`), and `Bounded` that the scope is no wider than the mandate whatever
answers have made of it: an answer that would leave no file or extension must not
leave "any". `SuccessIsTrue` follows from these and the last look at the results kept
in `Finish`; of what was not kept, and of whether a call has done anything at all, it
says nothing (section 4).

*Checkpoints.* `ReadRight`: what was read of a thread still holds unless it went on.
`VictimsRight`: each victim that did not go on has expired and is outlived by
`MaxSessions` threads that are no victims (`Outlived`), which deleting other victims does
not change.

*Duplicates.* `KeeperHolds`: while a clean-up works on an item its keeper holds the
content and is none of the items; before the delete the item has just been compared.

*Secrets.* `NotYetStored`: a key that is not in the store is the old one, still in the
database, with nobody at the point of tidying up. `LastStored` and `NothingUnder`:
unless a migration raced with a choice, the store has that choice, and who is about to
store the old key finds the store empty. `Cleared`: after a clear nothing has a key but
a database that is about to be tidied up, and nobody migrates.

*ClientView.* What is shown differs from the truth only while something on its way will
put it right. For the busy marks (`BusyGood`): a thread shown busy is alive, or its
`done` is on the wire, or an answer that says "ended" is under way (`BusyOwed`), or else
the opening that asked for it was a gap (`Stranded`); and no event that would open a
busy view is left behind by a thread that is over (`LiveEvents`), or the last `done`
would come too early. For the approvals (`OfferGood`): either an answer to come settles
the thread, or handling the events on the wire in their order leads from the approvals
offered to the one that waits (`Consistent`: asks and clears take turns, the last of
them says what is true, the first ask finds nothing else offered). `Consistent` is about
a sequence of any length; the lemmas `AppendAsk`, `AppendClear`, `TailAsk`, `TailClear`
and `...Other` say what one more event and one handled event do to it, so that no
induction over the wire is needed. An approval's number says whether an answer is older
than what was asked since (`AnswerKept`, `Numbered`). Both hold up to the first gap and
were checked by TLC, on one thread and on two, before they were proved. That is how the
gap `Outdated` was found: it takes a thread that asks twice, hence the third part of
services_all.

## 6. Only model-checked, and not covered

*Beyond the prover:* liveness (`RunEnds`, `JobsEnd`, `CancelEndsWait`,
`NothingForgotten`, `BuildEnds`) and what needs `ENABLED`.

*Type invariants.* Those of AgentGraph, Runtimes, Preview, Scheduler and Request are
theorems, that of ClientView is `ViewTyped` in ServicesProofs; those of the other modules
are stated in them (`WatchTypeOK`, ...) and contained, as far as the proofs need them, in
the inductive invariants. `NobodyStuck` of FileStore is the theorem `NeverStuck`, and
store_safe checks what it rests on (`LocksSpec`).

*Known and not covered by a property:*

* a file edited between the question and the execution: the snapshot is compared when the
  answer comes in and before the tool begins (`Verified`), and between that and the file's
  own turn nothing protects it. `OnlyApprovedFiles` is about which files an approval is
  used for and how often, and reads no snapshot (for a rule's moves see watcher_twice);
* a stop between a move and its log entry (filesystem.py:289);
* the cancel whose checkpoint write fails (main.py:337: `CancelNeverApproves` is checked
  without failures, because with them it does not hold), and the cancel of a message
  queued behind another one of its thread, whose mark the end of the first drops
  (main.py:475);
* an index note of a move that falls into a build of the folder (indexer.py:454), and two
  builds of one folder at once (indexer.py:490);
* two duplicate clean-ups at once (duplicates.py:447), and the count of freed bytes with
  hard links (duplicates.py:486);
* a job that is removed while it is being added stays in the timetable (scheduler.py:122);
* a thread that goes on, or cannot be read, while it is being cleaned up
  (checkpoints.py:117, 88): `ConversationsKept` excludes it;
* folders: an answer adds those it names to the source and the target folders
  (authorization.py:469), so `OnlyWhatWasNamed` speaks of files and extensions only; and
  an answer "only PDFs" to a task that named no extension is dropped
  (authorization.py:492).

*Not modelled:*

* tool contracts (`tools/contracts.py`): tables and record validation; an invalid step is
  one kind of step of AgentGraph;
* the model client and prompts (`agent/llm.py`, `agent/prompts.py`): what a model answers
  is any choice; tracing counts tokens for display;
* extraction, classification and naming (`tools/extract.py`, `classify.py`, `naming.py`,
  `categories.py`): conversions without state;
* settings (`config.py`, `sandbox_config.py`, `workspace_config.py`, ...): single writes
  of validated records; that saving them replaces the runtime is in Runtimes;
* routing, the session token, serialisation (`api/`): no state of their own but the
  connections, which are in ClientView;
* the Electron shell (`src/frontend/electron`): starts and stops the process; a stop is
  the crash of AgentGraph, Sessions, FileStore, Watcher and Secrets;
* in modelled components: nested folders and filters by size and date (Request), deleted
  directories and `make_dir` (FileStore), the search over the index, encryption of the
  key, preferences.

## 7. Plan

What is left is proof; nothing that remains unmodelled keeps state of its own that others
depend on.

1. **FileStore, Watcher, Indexer**: the whole of their type invariants.
2. **PathLocks**: which nestings are free of deadlock besides those without clean-ups.
