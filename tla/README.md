# Formal models of Nebula Notebook

TLA+ specifications of the parts of Nebula Notebook that decide whether work is
lost: how operations of agents reach a notebook, how the notebook gets to disk,
how it is undone, how the page saves itself, how kernels are kept and cells are
run, and how kernels on the nodes of a cluster come and go. TLC checks the models
on small instances, TLAPS proves all but two of their safety properties for every instance.
All paths are relative to the root of the repository.

Run a model with `tlc -workers 2 -config X.cfg MCModule.tla` and the proofs with
`tlapm M.tla` for a module M whose name ends in `Proofs`.

## 1. The system

A node server owns the files and the kernels. Browser pages show notebooks; each
page keeps one websocket per notebook to the server. Agents (through the MCP
server, the CLI or HTTP) send operations to the server. Everything runs on
single-threaded event loops, so the hazards are not torn reads but what happens
between an `await` and its continuation, in another process, or across a restart.

| Component | State | Operations | Talks to |
|---|---|---|---|
| Operation router (`node-server/src/notebook/operation-router.ts`) | agent lock per path with the hashes of cells the agent has seen, hashes read before a session, the websocket of the page, pending requests with timers | apply an operation, start and end a session, register and unregister a page, read a notebook, expire locks | forwards to the page if one is responsive, else to the headless handler |
| Page operation handler (`hooks/useOperationHandler.ts`) | websocket, cells, session badge | apply a forwarded operation, answer it | router (messages), page (cells) |
| Headless handler (`node-server/src/notebook/headless-handler.ts`) | cached notebooks, warm-ups and persist loops in flight | every cell operation, runs of cells, undo and redo, invalidation | store (bundles), undo manager, kernels |
| Undo manager of the server (`undoRedoManager.ts`) | undo stack, redo stack, append-only history | record, undo, redo, load, time travel | headless handler, history file |
| Notebook store (`node-server/src/fs/fs-service.ts`) | notebook, history and journal files, a write lock per path | save a bundle, save the history, update metadata, set the agent's permission, load | pages and headless handler |
| Autosave (`hooks/useAutosave.ts`, `autosaveStateMachine.ts`, `useConflictResolution.ts`, `services/conflictService.ts`) | state machine, timers, baseline, known modification time, dialog | edits, timers, manual saves, hidden tabs, switches, answers to a conflict | store over HTTP |
| Undo and redo of the page (`lib/undoRedoCore.ts`, `hooks/useUndoRedo.ts`) | stacks, full history, keyframes | as above, with typing grouped into keyframes | saved along with the notebook |
| Kernel sessions (`node-server/src/kernel/kernel-service.ts`, `session-store.ts`) | sessions, file-to-session map, creates in flight, child processes, rows of the session store | get or create, start, stop, restart, clean up, exit event, liveness sweep, reattach | ZeroMQ kernels, routes |
| Cell execution (`routes/kernel.ts`, the execution half of `kernel-service.ts`, `services/kernelService.ts`, `components/Notebook.tsx`) | chain of executions and iopub channel per session, buffered outputs, subscribed sockets; the page's queue and handlers | queue, execute, interrupt, broadcast, synchronize | pages, agents, kernels |
| Allocations (`node-server/src/scheduler`) | allocations, their file, the poll | submit, cancel, poll, reload | batch scheduler, registry |
| Cluster (`node-server/src/cluster`) | registered servers and heartbeats; each server's registration | register, beat, mark offline, evict, unregister, start a remote kernel, ask its status | head, client-servers, pages |
| MCP client (`packages/mcp`) | known cell ids | tool calls turned into requests | server over HTTP |
| Provenance, terminals, authentication, discovery, resources, formats, routes, viewer, autocomplete | see `PROJECT.json` | | |

What makes the system hard:

* **Two writers of one notebook.** The user types in the page while an agent's
  operation is on its way; optimistic concurrency (content hashes that the agent
  saw, compared where the operation is applied) stands between them.
* **Two copies.** While no page is open, the server's cache is the notebook; when
  one opens or saves, the cache has to go. Warm-ups, persist loops and running
  cells hold on to objects across `await`s.
* **Answers that come late.** Pages sleep, reconnect and answer after the router
  has given up; a replaced websocket closes after its successor has opened.
* **Several files, one save.** Cells, history and journal are separate files; the
  server can be killed between any two renames.
* **Undo by position.** Recorded operations name cells by index, and the stack
  is rebuilt from a log after each restart.
* **Timers that must fire.** The page's saving is a state machine whose every
  state waits for a timer, an effect or an answer.
* **Processes that outlive the server.** Kernels survive it, process ids are used
  again, and the next server serves requests while it is still looking for its
  kernels.
* **One kernel, many readers.** Pages and agents queue runs on the same kernel, pages
  come in the middle of a run, results carry no id, channels are bounded.
* **Three parties that disagree.** Scheduler, client-server and head each know
  part of what has become of a job.

What has to be true of each component:

* router: no unseen edit is overwritten; an agent is told what happened; every
  request is answered; a late close does not disconnect a page.
* store: saves of a notebook are serial; a save merges and does not roll back; a
  history that can be read belongs to a completed save and is not behind the cells.
* undo: undo and redo restore exactly the notebook they say; the history replays
  to the notebook, is append-only and rebuilds the stack.
* headless cache: answered edits survive, reach the file, and are not brought
  back once undone; page and agents do not forget each other's work.
* autosave: what is not on disk is known to be unsaved and gets there; no
  notebook gets the cells of another; a conflict stops saving until it is answered.
* kernel sessions: one kernel per notebook, none left to itself, none forgotten by a
  restart of the server, no stranger taken for a kernel, every death noticed.
* cell execution: one run at a time, each with an end; results reach the run that asked,
  outputs appear once, the page's queue moves on.
* cluster: an allocation or kernel is given up only when it is over, and then it is;
  the list of servers settles; a page learns that its kernel is gone.

## 2. Modules

| Module | Models | Extends / uses |
|---|---|---|
| `OperationRouter` | router, the page that applies operations, an abstract headless applier | |
| `SerialSaves` | what the write lock promises, abstractly | |
| `NotebookStore` | the files of a notebook, the write lock, the saves, crashes, loading pages | `INSTANCE SerialSaves` |
| `HeadlessUndo` | the server's undo manager and every headless operation that changes cells | |
| `HeadlessCache` | the server's cache, warm-up, persist loop, running cells, hand-over to a page | |
| `Autosave` | the page's autosave machine, timers, conflict dialog, notebook switch | |
| `KernelSessions` | kernel processes, the service's maps, the session store, crash and reattachment | |
| `CellRuns` | pages' execution queues and clients, the websocket route, the executions of a session, the kernel's messages | |
| `Cluster` | allocations and their poll, client-servers, the registry, a page with a remote kernel | |
| `MC...` | model values for TLC | the module they are named after |
| `...Proofs` | theorems and lemmas about each of them but `SerialSaves` | the module they are named after, `TLAPS` |

`map` in `PROJECT.json` gives, for each definition, the lines it stands for. A
definition whose name has a suffix (`Stale_NotCompared`) and whose comment starts
with "Faulty variant" is a plausible bug; it is used by nothing, and putting it in
the place of the definition it is named after breaks the property that
`PROJECT.json` lists with it.

### OperationRouter

State: `lock` is `agentLocks.get(path)` with its hashes, `preRead` the hashes read
before any session, `conn`/`fresh` the registered websocket and whether it was
heard within 45 s, `sock` the state of every websocket, `ops` the requests in
progress, `wsRef`, `pageCells`, `session` the pages, `disk` what the headless
handler works on, `seen` a history variable: what each agent was shown or wrote.

A hash is represented by the content it hashes (FNV-1a is taken to be injective on
the contents of a model). `Submit` is `applyOperation` up to its `await`: sweep
expired locks, check the lock, stamp the hashes, choose page or headless.
`PageApply` is `handleMessage` in the page and may happen after the router's timer
has fired; `Deliver` is the answer's way back; `HeadlessApply` the headless
operation with its hash check. `Outcomes` is what an applier may do with an
operation, including refusals, conflicts and partly missing batches. `Register`,
`CloseEvent`, `PageClosed`, `GoStale`, `MarkUIActivity` are the connection;
`UserEdit`, `PageSave`, `PageLoad`, `PageSessionEnds` the user. `undo` is modelled
by its effect on the cells only; `HeadlessUndo` has the details.

### NotebookStore

`req` holds the requests at work; each advances one file operation at a time
(`begin`, `history`, `read`, `write`, `commit`, `unlink` for a bundle; two or three
of them for others) and may fail at each. `tail` and `prev` are the promise chain
of `withWriteLock`. Contents are sets of edits, a file carries the ticket of the
request that wrote it; `committed` holds those of completed saves. A crash kills the
process, not the machine. Pages load in three steps and are given an empty history
while the journal is at `begin`.

### HeadlessUndo

Cells are a sequence; `of` says whether a live cell is still the object recorded in
the insertion that made it, because an edit in place then changes the record. `past`
records which kinds of edits have happened, so that properties can be stated for
exactly the behaviours in which they hold (section 5). `before` and `after` are the
notebooks around each recorded operation, a history variable by which the properties say what
undo and redo should give. Ids of a notebook that is read are distinct (`resolveJupyterCellIds`) and one
that has an id twice is not written (`validateJupyterCellIds`): `Distinct` in `Start` and `Reload`.

### HeadlessCache

Two heaps (arrays of cells, notebook objects) make it visible that a run holds the
array it started with and a persist loop the object it started with. `EditCells`,
`UndoEdit`, `StartRun`... run in one turn after the warm-up and the permission
check. `WriteFile` is the store, one save at a time (that is `SavesAreSerial`).

### Autosave

`machine` is the reducer's state, `effects` the `setTimeout(0)`s it asks for,
`timers` the four timers: `ref` is the one the hook remembers, `strays` those it has
forgotten. An action is one macrotask with the render it causes; `Seed`, the effect
that takes over a loaded notebook's cells, is separate since React may run it after
other tasks. `left` (the version of a notebook that was left) and `met` (whether a conflict
was met, and whether its answer mixed two notebooks) are history variables.

### KernelSessions

`procs` is what runs under each process id, `mem` the maps of `KernelService`
(sessions, child handles, sockets, file map, processes whose exit is watched), `rows`
the session store. A request is a task that stops at each `await`: `pc` says at which.
`GetOrCreate`, `Polled`, `StopBegins`/`StopEnds`, `SpawnNew`/`SpawnAgain`,
`Booted`/`BootFails`, `Stamped`, `Restart...`, `Clean...` are the turns between them.
A child that was sent SIGTERM counts as killed, so only processes known by their id
are sent SIGKILL. `Crash` keeps processes and rows; `Listen` precedes
`ReattachBegins`, `ReattachNext`, `ReattachEnds`, as in index.ts:568-613. `past`
says which overlaps have happened: `raced` (a restart with another request about its
session), `several` (a kernel asked for directly or before reattachment, or a second one of
a notebook among those reattached), `lost` (a crash between spawn and row).

### CellRuns

A run is a request to execute a cell. `page` has the queue, the flag `processing`, the
handlers in their order and what each cell shows; `run` how far each request is;
`server` the status, the buffered outputs, the last execution of the chain and the
subscribed sockets; `channel` the bounded queue of iopub messages; `kernel` the requests the
kernel works on. An agent's run goes through the same chain without a page. Outputs of a run
are numbered; `Error` is the message of an exception, `Cut` the error of a run that was cut short,
`Idle` the last message. A hint needs an output to appear under; outputs saved with the notebook are
left out. `Calm` says that the
server reacts to the end of a run before it receives anything else: promises settle
in the same turn.

### Cluster

Job, allocation, token and client-server share a number. `job` is the scheduler's view,
`client` the server's process with the requests it has sent, `registry` the head's list,
`alloc` and `disk` the allocations in memory and in allocations.json, `poll` a poll at its
three `await`s. `Quiet` is a missed heartbeat; `ReceiveRegister` may lose its answer.
`HeadRestarts` keeps `disk` only, with `serverId` cleared (`Reloaded`).

## 3. Runs

Twelve configurations, nine of which have to hold. Every bound is a constant of the
module. Each takes between half a minute and three minutes with two workers.

| Run | Instance | Shows |
|---|---|---|
| `router_agents` | 2 agents, all eleven kinds of operation, 1 cell, 2 contents, 1 page, 3 requests one after the other | types; `AnswersAreTrue`; `OverwritesWereRead` across sessions |
| `router_answered` | 1 agent, 1 page over 2 websockets, slow requests | `EveryRequestAnswered`; `OnlyOwnCloseUnregisters` |
| `store_saves` | 2 requests at a time, 3 in all, every kind that a loaded page and the server send, 1 kill | types; `HistoryNotBehind`; `NothingRolledBack`; `NotebookStore` implements `SerialSaves`; `EverySaveEnds` |
| `undo_edits` | 3 edits of any kind, any undo/redo between, 1 reload, 3 ids, 2 contents | types; `UndoRedoExact`; `HistoryReplays`; `UndoSurvivesReload` |
| `undo_reload` | 3 insertions, a reload | counterexample to `UndoSurvivesReloads` |
| `cache_edits` | 2 requests of agents at a time (edits, undo, runs), a page that edits and saves, writes may fail, `Quiet` | types; `AnswersAreNewest`; `CacheIsTruth`; `EditsInFile`; `FileNeverRewinds` |
| `autosave_saves` | 2 notebooks, 3 edits, 1 failure, 2 manual saves or switches, completions, writes by others, both answers to the dialog | types; `UnsavedIsKnown`; `OwnContents`; `DialogHoldsSaves`; `ChangesAreSaved` |
| `autosave_last_edit` | 2 notebooks, switches | counterexample to `SwitchSaves` |
| `kernel_sessions` | 1 notebook, 2 kernel names of which one cannot be restarted, 3 requests of any kind, 2 at a time, 2 processes, 1 crash, 1 reused id | types; `OneKernelPerFile`; `ReadyIsRecorded`; `StrangersSpared`; `DeathIsNoticed` |
| `kernel_one_kernel` | 3 creates, 1 crash | counterexample to `OneKernel` |
| `cell_runs` | 2 pages, 2 cells, an agent, 2 runs that print or raise once, a channel of 1, 1 message on its way to each page when the next is read, 1 interrupt, break, restart or death | types; `OneAtATime`; `EndComes`; `ResultsInOrder`; `OutputsOnce`; `ResultsToCome` |
| `cluster_allocations` | 1 job, 1 address, 1 page, 2 troubles (lost requests, missed heartbeats, failed commands, restarts) | types; `GivenUpIsOver`; `JobEndNoticed`; `ListSettles`; `PageLearns` |

**Why the bounds are enough to be interesting.** An overwrite needs a read, a session
and a write: three requests, of which a read needs no session. A serial lock that deletes
its map entry goes wrong with three requests (one runs, one waits, one comes later); three
tickets in two slots give that order. A rolled back save needs a reader and a writer in
the same queue. An undo anomaly needs two edits and an undo; three edits give one before
and one between. An edit lost by the persist loop needs two edits around one write.
Timers go wrong with two edits around one save; a third leaves room for a failure and a
retry. Two processes for one file need two requests, a third can stop or restart what the
first two made; a crash needs a process before it and one after. A run that gets another's
result, or runs beside it, needs two runs; a channel of one message is full at the second,
and every run has at least its end to lose. A cluster's parties disagree after one fault;
the second hits the repair of the first. A second job would only add the reuse of an
address, and exceeds what TLC can finish. Counters (`MaxOps`, `MaxTickets`, `MaxCrashes`,
`MaxEdits`, `MaxReloads`, `MaxTime`, `MaxFaults`, `MaxAsked`, `MaxArrays`, `MaxObjs`,
`MaxTasks`, `MaxSessions`, `MaxProcs`, `MaxReuse`, `MaxRuns`, `MaxPrinted`, `MaxOnWay`, `MaxTroubles`, `MaxJobs`)
stop a behaviour; because they do, deadlock checking is off in every configuration.
Where the system itself could get stuck, a property says so instead
(`EveryRequestAnswered`, `EverySaveEnds`, `EditsInFile`, `ChangesAreSaved`, `EndComes`,
`ResultsToCome`, `DeathIsNoticed` and the liveness properties of `Cluster`).

Symmetry is used only where no liveness is checked, on sets of values that the
module treats alike.

**Not covered by these instances**: two requests of agents that overlap in the router, a
batch of two cells of which one is stale, two pages that take the connection from each other
(the theorems hold for any number of each), more than one reload of the undo stack (so do those about
`HeadlessUndo`), kernels of
two notebooks (nothing but the sweep looks at two at once), two allocations (the theorem
about `GivenUpIsOver` holds for any number; two are what its exception `Reused` is for).

**Environment assumptions.** `Quiet` in `cache_edits`: page and agents begin only
when the other side's writes have ended and its edits are on disk. The code does not
enforce this; without it the properties fail (section 5). `store_saves` has no save
without a history, a known divergence, too.

## 4. Fairness and proofs

### Fairness

* `OperationRouter!FairSpec`: the timers of forwarded requests fire
  (`setTimeout`, operation-router.ts:712, 840), and a headless operation completes
  (it awaits files and, for a run, at most `maxWait`). Nothing is assumed of pages,
  sockets, users or agents.
* `NotebookStore!FairSpec`: a request whose predecessor's promise has resolved runs,
  and each file operation ends, well or badly.
* `Cluster!Spec`: timers fire, polls run and take their next step, a request that is not
  lost is received and answered, the scheduler answers at last, and a server that was told
  to end does so within three seconds (index.ts:765). Jobs, nodes and users do as they like;
  the number of faults is bounded.
* `Autosave!FairSpec`: queued effects run, each kind of timer fires, a save is
  answered, well or badly. The number of failures is bounded: for ever failing
  requests save nothing.

### What is proved

The theorems hold for all values of the constants that satisfy the assumptions of the
module: that values that stand for "nothing" are none of the others
(`NoneAssumption`, `ValueAssumption`, `AddressAssumption`, `UnlinkedAssumption`), that the kinds, requests and
inputs of an instance are among those that the code knows (`KindAssumption`, `KindsAssumption`,
`RequestAssumption`, `InputAssumption`), that page and agents name their edits apart
(`EditAssumption`), that bounds are numbers (`BoundAssumption`), and that the
ids of a notebook that is read are distinct (`StartAssumption`). Some have
one hypothesis more, which the table names: the environment assumptions of section 3, or a
single agent.

| Theorem | States | Invariant it rests on |
|---|---|---|
| `TypeCorrect` in each module | `Spec => []TypeOK` | `TypeInv`, `Typed`: type correctness with what makes it inductive |
| `OperationRouterProofs!OnlySeenContentIsOverwritten` | `OverwritesWereRead` | `HashesWereSeen` (`HashesAreSeen`) |
| `OperationRouterProofs!SoleAgentReadIt` | `WriterReadIt`, if there is one agent | the same |
| `OperationRouterProofs!AnswersTrue` | `AnswersAreTrue` | itself |
| `OperationRouterProofs!OnlyOwnClose` | `OnlyOwnCloseUnregisters` | `RegisteredIsOpen` |
| `NotebookStoreProofs!SavesImplementSerial` | `Spec => Serial!Spec`: `SerialSaves` without its fairness | `Chain` |
| `NotebookStoreProofs!NeverRolledBack` | `NothingRolledBack` | `Chain`, `Routed`, `Fresh` |
| `NotebookStoreProofs!HistoryKeepsUp` | `HistoryNotBehind`, if no save is without its history | these and `Journaled` |
| `HeadlessUndoProofs!UndoIsExact` | `UndoRedoExact` | `Numbers`, `InOrder`, `Known`, `Sharing`, `Chained`, `Reversible`, `Repeatable` |
| `HeadlessUndoProofs!HistoryLeadsHere` | `HistoryReplays` | these and `Replays` |
| `HeadlessUndoProofs!ReloadKeepsUndo` | `UndoSurvivesReload` | `Numbers`, `InOrder`, `Known` |
| `HeadlessCacheProofs!AnswersAreKept`, `CacheTrue`, `EditsReachFile`, `NeverRewinds` | `AnswersAreNewest`, `CacheIsTruth`, `EditsInFile`, `FileNeverRewinds`, if `Quiet` | `AgentsTurn`, `PagesTurn` |
| `AutosaveProofs!DialogHolds` | `DialogHoldsSaves` | `OneSave` |
| `AutosaveProofs!CellsStayHome` | `OwnContents` | `Own` |
| `AutosaveProofs!UnsavedKnown` | `UnsavedIsKnown` | `OneSave`, `Tracked` |
| `KernelSessionsProofs!StrangersLeftAlone` | `StrangersSpared` | itself |
| `KernelSessionsProofs!DeathsAreNoticed` | `DeathIsNoticed` | `Fresh`, `OwnHandles`, `Attended`, `OldIsUntouched` |
| `KernelSessionsProofs!ReadyIsOnRecord` | `ReadyIsRecorded` | these and, until something has raced, `Tidy` |
| `KernelSessionsProofs!OneKernelEach` | `OneKernelPerFile` | these and, while `Undisturbed`, `Single` |
| `CellRunsProofs!TurnsAreKept` | `OneAtATime` | `Requests`, `Chained`, `Connected`, `AtKernel` |
| `CellRunsProofs!EndsAreReached` | `EndComes` | these and `EndAhead` |
| `CellRunsProofs!ResultsKeepOrder`, `ResultsAreToCome` | `ResultsInOrder`, `ResultsToCome` | these and `Flows` |
| `CellRunsProofs!OutputsAreShownOnce` | `OutputsOnce` | these and `Displays` |
| `ClusterProofs!GivenUpOnlyWhenOver` | `GivenUpIsOver` | `Submitted`, `EndsKnown`, `Running` |

Each invariant is inductive together with type correctness, and the proof that a step
keeps it has one lemma or one case for each action or group of actions.

*Router.* `TypeOK` is not inductive by itself: an update stores its content as a hash, so
`TypeInv` adds that requests that carry a content carry a real one (`WellFormed`).
`OverwritesWereRead` speaks of the step in which an applier compares hashes; it
follows if every hash in the system stands for something an agent saw. Hashes
travel: from a result into the lock or into the pre-session store, from the store
into the next lock, from the lock onto a request, and from the request's result
back. `HashesWereSeen` says it of all those places, and that a destructive
collaborative request is stamped for each cell it addresses. The proof rests on the fact
that `seen` only grows (`GrowsKeeps`) and ends with `DestroysOnlySeen`: an outcome that
removes a content had passed the comparison with a stamped hash.

*Store.* The write lock is a chain of promises. `Chain` says that it is a queue: requests
wait for the one before them, nobody waits for the same one as another, and the tail is the
last. Hence one request is at work, and mutual exclusion, order and what a kill
forgets are the steps of `SerialSaves` under the refinement mapping. While a request
is at work nobody else writes, so what it has read is still the file (`Fresh`), which is
`NothingRolledBack`; and its begin record is in the journal until history and cells are
there (`Journaled`), which is `HistoryNotBehind`.

*Undo.* A recorded operation has a number, its place in `before` and `after`. `Numbers` and `InOrder`
say that the undo stack goes up in numbers and the redo stack goes down above it. `Known` says that an
operation stands in the history, recorded and not undone there, exactly when it is on a stack; it holds
while every undo in the history says what it undid, and makes a rebuilt stack the one there was.
`Makes(v, op, w)` is what applying an operation by position does to the notebook that is shown, with ids
distinct where ids are looked up. `Reversible` and `Repeatable` say that each operation on a stack or in the
history, as it is recorded now, leads from the notebook before it to the one after it and back; `Chained`
says that neighbours on the stacks meet in the same notebook and the notebook on
the page lies between the tops. Then `UndoRedoExact` is a step along the chain. An edit in place that
reaches into a recorded insertion would break `Repeatable`: `Sharing` says that there is no shared cell
before the first insertion, which with `NoSharing` keeps the two apart. `Replays` says that there is a sequence of notebooks, one more than
operations in the history, that begins with the first notebook, in which each operation makes the next
from the one before, and that ends where the redo stack would lead. What a
recorded edit appends for the undos it abandons walks back down the redo stack, so the
sequence goes on to the notebook of the edit. The stack that is rebuilt is a filter
of the history; what the filter keeps, and that two increasing sequences of the same
numbers are equal, is shown by induction on numbers as for `Results` below.

*Cache.* Under `Quiet` the agents' turn and the page's turn alternate, and `IInv` is a
disjunction of two descriptions: what cache, running cells, persist loop and file hold
while agents work, and what the page shows and sends while it works. The turns change only
when everything has settled, in which case both descriptions meet in `Rest`. Arrays are
shared and edited in place (`headless-handler.ts`), so type correctness here also says that
every index is that of an array that exists and that an operation's cells are edits in use.

*Autosave.* `OneSave`: at most one call of `onSave` is in flight, the flag `saving` says so,
and none while the dialog is open. `Own`: what is on disk, on the page, in a save and in
the dialog belongs to the notebook it is held for. `Tracked`: until a conflict or a switch the
page is dirty exactly when it differs from the baseline, and the baseline is no newer than the
file and than any save in flight.

*Kernel sessions.* A session's child is nobody else's (`OwnHandles`), sessions that do not
exist yet have nothing (`Fresh`), what an earlier server left is untouched until the loop gets
to it (`OldIsUntouched`), and a session with a child has its process id and hears of its end,
unless a stop or restart is about to take it (`Attended`). `DeathIsNoticed` follows.

For `ReadyIsRecorded` the requests have to be described too, which `Tidy` does as long as nothing has
raced: a session that answers has its row (`SessionOK`), the kernel of an active row that runs is
its session's (`RowOK`), and the loop leaves a row active or terminated (`Placed`, `BootOK`). A
request that waits for a kernel is the only one that does so for its session, which has
the process it waits for or that process was told to end (`Raising`); one that restarts has no
other beside it but clean-ups of a session that is gone (`Alone`), and has given up the process of the row
before the new one is spawned (`Renewing`). `Frame` says that sessions a step leaves alone
stay right with their requests; each action is then about one session. A restart that
overlaps with a request breaks `Renewing` or `Alone`, which is what `raced` records.

`OneKernelPerFile` needs notebooks too: `Single`. Every process that goes on has a home
(`Homes`): a live session, or a row that the loop will get to. A notebook has one process
and one live session, and the file map says that one or nothing (`OneSession`, `OneProcess`,
`Mapped`); a row that is left has a process only if its notebook has no session yet
(`LeftAlone`). A create in flight is the only one of its notebook and knows of no live session
but its own (`OneCreate`, `CreateFine`), so its process is the first; a restart has given up the
process of its session before it spawns the next (`RestartFine`); and a session that is
starting is started by somebody (`Started`), or a request that finds it would wait for ever or stop it.
`Settled` is kept by every step that starts no process and enters no session (`SettledFrame`),
`RequestsFrame` keeps the requests that a step is not about; what is left are the two spawns, the
loop's entry of a session (`EnteredSingle`) and the crash (`CrashSingle`), which leaves to the rows
what the sessions had. Writing the invariant showed a hole in an earlier form of the
property: a restart that fails leaves the active row of its dead session, and with enough
sessions and crashes the next server reattaches it beside the notebook's newer one. That is one
of the overlaps that `several` records now (section 5).

*Cell runs.* `Chained` says that there is a sequence of executions that contains exactly
those that have not ended, in which each waits for the one before, all but the first are queued,
and the tail of the session is its last member unless a restart has emptied it; while the
session is disconnected by a restart the old chain fails link by link, and `Calm` keeps new
executions out until it is empty. Two executions that run, or may begin, are then both the head
(`OneHead`). `Requests` says that a request on its way was asked once, so that an execution
does not enter the chain twice. `EndAhead` counts: a running execution is at the kernel, or its
end lies in its channel with no more messages behind it than threads have printed late. A
push into a full channel drops the first message, so the end can only be lost when a whole
channel of late messages lies behind it.

`Flows` is about a page that has not been dropped. Without a connection nothing is on its way
and nothing in progress (`Joined`, `Idles`); its handlers are those of its own runs, and no more
than the results on their way and to come (`Owned`, `Enough`); what it processes has a handler or
waits (`Busy`); and while it alone has runs, its handlers are the results on their way followed by the
executions of the chain and the requests sent, in that order (`Ordered`). The results among
the messages on a socket are a recursive function of their number (`Results`); what it gives for
a sequence that a message was appended to or taken from is shown by induction on the length
(`Induction`, from well-founded induction in the library for sets of numbers).

`OutputsOnce` speaks of a page at rest; `Displays` says of every state what will be shown once
all that is on the way has arrived. `Fresh` is the set of outputs that can still come: the kernel may
still print them, they are in a channel, or the run may still fail. What is buffered is there
once and is not fresh (`Stored`). Of each page, whatever it has been through, `Once` says that its messages
bring no output twice, none that it has and none that is fresh: an output that a synchronization
brings is not sent again, since a socket gets outputs only from its synchronization
on (`Listens`). If the page gets outputs, each one that is buffered is in every synchronization on its
way or behind it (`Caught`), and if it makes all or none of the runs, each is collected, shown or on its
way (`Reaches`). A handler collects outputs apart and its cell then shows just those, which could hide what
was shown or take another run's output; so a page that makes all the runs needs three more: an output is
of the first handler once the results before it have been taken (`Follows`), none comes
after its run's result (`Line`), and a cell's buffer is that of the last of its runs that has begun
(`Behind`). `Follows` and `Behind` lean on `Flows`: an output that is sent is of the run whose
turn it is, and that is the first handler with no result on its way (`TurnIs`). The lemmas first say what
taking or sending a message does to each part (`OnceTaken` to `ReachesResult`), then to their conjunction
(`FineKept` to `FineUntold`), and then there is one for each action.

*Cluster.* Whatever makes an allocation terminal (a poll's answer, a cancellation, the state
file after a restart of the head) has its job over or excused in `spared` (`EndsKnown`); jobs
that are over do not run again, and a server or a page's kernel that lives has a job that runs
(`Running`). The property asks for the page's reason at the step in which it gives up, for a cause the
proof brought up: a page that has given up a live kernel because another allocation had its address stays
so, while the head can forget that allocation in a restart.

### What is only model-checked

* Liveness: `EveryRequestAnswered`, `EverySaveEnds`, `ChangesAreSaved`, `JobEndNoticed`,
  `ListSettles`, `PageLearns`, and the fairness of `SerialSaves`. The prover does not
  handle fairness and ENABLED.

Every safety property that a passing run checks is stated by a theorem.

## 5. Known divergences

Behaviours of the code that differ from what a comment or a document says. Each is
in the models as the code has it. Three are shown by a run of their own; the others
are why a property has a guard, or why it is not stated.

Shown by a run:

* `undo_reload`: an undo is journaled by the next recorded edit only. After a reload in
  between, the operation is on the undo stack again and undoing it removes another
  cell (`undoRedoManager.ts:414`; README.md:20 "journaled to disk and surviving reloads").
* `autosave_last_edit`: `saveNow()` before a switch (`components/Notebook.tsx:2399`) only
  dispatches; the effect finds the other notebook already seeded and saves nothing.
* `kernel_one_kernel`: the server listens before it has reattached its kernels
  (`index.ts:568`, `:613`). A notebook that asks for its kernel in between gets a second
  process, and the loop then maps the file to the first (`kernel-service.ts:511`; `:1445`
  "one notebook = one kernel").

Router:

* The hashes of any agent's read arm the lock holder (`operation-router.ts:612`), so
  with two agents the writer need not have read the cell itself: `WriterReadIt` is
  stated for one agent, `OverwritesWereRead` for several.
* An operation in progress when its session ends is applied under the next agent's
  lock (`:503`; comment at `:600` "single writing agent").
* `insertCells` answers `insertedIds`, the router looks for `cellIds` (`:636`): an
  agent's own cells count as unread.
* A page with a session badge ignores a further start without force
  (`useOperationHandler.ts:1374`), and one that connects later is not told: an exclusive
  session does not always lock the page.

Store:

* A bundle whose cells are refused (`needsFull`) still commits its history
  (`fs-service.ts:1656`): the history may be ahead of the cells.
* A power loss may undo the unflushed journal and history but not the notebook (`:1644`);
  only kills of the process are modelled.
* A save without history completes the journal of an interrupted bundle (`:1646`) and
  makes an uncommitted history visible.
* A page that loads while another save is being committed is given an empty history
  and may save it (`:2094`, `components/Notebook.tsx:2431`).
* A change of settings writes back the permission it read before it queued
  (`routes/notebook.ts:405`): allowed in `NothingRolledBack`.

Undo:

* A cell and its recorded insertion are one object (`headless-handler.ts:738`): guard
  `NoSharing`.
* A changed id is recorded under the new id (`:805`): guard `NoRename`.
* `deleteCells`, `insertCells` and `duplicateCell` record nothing (`:1317`): guard `Tracked`.
* Loaded operations have no id, so undoing them is not linked and a second reload brings
  them back (`undoRedoManager.ts:336`): guard `AllLinked`, and `Tracked` excludes such a reload.

Cache:

* A warm-up installs what it read before a page's save (`headless-handler.ts:134`), and an
  agent's bundle can replace a page's save that is on its way when the page closes
  (`:203`): `Quiet`.
* A run puts back the array it started with (`:1668`), undoing an undo: guard
  `NothingPutBack`.
* Outputs of a cell that outlives `maxWait` are not scheduled for persisting (`:1685`), and
  a failed save is not repeated (`:201`): guards of `EditsInFile`.
* After an invalidation, an edit may leave its persisting to a loop that writes the
  dropped object (`:192`): `Quiet` again.

Autosave:

* A manual save cancels the timer of a put-off save and the machine stays in `saving`
  (`useAutosave.ts:389`): `HeldSaveCut`.
* A save skipped because one of another notebook is under way leaves the machine idle
  with changes (`:246`); a save that returns after a switch makes its cells and its time
  those of the open notebook (`:268`, `useConflictResolution.ts:124`), so the loaded
  notebook reads as changed, a write by others goes unnoticed, and a notebook opened
  again during its own save can be rolled back. Hence `Undisturbed` in `UnsavedIsKnown`
  and `ChangesAreSaved`.
* After a conflict the unsaved cells are the baseline; if keeping them fails, nothing
  retries (`useAutosave.ts:268`, `components/Notebook.tsx:4490`): `Undisturbed`.
* Check and save are two requests (`conflictService.ts:88`): a write in between is lost.
* `loadRemote` of a notebook that is no longer open fills the open one
  (`useConflictResolution.ts:184`): `met = "mixed"`.

Kernel sessions (`kernel-service.ts`):

* A restart sets `starting` without a new time of activity: a request soon after the
  restart of a session that was quiet for two minutes stops it as stuck (`:1490`), and the
  process that the restart spawns belongs to nobody. Stops and restarts that overlap leak
  the new process in the same way, a sweep in the gap of a restart drops the session, and a
  create that overlaps with a restart writes a row with the old process id: `raced`.
* The wait for a starting kernel of another name starts a second one without stopping the
  first (`:1501`), and `POST /kernels/start` does not look for a kernel of the file: `several`.
  Requests that share a create in flight get its kernel whatever name they asked for (`:1457`).
* `if (!proc.killed)` is false after SIGTERM was sent, so SIGKILL is never sent to a child
  (`:2101`): modelled in `StopEnds`.
* A restart of an `env:` kernel looks for a kernelspec of that name (`:2427`) and ends in a dead
  session: `Unregistered`.
* A restart that gives up (`:2409`, `:2429`) leaves the row of its dead session active. The next
  server orphans and reattaches it, if its process id is in use, beside the session that the notebook
  got in the meantime: both are live, the file map has the later one, and a create after the stop of
  that one finds the other or starts a third: `several`.
* Cleaning up a row that is just being reattached kills the kernel (`:2649`): `raced`.
* A stop of a session known by its process id alone does not check whose it is (`:2110`): excluded in
  `StrangersSpared`. Nor does the SIGKILL 500 ms after a checked SIGTERM (`:2194`), of which
  `StrangersSpared` says nothing. A crash between spawn and row loses the process: `lost`.

Cell execution:

* A result is broadcast without the id of its request and settles the first handler of each page
  (`services/kernelService.ts:635`, `routes/kernel.ts:248`): with two pages that run cells, one
  cell gets the result of another's. `Alone` in `ResultsInOrder`.
* A result that is missed while disconnected leaves its handler, and the page processing, for ever;
  only an interrupt helps: `dropped` in `ResultsToCome`. A reconnect while a request waits for the
  synchronization forgets it (`services/kernelService.ts:394`); a send on a socket that is gone leaves
  its handler behind (`:671`).
* A page that reconnects during a run of its own loses outputs: the outputs it has collected
  since replace the synchronized ones (`Notebook.tsx:3967`). One that watches a cell run again gets
  the outputs appended to the old ones (`:2089`).
* After the death of a kernel, the run that was cut short ends with "idle", and the page that was told
  "dead" takes the kernel for ready again (`routes/kernel.ts:249`, `Notebook.tsx:1759-1771`: "Stop
  pretending"). The branch "Kernel died during execution" (`kernel-service.ts:1802`) is not reached.
* An interrupt clears the page's queue while the run goes on; its late result then removes
  from the queue what was added since (`Notebook.tsx:3374`).
* Runs by an agent are neither streamed nor announced as idle: a page that connects during
  one shows it executing.
* A thread's late output can push the last message out of a full channel (`kernel-service.ts:94`): excluded
  in `EndComes`. A failed restart tells no page.

Cluster:

* A job that is preempted has the state "unknown" (`slurm-scheduler.ts:47-58`): its allocation is polled
  for ever. `Over` leaves it out.
* A cancellation is final even if `scancel` fails (`allocation-service.ts:218-232`), so that a page is
  told 410 of a live kernel although `routes/kernel.ts:793-799` speaks of a confirmation by squeue:
  `spared`.
* A restart of the head clears the server of each live allocation (`allocation-service.ts:132`). If the job has
  ended meanwhile, the allocation ends without a server, no page is answered 410 and each
  reconnects for ever, contrary to `services/kernelService.ts:990-992`. So does a server that ends before
  the poll has met it. `PageLearns` is stated for allocations with a server on record.
* An address that is used again: the late end of the old allocation evicts the new server, or
  answers 410 for its kernels. `Reused`.
* A registration in flight when its server unregisters lists a dead server until the health
  check; a crash between submission and record loses the job; polls that overlap may set an
  allocation that was cancelled to ended; several retry timers may run and one is cleared.
* A proxied session that is unknown to its server is answered 500, not 404: the page never makes a new one.

## 6. Not modelled

`PROJECT.json` lists every component with its status. Left out on purpose: wording
and layout of messages, text formats, rendering, authentication, terminals,
environment discovery, provenance documents (validation and hashing), the proxy's
bytes, the parsing of squeue and sacct. The circuit breaker of `packages/mcp` is exported
and used by nothing. The undo of the page repeats the server's with keyframes and batches.
Within the modelled components: widgets and comm messages, completion, metadata other than
the id and the permission, batches (the server records none), `createNotebook`, renames of
files, the half-second tolerance of the modification time, keyframe grouping of typing,
power loss, the choice of a default kernel, the local scheduler, retry back-offs of the page.

## 7. Plan

In this order; the most important behaviour first. The configurations stay at a dozen so
that all of them can be run after a change: a new question joins an existing
configuration where the instance allows it.

1. *(done)* `OperationRouter`, its runs and its theorems; `NotebookStore` over
   `SerialSaves`; `HeadlessUndo`; `HeadlessCache`; `Autosave`.
2. *(done)* `KernelSessions`, `CellRuns`, `Cluster`.
3. Proofs *(done)*: all type invariants; the refinement of `SerialSaves`; the safety properties of
   the router, the store, undo, the cache, autosave, the cluster, `KernelSessions` and `CellRuns`.
4. `PageUndo` (lib/undoRedoCore.ts, hooks/useUndoRedo.ts): keyframes and batches, and
   the history the page saves; compared with `HeadlessUndo` over the same operations.
5. `NotebookCore`: `HeadlessCache` over `NotebookStore` instead of its atomic writes.
