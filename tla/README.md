# chgraph in TLA+

chgraph keeps a code graph of one repository in an embedded ClickHouse (chdb)
and answers questions about it. One daemon process per project owns the store.
An index job builds a *generation* of the graph under a fresh identity
(`project@uuid`) and publishes it by inserting one pointer row; queries resolve
the pointer first. Clients (a CLI and an MCP shim) talk to the daemon over a
unix socket.

This directory holds TLA+ models of that system, configurations that check them
with TLC, and machine-checked proofs (TLAPS). Paths such as `daemon.py` are
under `src/chgraph/`.

## 1. Inventory

| Part | State it keeps | Operations | What is hard | What makes it correct |
|---|---|---|---|---|
| Generation store: `generations.py`, `store.py`, `schema.py`, the `wipe` of `daemon.py` | eight tables, pointer rows in `meta`, a durable log | load, publish, prune, wipe, open | each statement may raise, with or without its effect; a kill between any two; the durable log lags behind the session | readers see only whole generations; a reported publication survives; a clean-up removes all that is obsolete and nothing that is not |
| Daemon: `daemon.py` | `_index_lock`, `_index_thread`, `_index_cancel`, `_stop`, the worker's queue | `index`, queries, `delete_project`, `shutdown`, the job, `serve` | executor threads, job thread, worker thread and event loop interleave; shutdown races all of them | one writer at a time; status and graph agree; no request lost; shutdown ends |
| Status file: `status.py` | `status.json` | atomic write, read | outlives the process; several writers | says what is true |
| Native indexing: `indexer.py`, `gitingest.py`, `evolution.py` | none | parse, load, Git counts, metrics | order of deletes and inserts | loads exactly its rows; degrades when counts differ |
| CodeGraph import: `codegraph_import.py` | a child process, a snapshot | extract, validate, write | cancellation, deadline and exit of a process group race | nothing partial is written; unverified edges are quarantined |
| Process lifecycle: `cli.py`, `daemon.py` | socket, pidfile, the store's lease | start, stop, status, restart | two daemons at once, a pidfile that changes hands | at most one owner; a running daemon can be reached |
| Client and shim: `client.py`, `shim.py` | none | call, reconnect | time-outs, lost daemons | no call is repeated that changes state |
| Traversal: `traverse.py`, `context.py` | none | `trace_path`, `bounded_walk`, `explore`, `impact` | depth, visited and size limits at once; stale sources | simple paths, honest truncation, no text from a changed file |
| Search: `search.py`, `text.py`, `embeddings.py` | none | ranking, pages | floating point | stable pages |
| Parser: `parse_python.py` | none | symbols and calls of a file | scoping | calls resolve to the right definition |
| Evaluation: `eval/` | run files | runner, judge, report, ranking | resuming a run | - |

Interaction: a handler runs in the event loop (`ping`, `status`,
`list_projects`, `shutdown`) or in an executor thread (all others). Everything
that touches the store is a closure put on the worker's FIFO queue; the caller
waits on its future. An index job is a thread of its own that extracts, submits
one closure (load and publication together) and writes `status.json`. `serve`
closes the listening socket, drains connections, cancels and joins the job,
stops the worker and unlinks its files.

The hazards of this code, each with its line and the properties aimed at it,
are listed in `PROJECT.json`.

## 2. Modules

| Module | What it is |
|---|---|
| `PublishedGraph` | Abstract specification: what a reader may see of the published graph, now and after a restart. |
| `GenerationStore` | The tables and the closures that write them, one SQL statement per step. Implements `PublishedGraph`. |
| `MCGenerationStore` | Small instances of it. |
| `GenerationStoreProofs` | Theorems about it, for all values of the constants, among them that it implements `PublishedGraph`. |
| `Daemon` | Handlers, job thread, worker, `serve`, `status.json`, kill and restart; the graph its closures act on is `PublishedGraph`. |
| `MCDaemon` | Small instances of it. |
| `DaemonProofs` | Theorems about it. |
| `DaemonLifecycle` | Several daemon processes and several terminals that start, stop and restart them, over lease, socket and pidfile. |
| `MCDaemonLifecycle`, `DaemonLifecycleProofs` | Scripts of commands for it, and theorems for any scripts. |
| `BoundedWalk` | `bounded_walk` of `context.py`, row by row. |
| `TracePath` | `trace_path` of `traverse.py`, iteration by iteration. |
| `MCBoundedWalk`, `MCTracePath` | The graphs they are checked on. |
| `BoundedWalkProofs`, `TracePathProofs` | Theorems about them, for all graphs. |
| `Context` | `explore` and `impact` of `context.py` and `op_snippet` of `daemon.py`, read by read, while files are edited. |
| `MCContext`, `ContextProofs` | Its instance, and theorems for any graph and files. |
| `ParsePython` | Name resolution of `parse_file`, the search for shadowed parameters, and Python's own scoping, as operators on a file. |
| `Extraction` | How a job gets its graph: the native parser, or CodeGraph's two commands with their process groups, then the database they leave. Uses `ParsePython`. |
| `MCExtraction`, `ExtractionProofs` | Its files and processes, and theorems for any syntax tree and any helpers. |
| `Recursion` | Induction and recursion over the naturals, as lemmas the proofs cite. |

`GenerationStore` and `Daemon` meet in `PublishedGraph`: the first shows that
the SQL implements it, the second uses its actions (`Graph!Begin`,
`Graph!Publish`, ...) as the effects of the closures the worker runs. The daemon
is thereby checked against the outcomes the store really has, failures and
half-done deletes included, without repeating its statements. `Context` uses
`bounded_walk` by what `BoundedWalk` shows of it: complete to its depth, or cut
and marked.

### How `GenerationStore` corresponds to the code

- `mem` is what the open session shows, `disk` what reopening it would show.
  `rows[i][t]` counts the INSERT statements of table `t` executed for identity
  `i`; `Batches` says how many a complete load has (`_batch_load` sends 1000
  rows per statement). The snapshot row CodeGraph puts into `meta` counts as a
  table of its own; `pointers` are the rows of `meta` keyed `active_project`.
- A statement that returns is `Returns`; one that raises is `Raises`: the
  effect may or may not be there, because in durable mode `Store.exec` runs the
  statement and then flushes the log, and either can fail, and because
  `delete_rows` may give up waiting for a deletion that goes on. In durable mode
  the log may then lag behind the session, until a later statement flushes it.
- `BeginLoad`, `InsertBatch`, `Checkpoint`, `InsertPointer`, `Seal`, `Prune` are
  the statements of the closure `load` in `_index_job` followed by
  `publish_generation`, in the code's order. A raise before the clean-up leaves
  the closure (`Aborts`); a raise in the clean-up is caught there and the job is
  reported `degraded` (`Reports`).
- `BeginWipe`, `Truncate`, `WipeMeta` are the closure `wipe`.
- `Crash` is a kill and the opening of the store by the next daemon;
  `MergeMeta` is ClickHouse merging parts of `meta` on its own.
- `torn` is a history variable: a wipe has truncated a table and has neither
  finished nor been followed by a publication.
- Statements that change nothing (SELECT, OPTIMIZE, a deletion that matches no
  row) are part of the step that follows them. `Seal` may raise only in durable
  mode, because a local checkpoint does nothing.

### How `Daemon` corresponds to the code

- `req[r]` is where the handler of connection `r` is, `lock` is `_index_lock`,
  `thread` and `job` are `_index_thread` and where each job's thread is, `queue`
  and `worker` are `SessionWorker`, `cancel` and `stop` the two events, `main`
  the coroutine `serve`, `status` the content of `status.json`.
- `Connect` is a connection the server accepts, `Arrive` what `readline()`
  returns on it: a request, or nothing from a client that hangs up. A client may
  also stay silent.
- `op_index` is `IndexChecksStop`, `IndexLocks`, then `Coalesce` or
  `ClearCancel`, `WriteQueued`, `StartThread`; other threads may step between
  any two. `op_delete_project` is `DeleteArrives`, then `DeleteRefused` or
  `DeleteSubmits` and `DeleteAnswered`, which hold the lock while the worker
  wipes. A query is `Query` and `QueryAnswered`.
- `_index_job` is `JobRuns`, `Extract` (CodeGraph only), `JobSubmits`,
  `JobReports`, `JobEnds`: between its last status write and its end a thread
  is still alive to `is_alive()`.
- Publication inside the load is two steps (`LoadPublishes`, then `LoadReturns`
  or `LoadRaises`), because readers are on the new graph from the pointer's
  insertion on, while the closure may still raise. A wipe may cut
  (`WipeCuts`) before it returns or raises.
- `serve` after shutdown is `CloseServer`, `Drained`, `Joined`, `StopWorker`,
  `WorkerStopped`, `Exit`. Python 3.12, which the project requires, waits for
  open connections when it leaves `async with server`; that is `Drained`. The
  5 s join and the 30 s wait for the worker are allowed to expire at any time.
- `Dies` ends every thread where it is; `status.json` and what the store kept
  remain. `Restart` starts a new daemon, which keeps the status it finds.
- `StatusRaises` is a `write_status` that fails and leaves the file as it was
  (it writes another and renames it). If it is the one that reports the end of a
  job, the job's thread dies without a report (`ReportRaises`); that job is
  `silent`.
- `Fresh` holds the identifiers that no job has. `uuid4` may return any of them;
  they are interchangeable, so the one `CHOOSE` picks stands for all.
- `cut` is a history variable: a wipe began, and no status was written since.
- The status `indexed` stands for `degraded` too: both say that the generation
  is published.

### How `DaemonLifecycle` corresponds to the code

- `pc[d]` is where process `d` is between `run_daemon` and its exit, `lease` the
  process whose worker has the store open, `sock` and `pidfile` the process that
  the files at the project's paths lead to. Nothing else is shared.
- `Opens`, `Refused`, `ClearsSocket`, `Binds`, `WritesPid` are the lines of
  `Daemon.__init__`, `run_daemon` and `serve` that come before serving;
  `ClosesStore`, `Joins`, `Unlinks`, `Exits` those after it. `asyncio` replaces
  a socket file at the path it binds, so `Binds` has no guard. On Python 3.12,
  the oldest the project allows, the file stays when the server closes.
- `cmd[t]` is where terminal `t` is in `daemon_start` (`pinging`, `waiting`) or
  `daemon_stop` (`asking`, `polling`); `script` says what it runs. The shim
  starts a daemon as a terminal does.
- A poll of 10 s is long enough for a daemon to come up, to be refused or to
  get a signal, and may be too short for it to shut down (`StopKills`). Without
  the first a start may fail on any slow machine, and nothing could be said.
- `disturbed` is a history variable: a daemon went down while a start waited.
- A pidfile is written in one step, identifiers are not reused, and a process
  that was sent a fatal signal takes no further step. An uncaught
  `ProcessLookupError` in `daemon_stop` (`cli.py:78`) is left out.

### How `BoundedWalk` and `TracePath` correspond to the code

- Names are numbers in `BoundedWalk`, because the query orders edges by name,
  and arbitrary in `TracePath`. `calls` is the set of CALLS edges that `FINAL`
  shows; the arguments vary over `Init`.
- `BoundedWalk`: `Query` is a round's SQL statement with its `LIMIT`, `TakeRow`
  the loop's body for the next row in order, `EndRound` and `Finish` the ends of
  a round and of the walk. The insertion order of `edges` is not kept.
- `TracePath`: `last` holds the rows of the last iteration of the recursive
  query, `Extensions` its second SELECT.

### How `Context` corresponds to the code

- `disk` is what the files hold, `hash` what the published graph was made from,
  `manifest` the `File` nodes `graph_freshness` finds: none when there are more
  than 10000. `Edit` writes, deletes or restores a file before any read of the
  request. `Reindex` can come only between the two halves of `op_snippet`, since
  one closure of the worker runs at a time.
- `explore` is `Search` (matches, page, walk), then `NoManifest`, `OutOfBudget`,
  `Compare` and `AllCompared`, which are the lines of `graph_freshness`, then a
  `ReadNode` for each node and `Compose`. `impact` is freshness and `Affected`.
  `op_snippet` is `SnippetRow` and `SnippetReads`.
- A content is a model value, and comparing hashes is comparing contents. Any set
  of symbols may match a query. `content` is what was read of a file:
  `explore` reads each file once and serves what it judged.
- With a short answer `max_chars` left no room for some pieces. Which ones it
  leaves is not modelled: the answer is then marked and every property holds for
  each part of it.
- `unseen` is a history variable: the files that have not been as indexed at any
  moment since the request began.

### How `ParsePython` and `Extraction` correspond to the code

- A file is a sequence of the syntax nodes that matter to names, parents first:
  scopes, binders and calls of a bare name. `header` is a call in a default, an
  annotation or a base, which Python evaluates outside of what it heads.
- `module_defs`, `imported`, `param_names`, `body_local_names` and `local_names`
  are the sets `parse_file` builds, under its names; `NativeCalls` the calls that
  get an edge. `Resolves` is Python: the scope whose binding a call means.
- `Shadowed` is `_shadowed_parameter_calls`. `Table` is how it finds the symbol
  table of a scope: by kind, name and line (`Alike`), among the children of the
  table it is in; a generator expression may share one, the others may not, and a
  scope that finds none makes the file unanalysable (`Unmatched`, the
  `ValueError`). Nodes come in the order in which the code visits them; `place`
  is their order in `symtable`, which differs for defaults, annotations and dict
  comprehensions. `Masked` are the targets a comprehension has collected when the
  visit reaches the call, `Skipped` the treatment of classes, `IsFree` what
  `symtable` says, and `Ends` where the search stops.
- List, set and dict comprehensions have no table of their own (`listcomp`):
  Python 3.12 compiles them into the scope around, whose table may then have
  their names (`Merged`). The project requires 3.12; this part is modelled from
  PEP 709.
- `Start`, `Poll`, `Wait`, `Terminate`, `Grace`, `Kill` and `Reap` are the lines
  of `_codegraph_command`. `live` are the processes of its group, `pipes` those
  that hold its output open, which is what `communicate()` waits for. `Forks` and
  `Exits` are CodeGraph, modelled from how it is used: a launcher that may start
  helpers, end before them, and ignore SIGTERM.
- `Cancel` is a shutdown, `Deadline` the command's time-out.
- `ReadSnapshot` is `_read_snapshot` and the checks of `prepare_snapshot`, by
  their outcomes: any resolution of the calls, an invalid database, a file edited
  since, a file Python cannot analyse. `Prepare` is the rest of
  `prepare_snapshot` and the relationships of `write_snapshot`.
- Assumed: helpers stay in their launcher's process group, and its number is not
  used again between reaping and the last signal.

## 3. What the runs check

| Run | Instance | Shows |
|---|---|---|
| `store_local` | two native loads, one CodeGraph load, three raising statements, one kill, local storage, with and without rows an older build left | `TypeOK` (with: no INSERT executed twice), `PublishTakesEffect`, `CleanupIsComplete` |
| `store_durable` | the same with durable storage and two raising statements | `PublishedIsWhole`, `ReportedSurvives`, `RetainedLosesNothing`, `ImplementsPublishedGraph` |
| `daemon_safety` | two index requests, a query, a delete, a shutdown, two jobs, silent clients, durable storage, one kill, one restart, one failing status write | `TypeOK`, `OneWriter`, `CancelIsFinal`, `NoRequestIsLost`, `IndexedIsServed`, `CoalescedToLiveJob` |
| `daemon_liveness` | two index requests, a delete, a shutdown, two jobs, silent clients, one failing status write | `RequestsEnd`, `JobsReport`, `ShutdownEnds` |
| `stale_running` | one index request, a kill, a restart | counterexample to `RunningIsRunning` |
| `lifecycle` | three scripts: one terminal runs start, restart, stop, start; three start at once, one of them twice; three stop one daemon; two kills, four processes | `TypeOK`, `RunningIsFound`, `StartsSucceed`, `StoppedIsReleased` |
| `lifecycle_orphan` | one terminal stops while another starts | counterexample to `RunningIsFound` |
| `bounded_walk` | graphs of three and four symbols, three lists of entry points, depths and limits below, at and above their bounds | `TypeOK`, `PathsAreCallPaths`, `EdgesHaveEnds`, `WithinLimits`, `HonestTruncation` |
| `trace_path` | the same graphs, every start, both directions | `RowsAreSimplePaths`, `FindsEverySimplePath` |
| `context` | two files with two contents each, three symbols, a module that calls at top level; edits at any point | `TypeOK`, `SourceIsIndexed`, `EvidenceIsFresh`, `EvidenceHasSources`, `HonestAnswer`, `SpansCoverOnce` |
| `extraction` | some 6400 files for the native parser, which `QuarantineIsExact` looks at too, three for CodeGraph; a launcher and a helper, a shutdown and a deadline at any point | `TypeOK`, `NoSurvivors`, `CommandEnds`, `NativeResolution`, `QuarantineIsExact`, `EvidenceIsAccounted`, `IdentitiesAreUnique` |
| `hidden_parameter` | one file with a class inside a class | counterexample to `ParametersAreQuarantined` |

What the less obvious properties say:

- `IndexedIsServed`: a status `indexed`, with no wipe cut short since, names the
  generation that is served, now and after a restart. A status that could not be
  written, a wipe queued behind a load and a kill in between are all in the run.
- `NoRequestIsLost` and `CancelIsFinal` are about the order of `serve`: nothing
  is queued behind the worker's sentinel, and no late request clears the event
  that cancels the job.
- `EvidenceIsFresh`: files are compared one after the other, so they need never
  have been as indexed all at once; each has been at some moment of the request.
- `HonestAnswer`: an unmarked answer has every match, every edge of the walk and
  every line of each node. Five reasons to leave something out must each mark it.
- `NativeResolution` says in which cases the parser's sets agree with Python's
  scopes. It leaves open what the code does not look at (see below).
- `QuarantineIsExact` is about the calls whose scopes are told apart by line and
  name (`ToldApart`), in files that can be analysed. The search misses those
  behind a class (`BehindClass`, see `hidden_parameter`) or behind a scope with a
  comprehension that binds the name (`BehindInlined`), and no others. It finds a
  call that is no parameter's only if the call comes before the target of its
  comprehension (`BeforeTarget`: as in `[a for a in b if f() for f in c]`). Without any
  one of the four exceptions TLC finds the property violated.
- `EvidenceIsAccounted`: what is not told apart is still quarantined or evidence
  exactly once; only that a parameter's call is no evidence has the exceptions.
- `CommandEnds` has two parts: a shutdown, or the deadline, ends a command whose
  processes never do.

Bounds, and why they are enough:

- `Native`, `Codegraph`: three generations are what the retention rule needs
  (one active, one retained, one obsolete), of both sources because their loads
  differ in tables.
- `MCBatches`: two statements for `nodes`, one for the others, so that a table
  can be half loaded as well as a load be half done.
- `MaxFailures`: two raising statements let a failed job or wipe be followed by
  a failed publication or clean-up; `store_local` has a third.
- `MaxCrashes`, `MaxKills`, `MaxRestarts`: one; a second kill finds the same
  kinds of state as the first, since nothing but tables and status survives.
- `Requests`: two index requests race each other, one delete and one query race
  both, and the shutdown races all. There are as many jobs as index requests.
- `Processes`: as many as the scripts can spawn, and a killed one more.
- Graphs: all 512 over three symbols, direct recursion included, and all of four
  symbols with three or four calls; `MaxDepth` 3 and `MaxNodes` 4 stand for 10
  and 200, so that the clamps, each limit and a complete answer all occur.
- `MaxUnwritten`: one failing status write, which can be any of them: of a
  handler, of a job, of the report of its end.
- `Context`: a third file or content would be in the same relation to the others
  as the second; spans lie apart, touch, nest and reach past the end of the file;
  `PageSize` 2 and `Depth` 2 let the page and the walk leave something out.
- Files of `Extraction`: every call of `f` in a module that defines or imports
  it, or not, with up to two more nodes around or beside the call, and three
  scopes within each other that each bind it or not; in a function with a
  parameter `f`, any three nodes that end in a call or target; any scope with a
  list comprehension and any other scope beside that; and two lambdas or generator
  expressions that share a line, in both orders of `symtable`. The CodeGraph
  files have a name defined twice, a captured parameter, and no definition at all.
- Processes of `Extraction`: one helper, which may outlive its launcher, hold the
  pipes or not; a second one is a process like the first.
- Symmetry is used in runs without liveness or refinement only, over generations
  of the same source, over index requests, over processes and over contents.
- The daemon's runs set `CHECK_DEADLOCK FALSE`: after its exit, with no restart
  left, the process really has stopped. So do those of `DaemonLifecycle`, whose
  scripts end, and those of the walks, of `Context` and of `Extraction`, which
  return or raise. The store has no such state.

Fairness is assumed in `Daemon` and `Extraction`. In `Daemon`: weak fairness of each handler, each job, the
worker and `serve`. Threads are scheduled by the operating system, handlers by
the event loop, and each statement, subprocess or file operation they wait for
ends (extraction has a deadline of 600 s in the code). No fairness is given to
`_index_lock`: a handler waiting for it is not starved because the number of
requests is finite. Clients, kills and restarts are not fair: they need not come.
A client that has connected need not send, either; `ShutdownEnds` states as its
assumption that none stays silent for ever, because the code has no time-out for
that. In `Extraction`: weak fairness of the job's thread. Its processes are not
fair, and neither the shutdown nor the deadline need come.

Every property of a passing run has a mutant of the code that breaks it
(`PROJECT.json`; the mutated forms are the definitions marked "Mutant of").

### Where code and documentation disagree

1. **`running` without a job** (`daemon.py:332`). A daemon killed during an
   index job leaves `status.json` at `running` or `queued`; the next daemon
   keeps the file because it exists. `index_status` then reports a job that is
   gone until someone indexes again, against INV-3.
2. **A daemon nobody finds** (`daemon.py:351`). The old daemon's worker gives up
   the store, then the old daemon unlinks socket and pidfile by path. A daemon
   started in between has them taken away: it holds the lease, and no start or
   stop can reach it. With commands one after another this does not happen
   (`OneAfterAnother`): a stop returns once the pidfile is gone, which is
   unlinked last.
3. **A hidden parameter** (`parse_python.py:367`). A class that binds the callee
   ends the search for parameters although Python does not look there from a
   class inside it. Such a call passes as evidence, against
   `docs/experiments/codegraph-import.md:56`.

Others are stated as invariants that the code violates, and have no run of their
own; each can be given to TLC in the cfg of its module's run:

| Invariant | What happens |
|---|---|
| `Daemon.IndexedIsWhole` (`daemon.py:270-278`) | A wipe that raises in the middle answers with an error but leaves status `indexed`, and a pointer to a generation that has lost rows. |
| `GenerationStore.PredecessorIsHealthy` (`generations.py:24`) | The publication after such a wipe retains that generation as its "healthy predecessor". |
| `GenerationStore.FailedPublicationPreservesOldGraph` (`generations.py:34`) | In durable mode a raise after the pointer's insertion fails the job, while readers are on the new graph. |
| `Context.ImpactSaysIncomplete` (`context.py:186`) | `impact` drops callers that have no node row, such as a module that calls at top level, with no mark; ADR 0007 promises "explicit truncation/freshness information". |
| `Context.LinesAreNumbered` (`context.py:157`) | `str.splitlines` splits at form feeds as well, so the text under a number is that of an earlier line. Needs a file in `FormFeeds`, which is empty in the run. |
| `Extraction.ParametersAreQuarantined` with `MCSharedLine` (`parse_python.py:322-323`) | All generator expressions of a line in one scope are given the first one's table. In `sum(f for f in a) + sum(f(x) for x in b)` the second `f` is a target there, and the call of a parameter `f` passes as evidence. |
| the same with `MCOtherOrder` (`parse_python.py:278-281`) | Lambdas of a line are matched in the order of the visit, which is not that of `symtable`: in `x: (lambda: 1) = lambda f: f()` each gets the other's table, and the call passes. |
| `Extraction.LocalNeverResolves` (`parse_python.py:182-185`) | "a locally-bound callee ... must never resolve": targets of `for`, `with` and `:=`, the second of `a = b = ...` and imports inside a function bind locally and are not looked at. |

Seen while modelling and not promised by any document: a silent client holds up
a shutdown (`daemon.py:284`); an import anywhere in a file resolves a callee
everywhere in it; calls in the defaults, annotations and bases of a definition
get no edge; a call of a local name in a list comprehension, before the target
it is bound to, is quarantined although it is no parameter's
(`parse_python.py:329-332`); a lambda inside the second generator expression of a
line finds no table, and the whole file is then quarantined (`:281`); a walk that
the depth cuts short is not marked truncated (`context.py:48`), but the depth is a
parameter the caller knows.

One statement of the repository's README is out of date rather than wrong in the
code: "Failed or interrupted reindexing can leave a partial graph" has not been
true since generations are published by pointer (`PublishedIsWhole`), except for
an interrupted delete.

## 4. What is proved

Every safety property of a passing run, invariant or action property, and the
refinement, is a theorem for all values of the constants. Only liveness stays
with TLC. The assumptions are the named ones of the modules, which TLC evaluates
in every run, and the two hypotheses pointed out below.

| Module | Theorem | Statement |
|---|---|---|
| `GenerationStoreProofs` | `TypeCorrect` | `Spec => []TypeOK` |
| | `Inductive` | `Spec => []IndInv` |
| | `PublishedWhole` | `Spec => []PublishedIsWhole` |
| | `PublishEffective` | `Spec => []PublishTakesEffect` |
| | `CleanupCompletes` | `Spec => CleanupIsComplete` |
| | `Implementation` | `Spec => ImplementsPublishedGraph` |
| | `ReportsSurvive` | `Spec => []ReportedSurvives` |
| | `RetainedKept` | `Spec => RetainedLosesNothing` |
| `DaemonProofs` | `Inductive`, `TypeCorrect` | `Spec => []Inv`, `Spec => []TypeOK` |
| | `OneWriterAlone` | `Spec => []OneWriter` |
| | `CancelFinal` | `Spec => []CancelIsFinal` |
| | `NoneLost` | `Spec => []NoRequestIsLost` |
| | `CoalescedNamed` | `Spec => CoalescedToLiveJob` |
| | `IndexedServed` | `Spec => []IndexedIsServed` |
| `DaemonLifecycleProofs` | `TypeCorrect`, `OneDaemonServes` | `Spec => []TypeOK`, `Spec => []OneOwner` |
| | `RunningFound` | `Spec /\ []Apart => []RunningIsFound` |
| | `StartsWork` | `Spec /\ []Apart => []StartsSucceed` |
| | `StopReleases` | `Spec /\ []Apart => StoppedIsReleased` |
| | `OneAfterAnother` | one terminal: `Spec => []Apart` |
| | `OneTerminal` | one terminal: `Spec => []RunningIsFound /\ []StartsSucceed /\ StoppedIsReleased` |
| | `StartersOnly` | no stops: `Spec => []RunningIsFound /\ []StartsSucceed` |
| `TracePathProofs` | `RowsSimple` | `Spec => []RowsAreSimplePaths` |
| | `FindsEverything` | `Spec => []FindsEverySimplePath` |
| `BoundedWalkProofs` | `TypeCorrect` | `Spec => []TypeOK` |
| | `PathsCorrect` | `Spec => []PathsAreCallPaths` |
| | `EdgesComplete` | `Spec => []EdgesHaveEnds` |
| | `LimitsKept` | `Spec => []WithinLimits` |
| | `AnswersAreHonest` | `Spec => []HonestTruncation` |
| `ContextProofs` | `TypeCorrect` | `Spec => []TypeOK` |
| | `SourceIndexed` | `Spec => []SourceIsIndexed` |
| | `EvidenceSourced` | `Spec => []EvidenceHasSources` |
| | `EvidenceFresh` | `Spec => []EvidenceIsFresh` |
| | `SpansMerged` | `Spec => []SpansCoverOnce` |
| | `AnswersAreHonest` | `Spec => []HonestAnswer`, if `FormFeeds = {}` |
| `ExtractionProofs` | `TypeCorrect` | `Spec => []TypeOK` |
| | `GroupIsGone` | `Spec => []NoSurvivors` |
| | `IdentitiesUnique` | `Spec => []IdentitiesAreUnique` |
| | `Quarantine` | `Spec => []QuarantineIsExact` |
| | `EvidenceAccounted` | `Spec => []EvidenceIsAccounted` |
| | `Resolution` | `Spec => []NativeResolution` |

### The store

Any sets of identities, any numbers of statements per load, any legacy rows, both
storage modes and any number of failures and crashes, under `IdentityAssumption`,
`BatchesAssumption`, `LegacyAssumption`, `ModeAssumption` and `BoundAssumption`.

`PublishedIsWhole` alone is not inductive. A publication makes whatever is in
`gen` active, so the invariant has to say that `gen` is whole when the pointer
is inserted (`PhaseInv`); that in turn needs that nothing a pointer already
names is being loaded (`Unpublished`), hence that every pointer names a minted
identity (`PointersAreMinted`), in the session and on disk. That the new
pointer is the one readers resolve needs distinct versions and a maximum among
them (`PointersAreSound`), which also carries the invariant over a background
merge of `meta`, where rows disappear but never the top one. A clean-up
preserves wholeness because it keeps the active generation, which is `gen`
during the clean-up; a wipe makes the claim void by `torn`. Types are proved
first, separately, and `NotOverfull` with them: a load inserts only while a table
is incomplete.

The implementation needs more (`RefInv`). What is switched away from must be what
`PublishedGraph` retains: the predecessor a load has read is still the active
generation when its pointer is inserted (`PointerInv`), and no pointer names as
predecessor the generation being built (`PriorsInv`). A clean-up must not change
what a restart finds: the log has the pointer by then, and never fewer rows than
the session of what a restart retains (`LogKeepsRows`). A reported publication
survives a merge of `meta` because a later version is on top (`SurvivalInv`).
Each step then maps to one step of `PublishedGraph` or to none: a lemma per
action.

### The daemon

Any requests of the four kinds, any jobs, both storage modes and any number of
kills, restarts and failing status writes, under `KindAssumption`,
`NamesAssumption` and `DaemonBounds`.

The invariant says what each part knows of the others. `LockInv`: who starts a
job or waits for a wipe holds the lock, and no job is alive then. `QueueInv`:
each closure in the queue or in the worker serves a request or a job that waits
for it, and at most one load and one wipe are there; that is why a wipe never
meets a load although they only share a queue. `StatusInv`: while a job lives,
`status.json` has its identifier, which is what a coalesced request is told.
`GraphInv` carries the generation from the load that builds it over its
publication and the future it resolves to the status that reports it; without it
a report could not be tied to what is served. `ShutdownInv`: once connections
are drained, nothing is in flight and the cancellation stays.

### Daemon processes

Any number of processes and terminals, any scripts, any kills. Without a
condition: types, and that only the process with the lease works on the store and
its files (`Owner`). The other three properties do not hold without one, as
`lifecycle_orphan` shows. The condition, `Apart`, says that no daemon comes up
while another one that has not been killed is on its way out; the theorems assume
it of the whole behaviour (`[]Apart`). It excludes what
`lifecycle_orphan` does and still lets terminals start and stop at once: all
13 455 states of the `lifecycle` run satisfy it, the three simultaneous starts
included, as TLC shows when it is given `Apart` as an invariant there. Under it the invariant (`ApartInv`) is that the lease stays free
until who gave it up has unlinked its files, hence that the files are those of
the process that has the lease, and that a start which nothing has disturbed has
a process to hope for.

Two kinds of use meet the condition by themselves, and there the three properties
are proved without it. One terminal does, whatever it runs and whoever is killed
when (`OneAfterAnother`, `OneTerminal`): while a daemon comes up, the start waits
for it and no other one serves; while one leaves, the stop polls, and goes on as
long as the pidfile is there or kills the process (`Alone`). Any number of
terminals that only start daemons do too (`StartersOnly`): then a daemon goes
only by being killed, and a killed one touches nothing any more. What is left for
the condition is a stop or restart in one terminal against a start in another,
which is what `lifecycle_orphan` shows.

### Walks

Any graphs, arguments and clamps, under the assumptions of the modules on their
constants; for completeness and limits the names are finitely many, as they are
in a database.

For `TracePath` the invariant is that after some number k of iterations the last
one holds exactly the simple paths of k edges and the result those of up to k
(`Progress`). That k exists at each state replaces the induction over paths. An
iteration that finds nothing then rules out longer paths as well, because a
prefix of a simple path is simple (`PrefixIsSimple`).

For `BoundedWalk` the first invariant adds that fetched rows are edges at the
frontier, and that the frontier's paths are as long as the rounds so far
(`RoundOK`), from which the bound by the depth follows. That a query's `LIMIT`
keeps the answer within the limits needs that the query's order has no ties
(`PrecedesIsOrder`) and counts finite sets (`FirstIsLimited`).

Completeness is the harder direction (`CompleteInv`). While nothing has been cut,
after r rounds the nodes reached are those within r calls, each by a shortest
path; the edges kept are those at the nodes within r - 1 calls; the frontier is
the nodes at exactly r (`RoundsDone`). Within a round, what is missing is in the
rows still to be taken (`RoundUnderWay`). A walk may end before its depth, when
the frontier is empty: then no further round would have found anything
(`NothingFurther`).

### Context

Any files, symbols, calls and spans, under `GraphAssumption`, `BoundsAssumption`
and `ContentAssumption`. The invariant for freshness says that a file already
compared is not among those never seen as indexed (`Comparison`), which no later
edit can undo, and that a validated node's file has been read with the content of
the index (`Validation`), which no later read replaces.

`SpansMerged` is about every set of spans: sorting them is shown to exist
(`SortingExists`), and the loop to keep, for its first i spans, that the merged
ones cover the same lines, lie apart, and that the last begins no later than what
is still to come (`MergedCovers`). `HonestAnswer` follows the nodes from the
search to the answer: what is neither read, stale nor unread any more is served
(`Explored`), a walk that is not cut has everything within its depth, and the
lines of a validated node are in the text because the merged spans cover them.
It is proved for files without form feeds and the like (`FormFeeds = {}`): with
them a line has several items and a span's last ones are not served; that is the
violated `LinesAreNumbered` above.

### Extraction

Any helpers, and any file that is a tree of Python's grammar, as far as it
concerns names (`WellFormed`: parents first, parameters under a def or lambda,
statements in the module, a block, a def or a class), on any lines, under `ProcessAssumption`
and `FilesAssumption`. `NoSurvivors` is inductive with the subset relations of
`ProcessInv`.

The theorems about names rest on what the nodes around a node are. They are
defined by recursion along parents; `LineageUnfolds` shows that this recursion
has a solution, `AroundNests` that the nodes around an enclosing node are the
earlier ones of those around the node itself.

- That a scope which is told apart is given its own table, and shares it with no
  other, is an induction over the scopes in the order of the visit (`CleanOwns`).
  Whatever else found that table would have to stand right inside the same scope
  (`InsideOf`), so be a sibling; earlier siblings have taken their own tables by
  then, and later ones find this one taken. `TableUnfolds` shows that the
  recursion behind `Table` has a solution.
- `Quarantine`, one direction: if Python means the parameter of scope m, no scope
  further in can end the search. One that binds the name and that Python looks in
  would be meant instead; one that only Python passes over is a class, which the
  search skips if a function is inside it and which is `BehindClass` if not; one
  whose table has the name from a comprehension is `BehindInlined`; in any other
  the name is free. The other direction: a scope further in which Python meant
  instead would have ended the search before m, unless it is a list comprehension
  that has not collected its target yet (`BeforeTarget`).
- `Resolution`: a name in the parser's sets is bound in the function they are of,
  because no lambda or comprehension can stand between a statement and the
  definition whose body it is in (`StatementScope`, an induction along blocks).
  So a call that Python binds in the module is in none of them.
- `EvidenceAccounted`: the invariant (`LoadInv`) keeps what is loaded equal to
  what the database and the file say. A callsite's two ends determine its edge;
  one that is in no quarantine is none of `Shadowed`, in a file that could be
  analysed, and `Quarantine` says the rest.

### How recursion and induction are done

The provers cannot instantiate a theorem that takes a predicate. `Recursion`
states induction about sets of numbers, from the least element that well-founded
order gives, and recursion about functions: for a first value and a step there is
a sequence that starts with one and goes on by the other (`RecursionExists`); and
for a step that looks at smaller numbers only, a function that follows it
(`CourseOfValues`). A recursive definition is then shown equal to one of these,
once, in a lemma named `...Unfolds`, and used by its equations.

### What stays with TLC

The temporal properties `RequestsEnd`, `JobsReport`, `ShutdownEnds` and
`CommandEnds`: the prover does not reason about fairness. And the three
counterexamples.

## 5. What is not modelled

Listed with reasons in `PROJECT.json`. Within the modelled parts:

- The store: the polling of durable deletions, and errors on opening. Row
  contents: two generations of one source load the same number of statements.
- The daemon: the executor pool's limited size, the first status write of
  `serve` and the progress writes of a load, which repeat the state, and `ping`,
  `status` and `list_projects`, which change nothing. A client's time-out is not
  an event of its own: the daemon goes on with the request, and a retry is
  another request.
- Processes: the expiry of the 30 s wait for a worker, after which a daemon
  unlinks its files while it still holds the lease; `daemon status`.
- Traversal: the Git metrics of `impact`, and which pieces `max_chars` leaves
  room for.
- Search: which symbols match and how they score (floating point and text inside
  SQL), and embeddings.
- The parser: `global` and `nonlocal`, attribute calls, docstrings, overload and
  deprecation marks; two files whose module names are the same. Of the search for
  shadowed parameters: names that a class makes private (mangling,
  `parse_python.py:347-350`), type parameters and their tables (`:284-285`),
  postponed annotations, calls and reads in the target of a comprehension, and
  definitions named like a comprehension's table (`genexpr`, `listcomp`).
- CodeGraph import: the database's contents beyond what decides resolution,
  properties of nodes, `import_codegraph_snapshot`, which only evaluation scripts
  call.
- Git counts and evolution metrics: arithmetic over `git log`, no state.
- The evaluation harness: sequential scripts around language models.

## 6. Plan

What is left, in this order:

1. `DaemonLifecycle`: the 30 s wait.
2. `StoreMutations`: `delete_rows` in both modes, with its polling, against its
   promise.
3. `GitIngest`: the degraded mode of an index job and the evolution metrics.
4. The resumable evaluation runner: a run cut anywhere and resumed repeats no
   recorded question.

The project keeps to a dozen runs and forty properties. Of the present ones
`stale_running` goes first when a new component needs a run: `Daemon` states what
it shows.

Modules meant for proofs use recursive functions and folds only.
