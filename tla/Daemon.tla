------------------------------- MODULE Daemon -------------------------------
(***************************************************************************)
(* The daemon of one project (daemon.py): request handlers, the index job  *)
(* thread, the database worker with its FIFO queue, and the serve()        *)
(* coroutine that shuts them all down, interleaved step by step, together  *)
(* with status.json, which outlives the process.                           *)
(*                                                                         *)
(* The closures the worker runs act on the graph as PublishedGraph         *)
(* specifies (GenerationStore shows that the SQL does).  A job's           *)
(* generation is named by the job.  ping, status and list_projects answer  *)
(* from the event loop and change nothing; they are left out.              *)
(***************************************************************************)
EXTENDS Naturals, Sequences, FiniteSets

CONSTANTS
  Requests,    \* connections, each carrying one request
  Kind,        \* request -> "index", "query", "delete" or "shutdown"
  Jobs,        \* identifiers op_index hands out, also naming generations
  Logical, NoId,
  Durable,     \* CHGRAPH_DURABLE_URI is set
  MaxKills,    \* bound: kills of the daemon process
  MaxRestarts, \* bound: daemons started after the first
  MaxUnwritten \* bound: write_status calls that raise

ASSUME KindAssumption ==
  Kind \in [Requests -> {"index", "query", "delete", "shutdown"}]
ASSUME NamesAssumption ==
  /\ NoId \notin Jobs \cup Requests \cup {Logical}
  /\ Logical \notin Jobs
  /\ Jobs \cap Requests = {}
ASSUME DaemonBounds == Durable \in BOOLEAN /\ {MaxKills, MaxRestarts, MaxUnwritten} \subseteq Nat

VARIABLES
  req,      \* where the handler of each request is
  reply,    \* what an index request was answered: job and state
  mine,     \* the job an index request is starting
  lock,     \* holder of _index_lock, or NoId
  thread,   \* the job _index_thread refers to, or NoId
  job,      \* where each job's thread is
  queue,    \* the worker's queue
  worker,   \* where the worker thread is
  current,  \* the queue item the worker runs
  result,   \* outcome of the future a request or a job waits for
  cancel,   \* _index_cancel
  stop,     \* _stop
  main,     \* where serve() is
  status,   \* status.json
  cut,      \* history: a wipe began, and no status was written since
  kills, restarts, unwritten,
  live, kept, candidate, built, deleting  \* the graph: see PublishedGraph

requestVars == <<req, reply, mine, lock>>
jobVars     == <<thread, job>>
workerVars  == <<queue, worker, current, result>>
flagVars    == <<cancel, stop>>
statusVars  == <<status, cut, unwritten>>
boundVars   == <<kills, restarts>>
graphVars   == <<live, kept, candidate, built, deleting>>
vars == <<requestVars, jobVars, workerVars, flagVars, main, statusVars,
          boundVars, graphVars>>

Graph == INSTANCE PublishedGraph WITH Generations <- Jobs

\* Only durable storage can keep less than it shows.
Stored == Durable \/ kept' = live'

Waiters  == Requests \cup Jobs
Sentinel == [kind |-> "stop", for |-> NoId]
Items    == [kind : {"query", "wipe"}, for : Requests]
              \cup [kind : {"load"}, for : Jobs] \cup {Sentinel}

NoReply  == [job |-> NoId, state |-> "none"]
Alive(j) == job[j] \notin {"unused", "dead"}
InFlight(r) == req[r] \notin {"unsent", "open", "answered", "lost"}

\* op_index and op_delete_project ask the same of the last job's thread.
JobIsAlive == thread # NoId /\ Alive(thread)

\* write_status replaces the file at once, ...
Status(state, j) ==
  /\ status' = [state |-> state, job |-> j] /\ cut' = FALSE
  /\ UNCHANGED unwritten

\* ... or raises, on a full disk for example, and leaves it as it was.
StatusRaises ==
  /\ unwritten < MaxUnwritten /\ unwritten' = unwritten + 1
  /\ UNCHANGED <<status, cut>>

Init ==
  /\ req = [r \in Requests |-> "unsent"]
  /\ reply = [r \in Requests |-> NoReply]
  /\ mine = [r \in Requests |-> NoId]
  /\ lock = NoId
  /\ thread = NoId
  /\ job = [j \in Jobs |-> "unused"]
  /\ queue = <<>> /\ worker = "ready" /\ current = Sentinel
  /\ result = [w \in Waiters |-> "none"]
  /\ cancel = FALSE /\ stop = FALSE
  /\ main = "serving"
  /\ status = [state |-> "uninitialized", job |-> NoId]
  /\ cut = FALSE
  /\ kills = 0 /\ restarts = 0 /\ unwritten = 0
  /\ Graph!Init

-----------------------------------------------------------------------------
(* Request handlers.                                                       *)

Goes(r, pc) == req' = [req EXCEPT ![r] = pc]

\* A connection is accepted until serve() has closed the server.
Connect(r) ==
  /\ req[r] = "unsent" /\ main = "serving"
  /\ Goes(r, "open")
  /\ UNCHANGED <<reply, mine, lock, jobVars, workerVars, flagVars, main,
                 statusVars, boundVars, graphVars>>

\* readline() returns a request, or nothing from a client that hangs up.
Arrive(r) ==
  /\ req[r] = "open"
  /\ Goes(r, "arrived") \/ Goes(r, "answered")
  /\ UNCHANGED <<reply, mine, lock, jobVars, workerVars, flagVars, main,
                 statusVars, boundVars, graphVars>>

\* submit: the closure is queued and the handler waits on its future.
Submits(kind, w) ==
  /\ queue' = Append(queue, [kind |-> kind, for |-> w])
  /\ UNCHANGED <<worker, current, result>>

Query(r) ==
  /\ Kind[r] = "query" /\ req[r] = "arrived"
  /\ Submits("query", r)
  /\ Goes(r, "waiting")
  /\ UNCHANGED <<reply, mine, lock, jobVars, flagVars, main, statusVars,
                 boundVars, graphVars>>

QueryAnswered(r) ==
  /\ Kind[r] = "query" /\ req[r] = "waiting" /\ result[r] # "none"
  /\ Goes(r, "answered")
  /\ UNCHANGED <<reply, mine, lock, jobVars, workerVars, flagVars, main,
                 statusVars, boundVars, graphVars>>

\* op_index looks at _stop before it takes the lock.
IndexChecksStop(r) ==
  /\ Kind[r] = "index" /\ req[r] = "arrived"
  /\ Goes(r, IF stop THEN "answered" ELSE "locking")
  /\ UNCHANGED <<reply, mine, lock, jobVars, workerVars, flagVars, main,
                 statusVars, boundVars, graphVars>>

\* Mutant of IndexLocks: the check and the start are not under the lock.
IndexLooks(r) ==
  /\ Kind[r] = "index" /\ req[r] = "locking"
  /\ Goes(r, IF JobIsAlive THEN "coalescing" ELSE "minting")
  /\ UNCHANGED <<reply, mine, lock, jobVars, workerVars, flagVars, main,
                 statusVars, boundVars, graphVars>>

IndexLocks(r) ==
  /\ Kind[r] = "index" /\ req[r] = "locking" /\ lock = NoId
  /\ lock' = r
  /\ Goes(r, IF JobIsAlive THEN "coalescing" ELSE "minting")
  /\ UNCHANGED <<reply, mine, jobVars, workerVars, flagVars, main, statusVars,
                 boundVars, graphVars>>

\* Mutant of Coalesce: an early return that keeps the lock.
CoalesceKeepsLock(r) ==
  /\ req[r] = "coalescing"
  /\ reply' = [reply EXCEPT ![r] = [job |-> status.job, state |-> "running"]]
  /\ Goes(r, "answered")
  /\ UNCHANGED <<mine, lock, jobVars, workerVars, flagVars, main, statusVars,
                 boundVars, graphVars>>

\* A job is running: its identifier is read from status.json.
Coalesce(r) ==
  /\ req[r] = "coalescing"
  /\ reply' = [reply EXCEPT ![r] = [job |-> status.job, state |-> "running"]]
  /\ Goes(r, "answered") /\ lock' = NoId
  /\ UNCHANGED <<mine, jobVars, workerVars, flagVars, main, statusVars,
                 boundVars, graphVars>>

Fresh == {j \in Jobs : job[j] = "unused" /\ \A q \in Requests : mine[q] # j}

\* Identifiers are random; any fresh one stands for all.
ClearCancel(r) ==
  /\ req[r] = "minting" /\ Fresh # {}
  /\ mine' = [mine EXCEPT ![r] = CHOOSE j \in Fresh : TRUE]
  /\ cancel' = FALSE
  /\ Goes(r, "queueing")
  /\ UNCHANGED <<reply, lock, jobVars, workerVars, stop, main, statusVars,
                 boundVars, graphVars>>

\* Mutant of WriteQueued: the job's own first write is left to set the status.
WriteNothing(r) ==
  /\ req[r] = "queueing"
  /\ Goes(r, "starting")
  /\ UNCHANGED <<reply, mine, lock, jobVars, workerVars, flagVars, main,
                 statusVars, boundVars, graphVars>>

\* No job starts when its first status cannot be written.
WriteQueued(r) ==
  /\ req[r] = "queueing"
  /\ \/ Status("queued", mine[r]) /\ Goes(r, "starting") /\ UNCHANGED lock
     \/ StatusRaises /\ Goes(r, "answered") /\ lock' = NoId
  /\ UNCHANGED <<reply, mine, jobVars, workerVars, flagVars, main, boundVars, graphVars>>

StartThread(r) ==
  /\ req[r] = "starting"
  /\ thread' = mine[r]
  /\ job' = [job EXCEPT ![mine[r]] = "started"]
  /\ reply' = [reply EXCEPT ![r] = [job |-> mine[r], state |-> "queued"]]
  /\ Goes(r, "answered") /\ lock' = NoId
  /\ UNCHANGED <<mine, workerVars, flagVars, main, statusVars, boundVars, graphVars>>

DeleteArrives(r) ==
  /\ Kind[r] = "delete" /\ req[r] = "arrived"
  /\ Goes(r, "locking")
  /\ UNCHANGED <<reply, mine, lock, jobVars, workerVars, flagVars, main,
                 statusVars, boundVars, graphVars>>

DeleteRefused(r) ==
  /\ Kind[r] = "delete" /\ req[r] = "locking" /\ lock = NoId
  /\ JobIsAlive
  /\ Goes(r, "answered")
  /\ UNCHANGED <<reply, mine, lock, jobVars, workerVars, flagVars, main,
                 statusVars, boundVars, graphVars>>

\* Mutant of DeleteSubmits: no guard against a job in flight.
DeleteSubmitsAnyway(r) ==
  /\ Kind[r] = "delete" /\ req[r] = "locking" /\ lock = NoId
  /\ lock' = r
  /\ Submits("wipe", r)
  /\ Goes(r, "waiting")
  /\ UNCHANGED <<reply, mine, jobVars, flagVars, main, statusVars, boundVars,
                 graphVars>>

\* The lock is held until the wipe is over and its status written.
DeleteSubmits(r) ==
  /\ Kind[r] = "delete" /\ req[r] = "locking" /\ lock = NoId
  /\ ~JobIsAlive
  /\ lock' = r
  /\ Submits("wipe", r)
  /\ Goes(r, "waiting")
  /\ UNCHANGED <<reply, mine, jobVars, flagVars, main, statusVars, boundVars,
                 graphVars>>

\* Mutant of DeleteAnswered: an exception passes the release of the lock.
DeleteRaisesWithLock(r) ==
  /\ Kind[r] = "delete" /\ req[r] = "waiting" /\ result[r] # "none"
  /\ IF result[r] = "ok"
     THEN Status("uninitialized", NoId) /\ lock' = NoId
     ELSE UNCHANGED <<statusVars, lock>>
  /\ Goes(r, "answered")
  /\ UNCHANGED <<reply, mine, jobVars, workerVars, flagVars, main, boundVars,
                 graphVars>>

\* A wipe that raised leaves status.json as it was.
DeleteAnswered(r) ==
  /\ Kind[r] = "delete" /\ req[r] = "waiting" /\ result[r] # "none"
  /\ IF result[r] = "ok"
     THEN Status("uninitialized", NoId) \/ StatusRaises
     ELSE UNCHANGED statusVars
  /\ Goes(r, "answered") /\ lock' = NoId
  /\ UNCHANGED <<reply, mine, jobVars, workerVars, flagVars, main, boundVars,
                 graphVars>>

Shutdown(r) ==
  /\ Kind[r] = "shutdown" /\ req[r] = "arrived"
  /\ stop' = TRUE
  /\ Goes(r, "answered")
  /\ UNCHANGED <<reply, mine, lock, jobVars, workerVars, cancel, main,
                 statusVars, boundVars, graphVars>>

Handler(r) ==
  \/ Query(r) \/ QueryAnswered(r)
  \/ IndexChecksStop(r) \/ IndexLocks(r) \/ Coalesce(r)
  \/ ClearCancel(r) \/ WriteQueued(r) \/ StartThread(r)
  \/ DeleteArrives(r) \/ DeleteRefused(r) \/ DeleteSubmits(r) \/ DeleteAnswered(r)
  \/ Shutdown(r)

-----------------------------------------------------------------------------
(* The index job's thread.                                                 *)

JobGoes(j, pc) == job' = [job EXCEPT ![j] = pc]

\* A native load is submitted at once; CodeGraph extracts outside the worker.
JobRuns(j) ==
  /\ job[j] = "started"
  /\ \/ Status("running", j) /\ (JobGoes(j, "extracting") \/ JobGoes(j, "submitting"))
     \/ StatusRaises /\ JobGoes(j, "failing")
  /\ UNCHANGED <<requestVars, thread, workerVars, flagVars, main, boundVars, graphVars>>

\* prepare_codegraph and parse_git_log; a cancelled or failed extraction, and a
\* cancellation seen after it, end the job.
Extract(j) ==
  /\ job[j] = "extracting"
  /\ \/ ~cancel /\ JobGoes(j, "submitting")
     \/ JobGoes(j, "failing")
  /\ UNCHANGED <<requestVars, thread, workerVars, flagVars, main, statusVars,
                 boundVars, graphVars>>

JobSubmits(j) ==
  /\ job[j] = "submitting"
  /\ Submits("load", j)
  /\ JobGoes(j, "waiting")
  /\ UNCHANGED <<requestVars, thread, flagVars, main, statusVars, boundVars, graphVars>>

\* Mutant of JobReports: a state write_status does not know.
JobReportsDone(j) ==
  /\ job[j] = "waiting" /\ result[j] # "none" /\ Status("done", j)
  /\ JobGoes(j, "ending")
  /\ UNCHANGED <<requestVars, thread, workerVars, flagVars, main, boundVars, graphVars>>

\* Mutant of JobReports: no handler for what extraction raises.
JobReportsLoadsOnly(j) ==
  /\ \/ job[j] = "waiting" /\ result[j] = "ok"    /\ Status("indexed", j)
     \/ job[j] = "waiting" /\ result[j] = "error" /\ Status("failed", j)
  /\ JobGoes(j, "ending")
  /\ UNCHANGED <<requestVars, thread, workerVars, flagVars, main, boundVars, graphVars>>

\* "indexed" stands for degraded too: both say the generation is published.
JobReports(j) ==
  /\ \/ job[j] = "waiting" /\ result[j] = "ok"    /\ Status("indexed", j)
     \/ job[j] = "waiting" /\ result[j] = "error" /\ Status("failed", j)
     \/ job[j] = "failing"                        /\ Status("failed", j)
  /\ JobGoes(j, "ending")
  /\ UNCHANGED <<requestVars, thread, workerVars, flagVars, main, boundVars, graphVars>>

\* A job that cannot write "indexed" tries "failed", although its graph is
\* published; one that cannot write "failed" ends without a word.
ReportRaises(j) ==
  /\ \/ job[j] = "waiting" /\ result[j] = "ok" /\ JobGoes(j, "failing")
     \/ job[j] = "waiting" /\ result[j] = "error" /\ JobGoes(j, "silent")
     \/ job[j] = "failing" /\ JobGoes(j, "silent")
  /\ StatusRaises
  /\ UNCHANGED <<requestVars, thread, workerVars, flagVars, main, boundVars, graphVars>>

\* Between its last write and its end a thread is still alive.
JobEnds(j) ==
  /\ job[j] \in {"ending", "silent"}
  /\ JobGoes(j, "dead")
  /\ UNCHANGED <<requestVars, thread, workerVars, flagVars, main, statusVars,
                 boundVars, graphVars>>

IndexJob(j) == JobRuns(j) \/ Extract(j) \/ JobSubmits(j) \/ JobReports(j) \/ ReportRaises(j)
                 \/ JobEnds(j)

-----------------------------------------------------------------------------
(* The worker: one closure at a time, in the order they were queued.       *)

Take(kind, pc) ==
  /\ worker = "ready" /\ queue # <<>> /\ Head(queue).kind = kind
  /\ current' = Head(queue) /\ queue' = Tail(queue)
  /\ worker' = pc
  /\ UNCHANGED <<requestVars, jobVars, flagVars, main, boundVars>>

\* The future of the closure is resolved and the worker is free.
Resolves(outcome) ==
  /\ result' = [result EXCEPT ![current.for] = outcome]
  /\ worker' = "ready" /\ current' = Sentinel
  /\ UNCHANGED <<requestVars, jobVars, queue, flagVars, main, statusVars, boundVars>>

RunQuery ==
  /\ Take("query", "reading")
  /\ UNCHANGED <<result, statusVars, graphVars>>

QueryReturns ==
  /\ worker = "reading"
  /\ Resolves("ok")
  /\ UNCHANGED graphVars

RunLoad ==
  /\ Take("load", "loading")
  /\ Graph!Begin(Head(queue).for)
  /\ UNCHANGED <<result, statusVars>>

LoadPublishes ==
  /\ worker = "loading"
  /\ Graph!Publish /\ Stored
  /\ worker' = "published"
  /\ UNCHANGED <<requestVars, jobVars, queue, current, result, flagVars, main,
                 statusVars, boundVars>>

\* The closure returns once what it published is checkpointed.
LoadReturns ==
  /\ worker = "published"
  /\ Graph!Persist
  /\ Resolves("ok")

\* An exception, before the pointer is inserted or after.
LoadRaises ==
  /\ \/ worker = "loading" /\ Graph!Abandon /\ Stored
     \/ worker = "published" /\ UNCHANGED graphVars
  /\ Resolves("error")

RunWipe ==
  /\ Take("wipe", "wiping")
  /\ Graph!BeginDelete
  /\ cut' = TRUE
  /\ UNCHANGED <<result, status, unwritten>>

WipeCuts ==
  /\ worker = "wiping"
  /\ Graph!Tear /\ Stored
  /\ deleting' /\ live' # live
  /\ UNCHANGED <<requestVars, jobVars, workerVars, flagVars, main, statusVars, boundVars>>

WipeReturns ==
  /\ worker = "wiping"
  /\ Graph!Forget /\ Stored
  /\ Resolves("ok")

WipeRaises ==
  /\ worker = "wiping"
  /\ Graph!Tear /\ Stored
  /\ ~deleting'
  /\ Resolves("error")

\* The sentinel is acknowledged, then the store is closed.
RunSentinel ==
  /\ Take("stop", "acknowledged")
  /\ UNCHANGED <<result, statusVars, graphVars>>

CloseStore ==
  /\ worker = "acknowledged"
  /\ worker' = "closed"
  /\ UNCHANGED <<requestVars, jobVars, queue, current, result, flagVars, main,
                 statusVars, boundVars, graphVars>>

Worker ==
  \/ RunQuery \/ QueryReturns
  \/ RunLoad \/ LoadPublishes \/ LoadReturns \/ LoadRaises
  \/ RunWipe \/ WipeCuts \/ WipeReturns \/ WipeRaises
  \/ RunSentinel \/ CloseStore

-----------------------------------------------------------------------------
(* serve() and the life of the process.                                    *)

MainGoes(pc) ==
  /\ main' = pc
  /\ UNCHANGED <<requestVars, jobVars, stop, statusVars, boundVars, graphVars>>

\* Leaving `async with server` closes the listening socket, ...
CloseServer ==
  /\ main = "serving" /\ stop
  /\ MainGoes("draining")
  /\ UNCHANGED <<workerVars, cancel>>

\* Mutant of Drained: open connections are not waited for.
DrainedAtOnce ==
  /\ main = "draining"
  /\ cancel' = TRUE
  /\ MainGoes(IF thread = NoId THEN "stopping" ELSE "joining")
  /\ UNCHANGED workerVars

\* ... and waits until every open connection has been answered and closed.
Drained ==
  /\ main = "draining"
  /\ \A r \in Requests : ~InFlight(r) /\ req[r] # "open"
  /\ cancel' = TRUE
  /\ MainGoes(IF thread = NoId THEN "stopping" ELSE "joining")
  /\ UNCHANGED workerVars

\* join(timeout=5) returns when the thread is dead, or 5 s later.
Joined ==
  /\ main = "joining"
  /\ MainGoes("stopping")
  /\ UNCHANGED <<workerVars, cancel>>

StopWorker ==
  /\ main = "stopping"
  /\ Submits("stop", NoId)
  /\ MainGoes("awaiting")
  /\ UNCHANGED cancel

\* The worker has closed the store, or has not got to the sentinel in 30 s.
WorkerStopped ==
  /\ main = "awaiting" /\ worker # "acknowledged"
  /\ MainGoes("unlinking")
  /\ UNCHANGED <<workerVars, cancel>>

\* Everything in the process ends where it is; what is on disk remains.
Dies ==
  /\ main' = "exited"
  /\ req' = [r \in Requests |-> CASE InFlight(r) -> "lost" [] req[r] = "open" -> "answered"
                               [] OTHER -> req[r]]
  /\ mine' = [r \in Requests |-> NoId]
  /\ lock' = NoId /\ thread' = NoId
  /\ job' = [j \in Jobs |-> IF job[j] = "unused" THEN
                               IF \E r \in Requests : mine[r] = j THEN "dead" ELSE "unused"
                             ELSE "dead"]
  /\ queue' = <<>> /\ worker' = "gone" /\ current' = Sentinel
  /\ result' = [w \in Waiters |-> "none"]
  /\ cancel' = FALSE /\ stop' = FALSE
  /\ Graph!Restart
  /\ UNCHANGED <<reply, statusVars, restarts>>

\* The socket and the pidfile are unlinked and the interpreter exits.
Exit ==
  /\ main = "unlinking"
  /\ Dies
  /\ UNCHANGED kills

Kill ==
  /\ main # "exited" /\ kills < MaxKills
  /\ kills' = kills + 1
  /\ Dies

\* A new daemon keeps the status.json it finds.
Restart ==
  /\ main = "exited" /\ restarts < MaxRestarts
  /\ restarts' = restarts + 1
  /\ main' = "serving" /\ worker' = "ready"
  /\ UNCHANGED <<requestVars, jobVars, queue, current, result, flagVars,
                 statusVars, kills, graphVars>>

Main == CloseServer \/ Drained \/ Joined \/ StopWorker \/ WorkerStopped \/ Exit

Next ==
  \/ \E r \in Requests : Connect(r) \/ Arrive(r) \/ Handler(r)
  \/ \E j \in Jobs : IndexJob(j)
  \/ Worker \/ Main
  \/ Kill \/ Restart

\* Threads and the event loop are scheduled; clients and restarts need not come.
\* Extraction and loads end: each subprocess and statement they wait for does.
Fairness ==
  /\ \A r \in Requests : WF_vars(Handler(r))
  /\ \A j \in Jobs : WF_vars(IndexJob(j))
  /\ WF_vars(Worker)
  /\ WF_vars(Main)

Spec == Init /\ [][Next]_vars /\ Fairness

-----------------------------------------------------------------------------
RequestStates == {"unsent", "open", "arrived", "locking", "coalescing", "minting", "queueing",
                  "starting", "waiting", "answered", "lost"}
JobStates     == {"unused", "started", "extracting", "submitting", "waiting",
                  "failing", "ending", "silent", "dead"}
WorkerStates  == {"ready", "reading", "loading", "published", "wiping",
                  "acknowledged", "closed", "gone"}
MainStates    == {"serving", "draining", "joining", "stopping", "awaiting",
                  "unlinking", "exited"}

ProcessTypes ==
  /\ req \in [Requests -> RequestStates]
  /\ reply \in [Requests -> [job : Jobs \cup {NoId}, state : {"none", "queued", "running"}]]
  /\ mine \in [Requests -> Jobs \cup {NoId}]
  /\ lock \in Requests \cup {NoId}
  /\ thread \in Jobs \cup {NoId}
  /\ job \in [Jobs -> JobStates]
  /\ queue \in Seq(Items) /\ current \in Items /\ worker \in WorkerStates
  /\ result \in [Waiters -> {"none", "ok", "error"}]
  /\ main \in MainStates
  /\ status \in [state : {"uninitialized", "queued", "running", "indexed", "failed"},
                 job : Jobs \cup {NoId}]
  /\ kills \in 0..MaxKills /\ restarts \in 0..MaxRestarts /\ unwritten \in 0..MaxUnwritten

FlagTypes == cancel \in BOOLEAN /\ stop \in BOOLEAN /\ cut \in BOOLEAN

\* Every variable has its type.
TypeOK == ProcessTypes /\ FlagTypes /\ Graph!TypeOK

\* However index requests interleave, one job is in flight at a time, and no
\* wipe is queued or running while one is (daemon.py:189-192, 263-265).
OneWriter ==
  /\ \A i, j \in Jobs : Alive(i) /\ Alive(j) => i = j
  /\ (\E n \in DOMAIN queue : queue[n].kind = "wipe") \/ worker = "wiping"
       => \A j \in Jobs : ~Alive(j)

\* A request joined to a running job is told that job's identifier, although it
\* is read from a file that the job and earlier jobs write (daemon.py:194-196).
CoalescedToLiveJob ==
  [][\A r \in Requests :
       reply'[r] # reply[r] /\ reply'[r].state = "running" => reply'[r].job = thread]_vars

\* Once serve() has cancelled the job, no late request un-cancels or outlives
\* it: no new job starts (daemon.py:187, 198, 341).
CancelIsFinal ==
  main \in {"joining", "stopping", "awaiting", "unlinking"} =>
    /\ cancel
    /\ \A r \in Requests : ~InFlight(r)

\* Every request that was accepted is answered unless the process is killed:
\* no handler waits behind the worker's sentinel (daemon.py:338-351).
NoRequestIsLost == kills = 0 => \A r \in Requests : req[r] # "lost"

\* With no operation in progress and no interrupted delete, a status of indexed
\* names the generation queries read, in this process and after a restart.
Quiet == lock = NoId /\ \A j \in Jobs : ~Alive(j)
IndexedIsServed ==
  Quiet /\ ~cut /\ status.state = "indexed" =>
    /\ live.active = [id |-> status.job, state |-> "whole"]
    /\ kept = live

\* An accepted request is eventually answered, or its connection dies.
RequestsEnd == \A r \in Requests : InFlight(r) ~> ~InFlight(r)

\* A started job eventually reports how it ended, unless the process ends first
\* or that very report cannot be written
\* (tests/chdb/test_daemon.py:151 "instead of hanging at 'running'/'queued'").
JobsReport ==
  \A j \in Jobs : job[j] = "started" ~>
    \/ status.job = j /\ status.state \in {"indexed", "failed"}
    \/ main = "exited" \/ job[j] = "silent"

\* A shutdown request ends the process, whatever job or query is running, if
\* no client holds a connection for ever without sending a request.
ShutdownEnds ==
  (\A r \in Requests : []<>(req[r] # "open")) => (stop ~> main = "exited")

-----------------------------------------------------------------------------
(* What the documents say and the code does not do.                        *)

\* "index_status reflects reality" (INV-3): a status of queued or running is
\* that of a job in progress.
RunningIsRunning ==
  main = "serving" /\ status.state \in {"queued", "running"} =>
    lock # NoId \/ (status.job \in Jobs /\ Alive(status.job))

\* No final status disagrees with the contents of the tables: an indexed graph
\* is whole (daemon.py:263-265).
IndexedIsWhole ==
  Quiet /\ main = "serving" /\ status.state = "indexed" =>
    live.active = [id |-> status.job, state |-> "whole"]
=============================================================================
