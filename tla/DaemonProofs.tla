---------------------------- MODULE DaemonProofs ----------------------------
(***************************************************************************)
(* What the lock, the worker's queue and the order of the shutdown give,   *)
(* for any number of requests, jobs, kills, restarts and failing writes:   *)
(* one writer at a time, no job once serve() has cancelled, no accepted    *)
(* request without an answer, and an indexed status that names what is     *)
(* served.                                                                 *)
(***************************************************************************)
EXTENDS Daemon, TLAPS, SequenceTheorems

\* What the shutdown relies on: nothing is connected, and no job started, once
\* the connections have been drained.
ShutdownInv ==
  main \in {"joining", "stopping", "awaiting", "unlinking"} =>
    /\ cancel
    /\ \A r \in Requests : ~InFlight(r) /\ req[r] # "open"

\* Requests that exclude a job: one that starts the next, or wipes.
Starts(r) == req[r] \in {"minting", "queueing", "starting"}
Wipes(r)  == Kind[r] = "delete" /\ req[r] = "waiting"

LockInv ==
  /\ \A r \in Requests : Starts(r) \/ Wipes(r) \/ req[r] = "coalescing" => lock = r
  /\ \A r \in Requests : Starts(r) \/ Wipes(r) => \A j \in Jobs : ~Alive(j)
  /\ \A r \in Requests : req[r] \in {"queueing", "starting"} => mine[r] \in Jobs /\ job[mine[r]] = "unused"
  /\ \A j \in Jobs : Alive(j) => thread = j

\* Whom a closure serves, given where requests and jobs are, and what has been
\* resolved.
Serves(item, where, run, outcome) ==
  /\ item.kind = "query" => item.for \in Requests /\ Kind[item.for] # "delete"
  /\ item.kind = "wipe"  =>
       /\ item.for \in Requests /\ Kind[item.for] = "delete"
       /\ where[item.for] = "waiting" /\ outcome[item.for] = "none"
  /\ item.kind = "load"  =>
       item.for \in Jobs /\ run[item.for] = "waiting" /\ outcome[item.for] = "none"

Queued(kind) == {n \in 1..Len(queue) : queue[n].kind = kind}

QueueInv ==
  /\ \A n \in 1..Len(queue) : Serves(queue[n], req, job, result)
  /\ worker \in {"reading", "loading", "published", "wiping"} => Serves(current, req, job, result)
  /\ worker = "reading" => current.kind = "query"
  /\ worker \in {"loading", "published"} => current.kind = "load" /\ Queued("load") = {}
  /\ worker = "wiping" => current.kind = "wipe" /\ Queued("wipe") = {}
  /\ \A kind \in {"load", "wipe"} : \A m, n \in Queued(kind) : m = n
  /\ \A r \in Requests : Kind[r] = "delete" /\ result[r] # "none" => req[r] \in {"waiting", "answered"}
  /\ \A j \in Jobs : job[j] \in {"unused", "started", "extracting", "submitting"} => result[j] = "none"

\* Whose identifier status.json holds.
StatusInv ==
  /\ \A j \in Jobs : Alive(j) => status.job = j
  /\ \A r \in Requests : req[r] = "starting" => status.job = mine[r]
  /\ \A r \in Requests : req[r] = "coalescing" => status.job = thread

Active(j) == live.active = [id |-> j, state |-> "whole"]

\* The graph on the way from a load to the status that reports it.
GraphInv ==
  /\ worker = "loading" => candidate = current.for
  /\ worker = "published" => Active(current.for)
  /\ worker = "wiping" => cut
  /\ \A j \in Jobs : job[j] = "waiting" /\ result[j] = "ok" => Active(j) /\ kept = live
  /\ \A j \in Jobs : job[j] \in {"started", "extracting", "submitting", "waiting"} => status.state # "indexed"
  /\ \A r \in Requests : req[r] = "starting" => status.state # "indexed"
  /\ status.state = "indexed" /\ ~cut => Active(status.job) /\ kept = live

Inv ==
  /\ TypeOK
  /\ ShutdownInv /\ NoRequestIsLost /\ LockInv /\ QueueInv /\ StatusInv /\ GraphInv

-----------------------------------------------------------------------------
(* Types.                                                                  *)

States == {"uninitialized", "queued", "running", "indexed", "failed"}

LEMMA InitTypes == Init => ProcessTypes /\ FlagTypes
<1> SUFFICES ASSUME Init PROVE ProcessTypes /\ FlagTypes
  OBVIOUS
<1>1. Sentinel \in Items /\ queue \in Seq(Items)
  BY DEF Init, Sentinel, Items
<1>2. MaxKills \in Nat /\ MaxRestarts \in Nat /\ MaxUnwritten \in Nat
  BY DaemonBounds
<1>3. FlagTypes
  BY Zenon DEF Init, FlagTypes
<1> QED
  BY <1>1, <1>2, <1>3 DEF Init, ProcessTypes, NoReply, RequestStates, JobStates, WorkerStates,
       MainStates

\* What write_status does, if it returns.
LEMMA StatusTypes ==
  ASSUME ProcessTypes, NEW state \in States, NEW j \in Jobs \cup {NoId},
         Status(state, j) \/ StatusRaises \/ UNCHANGED statusVars
  PROVE  status' \in [state : States, job : Jobs \cup {NoId}] /\ unwritten' \in 0..MaxUnwritten
<1>1. MaxUnwritten \in Nat
  BY DaemonBounds
<1> QED BY <1>1 DEF ProcessTypes, Status, StatusRaises, statusVars, States

LEMMA SubmitTypes ==
  ASSUME ProcessTypes, NEW kind, NEW w, [kind |-> kind, for |-> w] \in Items, Submits(kind, w)
  PROVE  /\ queue' \in Seq(Items) /\ current' \in Items /\ worker' \in WorkerStates
         /\ result' \in [Waiters -> {"none", "ok", "error"}]
BY DEF ProcessTypes, Submits

LEMMA HandlerTypes ==
  ASSUME ProcessTypes, NEW r \in Requests, Handler(r) \/ Connect(r) \/ Arrive(r)
  PROVE  ProcessTypes'
<1> USE DEF ProcessTypes, requestVars, jobVars, workerVars, flagVars, statusVars, boundVars
<1>1. CASE Query(r)
  BY <1>1, SubmitTypes DEF Query, Goes, Items, RequestStates
<1>2. CASE QueryAnswered(r)
  BY <1>2 DEF QueryAnswered, Goes, RequestStates
<1>3. CASE IndexChecksStop(r)
  BY <1>3 DEF IndexChecksStop, Goes, RequestStates
<1>4. CASE IndexLocks(r)
  BY <1>4 DEF IndexLocks, Goes, RequestStates
<1>5. CASE Coalesce(r)
  BY <1>5 DEF Coalesce, Goes, RequestStates
<1>6. CASE ClearCancel(r)
  BY <1>6 DEF ClearCancel, Fresh, Goes, RequestStates
<1>7. CASE WriteQueued(r)
  BY <1>7, StatusTypes DEF WriteQueued, Goes, States, RequestStates
<1>8. CASE StartThread(r)
  BY <1>8 DEF StartThread, Goes, JobStates, RequestStates
<1>9. CASE DeleteArrives(r)
  BY <1>9 DEF DeleteArrives, Goes, RequestStates
<1>10. CASE DeleteRefused(r)
  BY <1>10 DEF DeleteRefused, Goes, RequestStates
<1>11. CASE DeleteSubmits(r)
  BY <1>11, SubmitTypes DEF DeleteSubmits, Goes, Items, RequestStates
<1>12. CASE DeleteAnswered(r)
  BY <1>12, StatusTypes DEF DeleteAnswered, Goes, States, RequestStates
<1>13. CASE Shutdown(r)
  BY <1>13 DEF Shutdown, Goes, RequestStates
<1>14. CASE Connect(r)
  BY <1>14 DEF Connect, Goes, RequestStates
<1>15. CASE Arrive(r)
  BY <1>15 DEF Arrive, Goes, RequestStates
<1> QED BY <1>1, <1>2, <1>3, <1>4, <1>5, <1>6, <1>7, <1>8, <1>9, <1>10, <1>11, <1>12, <1>13,
     <1>14, <1>15 DEF Handler

LEMMA JobTypes ==
  ASSUME ProcessTypes, NEW j \in Jobs, IndexJob(j)
  PROVE  ProcessTypes'
<1> USE DEF ProcessTypes, requestVars, jobVars, workerVars, flagVars, statusVars, boundVars
<1>1. CASE JobRuns(j)
  BY <1>1, StatusTypes DEF JobRuns, JobGoes, States, JobStates
<1>2. CASE Extract(j)
  BY <1>2 DEF Extract, JobGoes, JobStates
<1>3. CASE JobSubmits(j)
  BY <1>3, SubmitTypes DEF JobSubmits, JobGoes, Items, JobStates
<1>4. CASE JobReports(j)
  BY <1>4, StatusTypes DEF JobReports, JobGoes, States, JobStates
<1>5. CASE ReportRaises(j)
  BY <1>5, StatusTypes DEF ReportRaises, JobGoes, States, JobStates
<1>6. CASE JobEnds(j)
  BY <1>6 DEF JobEnds, JobGoes, JobStates
<1> QED BY <1>1, <1>2, <1>3, <1>4, <1>5, <1>6 DEF IndexJob

LEMMA TakeTypes ==
  ASSUME ProcessTypes, NEW kind, NEW pc \in WorkerStates, Take(kind, pc)
  PROVE  queue' \in Seq(Items) /\ current' \in Items /\ worker' \in WorkerStates
<1>1. queue # <<>> /\ queue \in Seq(Items)
  BY DEF Take, ProcessTypes
<1>2. Head(queue) \in Items /\ Tail(queue) \in Seq(Items)
  BY <1>1, HeadTailProperties
<1> QED BY <1>2 DEF Take

LEMMA ResolveTypes ==
  ASSUME ProcessTypes, NEW outcome \in {"ok", "error"}, Resolves(outcome)
  PROVE  /\ queue' \in Seq(Items) /\ current' \in Items /\ worker' \in WorkerStates
         /\ result' \in [Waiters -> {"none", "ok", "error"}]
BY DEF ProcessTypes, Resolves, Sentinel, Items, WorkerStates

LEMMA WorkerTypes ==
  ASSUME ProcessTypes, Worker
  PROVE  ProcessTypes'
<1> USE DEF ProcessTypes, requestVars, jobVars, workerVars, flagVars, statusVars, boundVars, Take, Resolves
<1>1. CASE RunQuery
  BY <1>1, TakeTypes DEF RunQuery, WorkerStates
<1>2. CASE QueryReturns
  BY <1>2, ResolveTypes DEF QueryReturns, WorkerStates
<1>3. CASE RunLoad
  BY <1>3, TakeTypes DEF RunLoad, WorkerStates
<1>4. CASE LoadPublishes
  BY <1>4 DEF LoadPublishes, WorkerStates
<1>5. CASE LoadReturns
  BY <1>5, ResolveTypes DEF LoadReturns, WorkerStates
<1>6. CASE LoadRaises
  BY <1>6, ResolveTypes DEF LoadRaises, WorkerStates
<1>7. CASE RunWipe
  BY <1>7, TakeTypes DEF RunWipe, WorkerStates
<1>8. CASE WipeCuts
  BY <1>8 DEF WipeCuts, WorkerStates
<1>9. CASE WipeReturns
  BY <1>9, ResolveTypes DEF WipeReturns, WorkerStates
<1>10. CASE WipeRaises
  BY <1>10, ResolveTypes DEF WipeRaises, WorkerStates
<1>11. CASE RunSentinel
  BY <1>11, TakeTypes DEF RunSentinel, WorkerStates
<1>12. CASE CloseStore
  BY <1>12 DEF CloseStore, WorkerStates
<1> QED BY <1>1, <1>2, <1>3, <1>4, <1>5, <1>6, <1>7, <1>8, <1>9, <1>10, <1>11, <1>12 DEF Worker

LEMMA DiesTypes ==
  ASSUME ProcessTypes, Dies, kills' \in 0..MaxKills
  PROVE  ProcessTypes'
<1>1. queue' \in Seq(Items) /\ current' \in Items
  BY DEF Dies, Sentinel, Items
<1>2. req' \in [Requests -> RequestStates]
  BY DEF Dies, ProcessTypes, RequestStates
<1>3. job' \in [Jobs -> JobStates]
  BY DEF Dies, ProcessTypes, JobStates
<1> QED BY <1>1, <1>2, <1>3 DEF Dies, ProcessTypes, statusVars, WorkerStates, MainStates

LEMMA MainTypes ==
  ASSUME ProcessTypes, Main \/ Kill \/ Restart
  PROVE  ProcessTypes'
<1> USE DEF ProcessTypes, requestVars, jobVars, workerVars, flagVars, statusVars, boundVars
<1>1. CASE CloseServer
  BY <1>1 DEF CloseServer, MainGoes, MainStates
<1>2. CASE Drained
  BY <1>2 DEF Drained, MainGoes, MainStates
<1>3. CASE Joined
  BY <1>3 DEF Joined, MainGoes, MainStates
<1>4. CASE StopWorker
  BY <1>4, SubmitTypes DEF StopWorker, MainGoes, Items, Sentinel, MainStates
<1>5. CASE WorkerStopped
  BY <1>5 DEF WorkerStopped, MainGoes, MainStates
<1>6. CASE Exit
  BY <1>6, DiesTypes DEF Exit
<1>7. CASE Kill
  <2>1. kills' \in 0..MaxKills
    BY <1>7, DaemonBounds DEF Kill
  <2> QED BY <1>7, <2>1, DiesTypes DEF Kill
<1>8. CASE Restart
  BY <1>8, DaemonBounds DEF Restart, MainStates, WorkerStates
<1> QED BY <1>1, <1>2, <1>3, <1>4, <1>5, <1>6, <1>7, <1>8 DEF Main

-----------------------------------------------------------------------------
(* Flags, and the graph.                                                   *)

LEMMA StatusFlags ==
  ASSUME FlagTypes, NEW state, NEW j, Status(state, j) \/ StatusRaises \/ UNCHANGED statusVars
  PROVE  cut' \in BOOLEAN
BY Zenon DEF FlagTypes, Status, StatusRaises, statusVars

LEMMA FlagStep ==
  ASSUME FlagTypes, Next
  PROVE  FlagTypes'
<1> USE DEF FlagTypes
<1>1. ASSUME NEW r \in Requests, Handler(r) \/ Connect(r) \/ Arrive(r) PROVE FlagTypes'
  <2>1. cut' \in BOOLEAN
    BY Zenon, <1>1, StatusFlags DEF Handler, Query, QueryAnswered, IndexChecksStop, IndexLocks,
         Coalesce, ClearCancel, WriteQueued, StartThread, DeleteArrives, DeleteRefused,
         DeleteSubmits, DeleteAnswered, Shutdown, Connect, Arrive, statusVars
  <2>2. cancel' \in BOOLEAN /\ stop' \in BOOLEAN
    BY Zenon, <1>1 DEF Handler, Query, QueryAnswered, IndexChecksStop, IndexLocks, Coalesce,
         ClearCancel, WriteQueued, StartThread, DeleteArrives, DeleteRefused, DeleteSubmits,
         DeleteAnswered, Shutdown, Connect, Arrive, flagVars
  <2> QED BY <2>1, <2>2
<1>2. ASSUME NEW j \in Jobs, IndexJob(j) PROVE FlagTypes'
  <2>1. cut' \in BOOLEAN
    BY Zenon, <1>2, StatusFlags DEF IndexJob, JobRuns, Extract, JobSubmits, JobReports,
         ReportRaises, JobEnds, statusVars
  <2>2. UNCHANGED flagVars
    BY Zenon, <1>2 DEF IndexJob, JobRuns, Extract, JobSubmits, JobReports, ReportRaises, JobEnds
  <2> QED BY Zenon, <2>1, <2>2 DEF flagVars
<1>3. CASE Worker
  BY Zenon, <1>3 DEF Worker, RunQuery, QueryReturns, RunLoad, LoadPublishes, LoadReturns,
       LoadRaises, RunWipe, WipeCuts, WipeReturns, WipeRaises, RunSentinel, CloseStore, Take,
       Resolves, flagVars, statusVars
<1>4. CASE Main \/ Kill \/ Restart
  BY Zenon, <1>4 DEF Main, CloseServer, Drained, Joined, StopWorker, WorkerStopped, Exit, Kill,
       Restart, MainGoes, Dies, flagVars, statusVars
<1> QED BY <1>1, <1>2, <1>3, <1>4 DEF Next

LEMMA GraphSteps ==
  ASSUME ProcessTypes, Next
  PROVE  Graph!Next \/ UNCHANGED graphVars
<1>1. ASSUME NEW r \in Requests, Handler(r) \/ Connect(r) \/ Arrive(r) PROVE UNCHANGED graphVars
  BY <1>1 DEF Handler, Query, QueryAnswered, IndexChecksStop, IndexLocks, Coalesce, ClearCancel,
       WriteQueued, StartThread, DeleteArrives, DeleteRefused, DeleteSubmits, DeleteAnswered,
       Shutdown, Connect, Arrive
<1>2. ASSUME NEW j \in Jobs, IndexJob(j) PROVE UNCHANGED graphVars
  BY <1>2 DEF IndexJob, JobRuns, Extract, JobSubmits, JobReports, ReportRaises, JobEnds
<1>3. CASE Worker
  <2>1. CASE RunLoad
    <3>1. queue # <<>> /\ queue \in Seq(Items) /\ Head(queue).kind = "load"
      BY <2>1 DEF RunLoad, Take, ProcessTypes
    <3>2. Head(queue) \in Items
      BY <3>1, HeadTailProperties
    <3>3. Head(queue).for \in Jobs
      BY <3>1, <3>2 DEF Items, Sentinel
    <3> QED BY <2>1, <3>3 DEF RunLoad, Graph!Next
  <2> QED BY <1>3, <2>1 DEF Worker, RunQuery, QueryReturns, LoadPublishes, LoadReturns,
       LoadRaises, RunWipe, WipeCuts, WipeReturns, WipeRaises, RunSentinel, CloseStore,
       Graph!Next
<1>4. CASE Main \/ Kill \/ Restart
  BY <1>4 DEF Main, CloseServer, Drained, Joined, StopWorker, WorkerStopped, Exit, Kill,
       Restart, MainGoes, Dies, Graph!Next
<1> QED BY <1>1, <1>2, <1>3, <1>4 DEF Next

LEMMA GraphTypes ==
  ASSUME Graph!TypeOK, Graph!Next \/ UNCHANGED graphVars
  PROVE  Graph!TypeOK'
<1> USE DEF Graph!TypeOK
<1>1. CASE UNCHANGED graphVars
  BY <1>1 DEF graphVars
<1>2. ASSUME NEW g \in Jobs, Graph!Begin(g) PROVE Graph!TypeOK'
  BY <1>2 DEF Graph!Begin
<1>3. CASE Graph!Publish
  BY <1>3 DEF Graph!Publish, Graph!Published, Graph!Views
<1>4. CASE Graph!Abandon \/ Graph!Persist \/ Graph!Restart
  BY <1>4, Zenon DEF Graph!Abandon, Graph!Persist, Graph!Restart
<1>5. CASE Graph!BeginDelete
  BY <1>5 DEF Graph!BeginDelete
<1>6. CASE Graph!Tear
  <2>1. ASSUME NEW v \in Graph!Views PROVE Graph!Damage(v) \subseteq Graph!Views
    <3>1. CASE v \in [id : Jobs, state : {"whole", "torn"}]
      <4>1. [v EXCEPT !.state = "torn"] \in [id : Jobs, state : {"whole", "torn"}]
        BY <3>1
      <4> QED BY <3>1, <4>1 DEF Graph!Damage, Graph!Views
    <3>2. CASE v \in {[id |-> i, state |-> "unversioned"] : i \in {Logical, NoId}}
      BY <2>1, <3>2, NamesAssumption DEF Graph!Damage
    <3> QED BY <2>1, <3>1, <3>2 DEF Graph!Views
  <2>2. live.active \in Graph!Views /\ live.prior \in Graph!Views
    BY DEF Graph!Published
  <2>3. live' \in Graph!Published
    BY <1>6, <2>1, <2>2 DEF Graph!Tear, Graph!Published
  <2>4. kept' \in Graph!Published /\ UNCHANGED <<candidate, built>>
    BY <1>6, <2>3 DEF Graph!Tear
  <2>5. deleting' \in BOOLEAN
    BY <1>6, Zenon DEF Graph!Tear
  <2> QED BY <2>3, <2>4, <2>5
<1>7. CASE Graph!Forget
  <2>1. Graph!Nothing \in Graph!Published
    BY DEF Graph!Nothing, Graph!Published, Graph!Views, Graph!View
  <2>2. live' \in Graph!Published /\ kept' \in Graph!Published
    BY <1>7, <2>1 DEF Graph!Forget
  <2>3. deleting' \in BOOLEAN
    BY <1>7, Zenon DEF Graph!Forget
  <2> QED BY <1>7, <2>2, <2>3, Zenon DEF Graph!Forget
<1> QED BY <1>1, <1>2, <1>3, <1>4, <1>5, <1>6, <1>7 DEF Graph!Next

-----------------------------------------------------------------------------
(* The shutdown.                                                           *)

LEMMA ShutdownStep ==
  ASSUME ProcessTypes, ShutdownInv, NoRequestIsLost, Next
  PROVE  ShutdownInv' /\ NoRequestIsLost'
<1> USE DEF ShutdownInv, NoRequestIsLost, InFlight
<1>1. ASSUME NEW r \in Requests, Handler(r) \/ Connect(r) \/ Arrive(r)
      PROVE  ShutdownInv' /\ NoRequestIsLost'
  <2>1. InFlight(r) \/ req[r] = "open" \/ main = "serving"
    BY <1>1 DEF Handler, Query, QueryAnswered, IndexChecksStop, IndexLocks, Coalesce,
         ClearCancel, WriteQueued, StartThread, DeleteArrives, DeleteRefused, DeleteSubmits,
         DeleteAnswered, Shutdown, Connect, Arrive
  <2>2. UNCHANGED <<main, kills>>
    BY <1>1 DEF Handler, Query, QueryAnswered, IndexChecksStop, IndexLocks, Coalesce,
         ClearCancel, WriteQueued, StartThread, DeleteArrives, DeleteRefused, DeleteSubmits,
         DeleteAnswered, Shutdown, Connect, Arrive, boundVars
  <2>3. \A q \in Requests : req'[q] = "lost" => req[q] = "lost"
    BY <1>1 DEF Handler, Query, QueryAnswered, IndexChecksStop, IndexLocks, Coalesce,
         ClearCancel, WriteQueued, StartThread, DeleteArrives, DeleteRefused, DeleteSubmits,
         DeleteAnswered, Shutdown, Connect, Arrive, Goes, ProcessTypes
  <2> QED BY <2>1, <2>2, <2>3
<1>2. ASSUME NEW j \in Jobs, IndexJob(j) PROVE ShutdownInv' /\ NoRequestIsLost'
  BY <1>2 DEF IndexJob, JobRuns, Extract, JobSubmits, JobReports, ReportRaises, JobEnds,
       requestVars, flagVars, boundVars
<1>3. CASE Worker
  BY <1>3 DEF Worker, RunQuery, QueryReturns, RunLoad, LoadPublishes, LoadReturns, LoadRaises,
       RunWipe, WipeCuts, WipeReturns, WipeRaises, RunSentinel, CloseStore, Take, Resolves,
       requestVars, flagVars, boundVars
<1>4. CASE CloseServer \/ Drained \/ Joined \/ StopWorker \/ WorkerStopped
  BY <1>4 DEF CloseServer, Drained, Joined, StopWorker, WorkerStopped, MainGoes, requestVars,
       boundVars
<1>5. CASE Exit
  BY <1>5 DEF Exit, Dies, ProcessTypes
<1>6. CASE Kill
  <2>1. kills' # 0 /\ main' = "exited"
    BY <1>6 DEF Kill, Dies, ProcessTypes
  <2> QED BY <2>1
<1>7. CASE Restart
  BY <1>7 DEF Restart, requestVars
<1> QED BY <1>1, <1>2, <1>3, <1>4, <1>5, <1>6, <1>7 DEF Next, Main

-----------------------------------------------------------------------------
(* The lock.                                                               *)

LEMMA HandlerLock ==
  ASSUME ProcessTypes, LockInv, NEW r \in Requests, Handler(r) \/ Connect(r) \/ Arrive(r)
  PROVE  LockInv'
<1> USE DEF LockInv, Starts, Wipes, Alive, ProcessTypes, Goes, jobVars
<1>1. CASE Query(r)
  BY <1>1, KindAssumption DEF Query
<1>2. CASE QueryAnswered(r)
  BY <1>2, KindAssumption DEF QueryAnswered
<1>3. CASE IndexChecksStop(r)
  BY <1>3, KindAssumption DEF IndexChecksStop
<1>4. CASE IndexLocks(r)
  BY <1>4, KindAssumption, NamesAssumption DEF IndexLocks, JobIsAlive
<1>5. CASE Coalesce(r)
  BY <1>5, KindAssumption DEF Coalesce
<1>6. CASE ClearCancel(r)
  <2> DEFINE chosen == CHOOSE j \in Fresh : TRUE
  <2>1. chosen \in Fresh
    BY <1>6 DEF ClearCancel
  <2>2. chosen \in Jobs /\ job[chosen] = "unused"
    BY <2>1 DEF Fresh
  <2>3. mine' = [mine EXCEPT ![r] = chosen]
    BY <1>6 DEF ClearCancel
  <2> HIDE DEF chosen
  <2>4. mine'[r] = chosen
    BY <2>3
  <2>5. req[r] = "minting" /\ req' = [req EXCEPT ![r] = "queueing"] /\ UNCHANGED <<lock, job, thread>>
    BY <1>6 DEF ClearCancel
  <2>6. \A q \in Requests : q # r => ~Starts(q) /\ req'[q] = req[q]
    BY <2>5
  <2> QED BY <2>2, <2>4, <2>5, <2>6
<1>7. CASE WriteQueued(r)
  BY <1>7, KindAssumption DEF WriteQueued
<1>8. CASE StartThread(r)
  BY <1>8, KindAssumption DEF StartThread
<1>9. CASE DeleteArrives(r)
  BY <1>9, KindAssumption DEF DeleteArrives
<1>10. CASE DeleteRefused(r)
  BY <1>10, KindAssumption DEF DeleteRefused
<1>11. CASE DeleteSubmits(r)
  BY <1>11, KindAssumption, NamesAssumption DEF DeleteSubmits, JobIsAlive
<1>12. CASE DeleteAnswered(r)
  BY <1>12, KindAssumption DEF DeleteAnswered
<1>13. CASE Shutdown(r)
  BY <1>13, KindAssumption DEF Shutdown
<1>14. CASE Connect(r)
  BY <1>14, KindAssumption DEF Connect
<1>15. CASE Arrive(r)
  BY <1>15, KindAssumption DEF Arrive
<1> QED BY <1>1, <1>2, <1>3, <1>4, <1>5, <1>6, <1>7, <1>8, <1>9, <1>10, <1>11, <1>12, <1>13,
     <1>14, <1>15 DEF Handler

LEMMA LockStep ==
  ASSUME ProcessTypes, LockInv, Next
  PROVE  LockInv'
<1> USE DEF LockInv, Starts, Wipes, Alive
<1>1. ASSUME NEW r \in Requests, Handler(r) \/ Connect(r) \/ Arrive(r) PROVE LockInv'
  BY <1>1, HandlerLock
<1>2. ASSUME NEW j \in Jobs, IndexJob(j) PROVE LockInv'
  <2>1. UNCHANGED <<requestVars, thread>> /\ Alive(j)
    BY <1>2 DEF IndexJob, JobRuns, Extract, JobSubmits, JobReports, ReportRaises, JobEnds
  <2>2. \A i \in Jobs : Alive(i)' => Alive(i)
    BY <1>2 DEF IndexJob, JobRuns, Extract, JobSubmits, JobReports, ReportRaises, JobEnds,
         JobGoes, ProcessTypes
  <2> QED BY <2>1, <2>2 DEF requestVars
<1>3. CASE Worker
  BY <1>3 DEF Worker, RunQuery, QueryReturns, RunLoad, LoadPublishes, LoadReturns, LoadRaises,
       RunWipe, WipeCuts, WipeReturns, WipeRaises, RunSentinel, CloseStore, Take, Resolves,
       requestVars, jobVars
<1>4. CASE Exit \/ Kill
  BY <1>4 DEF Exit, Kill, Dies, ProcessTypes, InFlight
<1>5. CASE CloseServer \/ Drained \/ Joined \/ StopWorker \/ WorkerStopped \/ Restart
  BY <1>5 DEF CloseServer, Drained, Joined, StopWorker, WorkerStopped, Restart, MainGoes,
       requestVars, jobVars
<1> QED BY <1>1, <1>2, <1>3, <1>4, <1>5 DEF Next, Main

-----------------------------------------------------------------------------
(* The queue.                                                              *)

\* What the results of requests and jobs have in common.
Unresolved(where, run, outcome) ==
  /\ \A r \in Requests :
       Kind[r] = "delete" /\ outcome[r] # "none" => where[r] \in {"waiting", "answered"}
  /\ \A j \in Jobs :
       run[j] \in {"unused", "started", "extracting", "submitting"} => outcome[j] = "none"

\* One more closure, when the others stay as they are.
LEMMA QueueGrows ==
  ASSUME ProcessTypes, QueueInv, NEW x \in Items, queue' = Append(queue, x),
         UNCHANGED <<worker, current, result>>, Serves(x, req', job', result'),
         \A y \in Items : Serves(y, req, job, result) => Serves(y, req', job', result'),
         x.kind = "wipe" => Queued("wipe") = {} /\ worker # "wiping",
         x.kind = "load" => Queued("load") = {} /\ worker \notin {"loading", "published"},
         Unresolved(req', job', result')
  PROVE  QueueInv'
<1>1. queue \in Seq(Items) /\ current \in Items
  BY DEF ProcessTypes
<1>2. /\ Len(queue') = Len(queue) + 1
      /\ \A n \in 1..Len(queue) : queue'[n] = queue[n] /\ queue[n] \in Items
      /\ queue'[Len(queue) + 1] = x
  BY <1>1
<1>3. \A n \in 1..Len(queue') : n \in 1..Len(queue) \/ n = Len(queue) + 1
  BY <1>1, <1>2
<1>4. \A n \in 1..Len(queue') : Serves(queue'[n], req', job', result')
  BY <1>2, <1>3 DEF QueueInv
<1>5. ASSUME NEW kind \in {"load", "wipe"}
      PROVE  Queued(kind)' \subseteq Queued(kind) \cup (IF x.kind = kind THEN {Len(queue) + 1} ELSE {})
  BY <1>2, <1>3 DEF Queued
<1>6. \A kind \in {"load", "wipe"} : \A m, n \in Queued(kind)' : m = n
  BY <1>5 DEF QueueInv
<1>7. Serves(current, req, job, result) => Serves(current', req', job', result')
  BY <1>1
<1> QED BY <1>1, <1>4, <1>5, <1>6, <1>7 DEF QueueInv, Unresolved

\* The queue and its results stay; so do the requests and jobs that wait.
LEMMA QueueStays ==
  ASSUME ProcessTypes, QueueInv, UNCHANGED workerVars,
         \A y \in Items : Serves(y, req, job, result) => Serves(y, req', job', result'),
         Unresolved(req', job', result')
  PROVE  QueueInv'
<1>1. \A n \in 1..Len(queue) : queue[n] \in Items
  BY DEF ProcessTypes
<1>2. current \in Items
  BY DEF ProcessTypes
<1> QED BY <1>1, <1>2 DEF QueueInv, Queued, workerVars, Unresolved

LEMMA HandlerQueue ==
  ASSUME ProcessTypes, LockInv, QueueInv, NEW r \in Requests, Handler(r) \/ Connect(r) \/ Arrive(r)
  PROVE  QueueInv'
<1>1. UNCHANGED result
  BY DEF Handler, Query, QueryAnswered, IndexChecksStop, IndexLocks, Coalesce, ClearCancel,
       WriteQueued, StartThread, DeleteArrives, DeleteRefused, DeleteSubmits, DeleteAnswered,
       Shutdown, Connect, Arrive, Submits, workerVars
<1>2. ~(Wipes(r) /\ result[r] = "none")
  BY KindAssumption DEF Handler, Query, QueryAnswered, IndexChecksStop, IndexLocks, Coalesce,
       ClearCancel, WriteQueued, StartThread, DeleteArrives, DeleteRefused, DeleteSubmits,
       DeleteAnswered, Shutdown, Connect, Arrive, Wipes
<1>3. \A q \in Requests : q # r => req'[q] = req[q]
  BY DEF Handler, Query, QueryAnswered, IndexChecksStop, IndexLocks, Coalesce, ClearCancel,
       WriteQueued, StartThread, DeleteArrives, DeleteRefused, DeleteSubmits, DeleteAnswered,
       Shutdown, Connect, Arrive, Goes, ProcessTypes
<1>4. \A j \in Jobs : job'[j] = job[j] \/ (~Alive(j) /\ job'[j] = "started" /\ job[j] = "unused")
  BY DEF Handler, Query, QueryAnswered, IndexChecksStop, IndexLocks, Coalesce, ClearCancel,
       WriteQueued, StartThread, DeleteArrives, DeleteRefused, DeleteSubmits, DeleteAnswered,
       Shutdown, Connect, Arrive, LockInv, Starts, Alive, ProcessTypes, jobVars
<1>5. \A y \in Items : Serves(y, req, job, result) => Serves(y, req', job', result')
  BY <1>1, <1>2, <1>3, <1>4 DEF Serves, Wipes, Alive
<1>6. Kind[r] = "delete" /\ result[r] # "none" => req'[r] \in {"waiting", "answered"}
  BY KindAssumption DEF QueueInv, Handler, Query, QueryAnswered, IndexChecksStop, IndexLocks,
       Coalesce, ClearCancel, WriteQueued, StartThread, DeleteArrives, DeleteRefused,
       DeleteSubmits, DeleteAnswered, Shutdown, Connect, Arrive, Goes, ProcessTypes
<1>7. Unresolved(req', job', result')
  BY <1>1, <1>3, <1>4, <1>6 DEF QueueInv, Unresolved
<1>8. CASE Query(r)
  <2> DEFINE x == [kind |-> "query", for |-> r]
  <2>1. x \in Items /\ queue' = Append(queue, x) /\ UNCHANGED <<worker, current>>
    BY <1>8 DEF Query, Submits, Items
  <2>2. Serves(x, req', job', result')
    BY <1>8 DEF Query, Serves
  <2> QED BY <1>1, <1>5, <1>7, <2>1, <2>2, QueueGrows
<1>9. CASE DeleteSubmits(r)
  <2> DEFINE x == [kind |-> "wipe", for |-> r]
  <2>1. x \in Items /\ queue' = Append(queue, x) /\ UNCHANGED <<worker, current>>
    BY <1>9 DEF DeleteSubmits, Submits, Items
  <2>2. result[r] = "none"
    BY <1>9 DEF DeleteSubmits, QueueInv
  <2>3. Serves(x, req', job', result')
    BY <1>1, <1>9, <2>2 DEF DeleteSubmits, Serves, Goes, ProcessTypes
  <2>4. \A q \in Requests : ~Wipes(q)
    BY <1>9, NamesAssumption DEF DeleteSubmits, LockInv
  <2>5. Queued("wipe") = {} /\ worker # "wiping"
    BY <2>4 DEF QueueInv, Queued, Serves, Wipes
  <2> QED BY <1>1, <1>5, <1>7, <2>1, <2>3, <2>5, QueueGrows
<1>10. CASE ~Query(r) /\ ~DeleteSubmits(r)
  <2>1. UNCHANGED workerVars
    BY <1>10 DEF Handler, QueryAnswered, IndexChecksStop, IndexLocks, Coalesce, ClearCancel,
         WriteQueued, StartThread, DeleteArrives, DeleteRefused, DeleteAnswered, Shutdown,
         Connect, Arrive
  <2> QED BY <1>5, <1>7, <2>1, QueueStays
<1> QED BY <1>8, <1>9, <1>10

LEMMA TakeQueue ==
  ASSUME ProcessTypes, QueueInv, NEW kind \in {"query", "load", "wipe", "stop"},
         NEW pc \in {"reading", "loading", "wiping", "acknowledged"}, Take(kind, pc), UNCHANGED result,
         <<kind, pc>> \in {<<"query", "reading">>, <<"load", "loading">>,
                           <<"wipe", "wiping">>, <<"stop", "acknowledged">>}
  PROVE  QueueInv'
<1>1. queue # <<>> /\ queue \in Seq(Items) /\ UNCHANGED <<req, job>>
  BY DEF Take, ProcessTypes, requestVars, jobVars
<1>2. /\ Len(queue') = Len(queue) - 1 /\ Len(queue) \in Nat \ {0}
      /\ \A n \in 1..Len(queue') : queue'[n] = queue[n + 1] /\ n + 1 \in 1..Len(queue)
      /\ current' = queue[1] /\ 1 \in 1..Len(queue) /\ current'.kind = kind
  BY <1>1 DEF Take
<1>3. \A item : Serves(item, req', job', result') <=> Serves(item, req, job, result)
  BY <1>1 DEF Serves
<1>4. /\ \A n \in 1..Len(queue') : Serves(queue'[n], req', job', result')
      /\ Serves(current', req', job', result')
  BY <1>2, <1>3 DEF QueueInv
<1>5. \A k \in {"load", "wipe"} : \A n \in Queued(k)' : n \in Nat \ {0} /\ n + 1 \in Queued(k)
  BY <1>2 DEF Queued
<1>6. \A k \in {"load", "wipe"} : \A m, n \in Queued(k)' : m = n
  BY <1>5 DEF QueueInv
<1>7. kind \in {"load", "wipe"} => Queued(kind)' = {}
  <2>1. 1 \in Queued(kind)
    BY <1>2 DEF Queued
  <2> QED BY <1>5, <2>1 DEF QueueInv
<1> QED BY <1>1, <1>2, <1>4, <1>6, <1>7 DEF QueueInv, Take

LEMMA ResolvesQueue ==
  ASSUME ProcessTypes, QueueInv, NEW outcome \in {"ok", "error"}, Resolves(outcome),
         worker \in {"reading", "loading", "published", "wiping"}
  PROVE  QueueInv'
<1>1. UNCHANGED <<queue, req, job>> /\ worker' = "ready" /\ queue \in Seq(Items)
  BY DEF Resolves, ProcessTypes, requestVars, jobVars
<1>2. Serves(current, req, job, result) /\ current \in Items
  BY DEF QueueInv, ProcessTypes
<1>3. \A w \in Waiters : w # current.for => result'[w] = result[w]
  BY DEF Resolves, ProcessTypes
<1>4. \A n \in 1..Len(queue) : Serves(queue[n], req', job', result')
  <2> SUFFICES ASSUME NEW n \in 1..Len(queue) PROVE Serves(queue[n], req', job', result')
    OBVIOUS
  <2>1. Serves(queue[n], req, job, result)
    BY DEF QueueInv
  <2>2. queue[n].kind \in {"load", "wipe"} => queue[n].for # current.for
    BY <1>2, <2>1, NamesAssumption DEF QueueInv, Queued, Serves
  <2> QED BY <1>1, <1>3, <2>1, <2>2 DEF Serves, Waiters
<1>5. \A r \in Requests : Kind[r] = "delete" /\ result'[r] # "none" => req[r] \in {"waiting", "answered"}
  BY <1>2, <1>3, NamesAssumption DEF QueueInv, Serves, Waiters
<1>6. \A j \in Jobs : job[j] \in {"unused", "started", "extracting", "submitting"} => result'[j] = "none"
  BY <1>2, <1>3, NamesAssumption DEF QueueInv, Serves, Waiters
<1> QED BY <1>1, <1>4, <1>5, <1>6 DEF QueueInv, Queued

LEMMA QueueStep ==
  ASSUME ProcessTypes, LockInv, QueueInv, Next
  PROVE  QueueInv'
<1>1. ASSUME NEW r \in Requests, Handler(r) \/ Connect(r) \/ Arrive(r) PROVE QueueInv'
  BY <1>1, HandlerQueue
<1>2. ASSUME NEW j \in Jobs, IndexJob(j) PROVE QueueInv'
  <2>1. UNCHANGED <<req, result>> /\ thread = j
    BY <1>2 DEF IndexJob, JobRuns, Extract, JobSubmits, JobReports, ReportRaises, JobEnds,
         Submits, requestVars, workerVars, LockInv, Alive
  <2>2. \A i \in Jobs : i # j => job'[i] = job[i]
    BY <1>2 DEF IndexJob, JobRuns, Extract, JobSubmits, JobReports, ReportRaises, JobEnds,
         JobGoes, ProcessTypes
  <2>3. ~(job[j] = "waiting" /\ result[j] = "none")
    BY <1>2 DEF IndexJob, JobRuns, Extract, JobSubmits, JobReports, ReportRaises, JobEnds
  <2>4. \A y \in Items : Serves(y, req, job, result) => Serves(y, req', job', result')
    BY <2>1, <2>2, <2>3 DEF Serves
  <2>5. job'[j] \in {"unused", "started", "extracting", "submitting"} => result[j] = "none"
    BY <1>2 DEF IndexJob, JobRuns, Extract, JobSubmits, JobReports, ReportRaises, JobEnds,
         JobGoes, QueueInv, ProcessTypes
  <2>6. Unresolved(req', job', result')
    BY <2>1, <2>2, <2>5 DEF QueueInv, Unresolved
  <2>7. CASE JobSubmits(j)
    <3> DEFINE x == [kind |-> "load", for |-> j]
    <3>1. x \in Items /\ queue' = Append(queue, x) /\ UNCHANGED <<worker, current>>
      BY <2>7 DEF JobSubmits, Submits, Items
    <3>2. Serves(x, req', job', result')
      BY <2>1, <2>7 DEF JobSubmits, JobGoes, Serves, QueueInv, ProcessTypes
    <3>3. \A i \in Jobs : job[i] # "waiting"
      BY <2>1, <2>7 DEF JobSubmits, LockInv, Alive
    <3>4. Queued("load") = {} /\ worker \notin {"loading", "published"}
      BY <3>3 DEF QueueInv, Queued, Serves
    <3> QED BY <2>1, <2>4, <2>6, <3>1, <3>2, <3>4, QueueGrows
  <2>8. CASE ~JobSubmits(j)
    <3>1. UNCHANGED workerVars
      BY <1>2, <2>8 DEF IndexJob, JobRuns, Extract, JobReports, ReportRaises, JobEnds
    <3> QED BY <2>4, <2>6, <3>1, QueueStays
  <2> QED BY <2>7, <2>8
<1>3. CASE Worker
  <2>1. CASE RunQuery \/ RunLoad \/ RunWipe \/ RunSentinel
    BY <2>1, TakeQueue DEF RunQuery, RunLoad, RunWipe, RunSentinel
  <2>2. CASE QueryReturns \/ LoadReturns \/ LoadRaises \/ WipeReturns \/ WipeRaises
    BY <2>2, ResolvesQueue DEF QueryReturns, LoadReturns, LoadRaises, WipeReturns, WipeRaises
  <2>3. CASE LoadPublishes \/ CloseStore
    BY <2>3 DEF LoadPublishes, CloseStore, QueueInv, Queued, requestVars, jobVars
  <2>4. CASE WipeCuts
    BY <2>4 DEF WipeCuts, QueueInv, Queued, requestVars, jobVars, workerVars
  <2> QED BY <1>3, <2>1, <2>2, <2>3, <2>4 DEF Worker
<1>4. CASE StopWorker
  <2>1. Sentinel \in Items /\ queue' = Append(queue, Sentinel)
        /\ UNCHANGED <<worker, current, result, req, job>>
    BY <1>4 DEF StopWorker, Submits, Items, Sentinel, MainGoes, requestVars, jobVars
  <2>2. Sentinel.kind = "stop" /\ Serves(Sentinel, req', job', result')
    BY DEF Sentinel, Serves
  <2>3. Unresolved(req', job', result')
    BY <2>1 DEF QueueInv, Unresolved
  <2> QED BY <2>1, <2>2, <2>3, QueueGrows
<1>5. CASE CloseServer \/ Drained \/ Joined \/ WorkerStopped
  BY <1>5 DEF CloseServer, Drained, Joined, WorkerStopped, MainGoes, QueueInv, Queued,
              requestVars, jobVars, workerVars
<1>6. CASE Exit \/ Kill
  <2>1. queue' = <<>> /\ worker' = "gone" /\ \A w \in Waiters : result'[w] = "none"
    BY <1>6 DEF Exit, Kill, Dies
  <2> QED BY <2>1 DEF QueueInv, Queued, Waiters
<1>7. CASE Restart
  BY <1>7 DEF Restart, QueueInv, Queued, requestVars, jobVars
<1> QED BY <1>1, <1>2, <1>3, <1>4, <1>5, <1>6, <1>7 DEF Next, Main

-----------------------------------------------------------------------------
(* The status.                                                             *)

LEMMA HandlerStatus ==
  ASSUME ProcessTypes, LockInv, StatusInv, NEW r \in Requests, Handler(r) \/ Connect(r) \/ Arrive(r)
  PROVE  StatusInv'
<1> USE DEF StatusInv, Alive, ProcessTypes, Goes, jobVars
<1>1. CASE Query(r)
  BY <1>1 DEF Query, Submits, statusVars
<1>2. CASE QueryAnswered(r)
  BY <1>2 DEF QueryAnswered, statusVars
<1>3. CASE IndexChecksStop(r)
  BY <1>3 DEF IndexChecksStop, statusVars
<1>4. CASE IndexLocks(r)
  BY <1>4 DEF IndexLocks, JobIsAlive, statusVars
<1>5. CASE Coalesce(r)
  BY <1>5 DEF Coalesce, statusVars
<1>6. CASE ClearCancel(r)
  BY <1>6 DEF ClearCancel, statusVars
<1>7. CASE WriteQueued(r)
  BY <1>7 DEF WriteQueued, Status, StatusRaises, LockInv, Starts, Wipes
<1>8. CASE StartThread(r)
  BY <1>8 DEF StartThread, statusVars, LockInv, Starts, Wipes
<1>9. CASE DeleteArrives(r)
  BY <1>9 DEF DeleteArrives, statusVars
<1>10. CASE DeleteRefused(r)
  BY <1>10 DEF DeleteRefused, statusVars
<1>11. CASE DeleteSubmits(r)
  BY <1>11 DEF DeleteSubmits, Submits, statusVars
<1>12. CASE DeleteAnswered(r)
  BY <1>12 DEF DeleteAnswered, Status, StatusRaises, LockInv, Starts, Wipes
<1>13. CASE Shutdown(r)
  BY <1>13 DEF Shutdown, statusVars
<1>14. CASE Connect(r)
  BY <1>14 DEF Connect, statusVars
<1>15. CASE Arrive(r)
  BY <1>15 DEF Arrive, statusVars
<1> QED BY <1>1, <1>2, <1>3, <1>4, <1>5, <1>6, <1>7, <1>8, <1>9, <1>10, <1>11, <1>12, <1>13,
     <1>14, <1>15 DEF Handler

LEMMA StatusStep ==
  ASSUME ProcessTypes, LockInv, StatusInv, Next
  PROVE  StatusInv'
<1> USE DEF StatusInv, Alive
<1>1. ASSUME NEW r \in Requests, Handler(r) \/ Connect(r) \/ Arrive(r) PROVE StatusInv'
  BY <1>1, HandlerStatus
<1>2. ASSUME NEW j \in Jobs, IndexJob(j) PROVE StatusInv'
  <2>1. UNCHANGED <<requestVars, thread>> /\ Alive(j) /\ thread = j
    BY <1>2 DEF IndexJob, JobRuns, Extract, JobSubmits, JobReports, ReportRaises, JobEnds,
         LockInv
  <2>2. \A i \in Jobs : Alive(i)' => Alive(i)
    BY <1>2 DEF IndexJob, JobRuns, Extract, JobSubmits, JobReports, ReportRaises, JobEnds,
         JobGoes, ProcessTypes
  <2>3. status'.job = status.job
    BY <1>2, <2>1 DEF IndexJob, JobRuns, Extract, JobSubmits, JobReports, ReportRaises, JobEnds,
         Status, StatusRaises, statusVars
  <2> QED BY <2>1, <2>2, <2>3 DEF requestVars
<1>3. CASE Worker
  BY <1>3 DEF Worker, RunQuery, QueryReturns, RunLoad, LoadPublishes, LoadReturns, LoadRaises,
       RunWipe, WipeCuts, WipeReturns, WipeRaises, RunSentinel, CloseStore, Take, Resolves,
       requestVars, jobVars, statusVars
<1>4. CASE Exit \/ Kill
  BY <1>4 DEF Exit, Kill, Dies, ProcessTypes, InFlight
<1>5. CASE CloseServer \/ Drained \/ Joined \/ StopWorker \/ WorkerStopped \/ Restart
  BY <1>5 DEF CloseServer, Drained, Joined, StopWorker, WorkerStopped, Restart, MainGoes,
              requestVars, jobVars, statusVars
<1> QED BY <1>1, <1>2, <1>3, <1>4, <1>5 DEF Next, Main

-----------------------------------------------------------------------------
(* What is served.                                                         *)

LEMMA HandlerGraph ==
  ASSUME ProcessTypes, LockInv, QueueInv, GraphInv, NEW r \in Requests,
         Handler(r) \/ Connect(r) \/ Arrive(r)
  PROVE  GraphInv'
<1>1. UNCHANGED <<graphVars, worker, current, result>>
  BY DEF Handler, Query, QueryAnswered, IndexChecksStop, IndexLocks, Coalesce, ClearCancel,
       WriteQueued, StartThread, DeleteArrives, DeleteRefused, DeleteSubmits, DeleteAnswered,
       Shutdown, Connect, Arrive, Submits, workerVars
<1>2. \A j \in Jobs : job'[j] = job[j] \/ (job'[j] = "started" /\ req[r] = "starting")
  BY DEF Handler, Query, QueryAnswered, IndexChecksStop, IndexLocks, Coalesce, ClearCancel,
       WriteQueued, StartThread, DeleteArrives, DeleteRefused, DeleteSubmits, DeleteAnswered,
       Shutdown, Connect, Arrive, ProcessTypes, jobVars
<1>3. \A q \in Requests : q # r => req'[q] = req[q]
  BY DEF Handler, Query, QueryAnswered, IndexChecksStop, IndexLocks, Coalesce, ClearCancel,
       WriteQueued, StartThread, DeleteArrives, DeleteRefused, DeleteSubmits, DeleteAnswered,
       Shutdown, Connect, Arrive, Goes, ProcessTypes
<1>4. CASE UNCHANGED statusVars
  <2>1. req'[r] = "starting" => status.state # "indexed"
    BY <1>4 DEF Handler, Query, QueryAnswered, IndexChecksStop, IndexLocks, Coalesce,
         ClearCancel, WriteQueued, StartThread, DeleteArrives, DeleteRefused, DeleteSubmits,
         DeleteAnswered, Shutdown, Connect, Arrive, Goes, ProcessTypes, Status, StatusRaises,
         statusVars
  <2> QED BY <1>1, <1>2, <1>3, <1>4, <2>1 DEF GraphInv, Active, graphVars, statusVars
<1>5. CASE ~UNCHANGED statusVars
  <2>1. WriteQueued(r) \/ DeleteAnswered(r)
    BY <1>5 DEF Handler, Query, QueryAnswered, IndexChecksStop, IndexLocks, Coalesce,
         ClearCancel, WriteQueued, StartThread, DeleteArrives, DeleteRefused, DeleteSubmits,
         DeleteAnswered, Shutdown, Connect, Arrive
  <2>2. UNCHANGED job /\ worker # "wiping"
    <3>1. \A q \in Requests : Wipes(q) => q = r
      BY <2>1, NamesAssumption DEF WriteQueued, DeleteAnswered, LockInv, Starts, Wipes
    <3>2. worker = "wiping" => Wipes(current.for) /\ result[current.for] = "none" /\ current.for \in Requests
      BY DEF QueueInv, Serves, Wipes
    <3> QED BY <2>1, <3>1, <3>2 DEF WriteQueued, DeleteAnswered, Wipes, jobVars
  <2>3. CASE Status("queued", mine[r]) \/ Status("uninitialized", NoId)
    BY <1>1, <2>2, <2>3 DEF GraphInv, Active, Status, graphVars
  <2>4. CASE StatusRaises
    <3>1. req'[r] # "starting"
      BY <2>1, <2>4 DEF WriteQueued, DeleteAnswered, Goes, ProcessTypes, Status, StatusRaises
    <3> QED BY <1>1, <1>3, <2>2, <2>4, <3>1 DEF GraphInv, Active, StatusRaises, graphVars
  <2> QED BY <1>5, <2>1, <2>3, <2>4 DEF WriteQueued, DeleteAnswered
<1> QED BY <1>4, <1>5

LEMMA JobGraph ==
  ASSUME ProcessTypes, LockInv, QueueInv, StatusInv, GraphInv, NEW j \in Jobs, IndexJob(j)
  PROVE  GraphInv'
<1>1. UNCHANGED <<graphVars, worker, current, result, req>> /\ Alive(j)
  BY DEF IndexJob, JobRuns, Extract, JobSubmits, JobReports, ReportRaises, JobEnds, Submits,
       workerVars, requestVars, Alive
<1>2. \A i \in Jobs : i # j => job'[i] = job[i] /\ ~Alive(i)
  BY <1>1 DEF IndexJob, JobRuns, Extract, JobSubmits, JobReports, ReportRaises, JobEnds,
       JobGoes, LockInv, ProcessTypes
<1>3. \A q \in Requests : req[q] # "starting"
  BY <1>1 DEF LockInv, Starts
<1>4. worker # "wiping"
  BY <1>1 DEF QueueInv, Serves, LockInv, Wipes
<1>5. CASE JobReports(j)
  <2>1. job'[j] = "ending"
    BY <1>5 DEF JobReports, JobGoes, ProcessTypes
  <2>2. CASE job[j] = "waiting" /\ result[j] = "ok"
    BY <1>1, <1>2, <1>3, <1>4, <1>5, <2>1, <2>2 DEF JobReports, GraphInv, Active, Status, Alive,
         graphVars
  <2>3. CASE status' = [state |-> "failed", job |-> j]
    BY <1>1, <1>2, <1>3, <1>4, <2>1, <2>3 DEF GraphInv, Active, Alive, graphVars
  <2> QED BY <1>5, <2>2, <2>3 DEF JobReports, Status
<1>6. CASE JobRuns(j)
  <2>1. status'.state # "indexed"
    BY <1>6 DEF JobRuns, Status, StatusRaises, GraphInv
  <2>2. job'[j] # "waiting"
    BY <1>6 DEF JobRuns, JobGoes, ProcessTypes
  <2> QED BY <1>1, <1>2, <1>3, <1>4, <2>1, <2>2 DEF GraphInv, Active, Alive, graphVars
<1>7. CASE ~JobReports(j) /\ ~JobRuns(j)
  <2>1. UNCHANGED <<status, cut>>
    BY <1>7 DEF IndexJob, JobRuns, Extract, JobSubmits, JobReports, ReportRaises, JobEnds,
         StatusRaises, statusVars
  <2>2. job'[j] = "waiting" => result[j] = "none"
    BY <1>7 DEF IndexJob, JobRuns, Extract, JobSubmits, JobReports, ReportRaises, JobEnds,
         JobGoes, QueueInv, ProcessTypes
  <2>3. job'[j] \in {"started", "extracting", "submitting", "waiting"} =>
          job[j] \in {"started", "extracting", "submitting", "waiting"}
    BY <1>7 DEF IndexJob, JobRuns, Extract, JobSubmits, JobReports, ReportRaises, JobEnds,
         JobGoes, ProcessTypes
  <2> QED BY <1>1, <1>2, <1>3, <1>4, <2>1, <2>2, <2>3 DEF GraphInv, Active, Alive, graphVars
<1> QED BY <1>5, <1>6, <1>7

\* Loads belong to the one job that waits; wipes run when none does.
LEMMA WorkerGraph ==
  ASSUME ProcessTypes, LockInv, QueueInv, GraphInv, Worker
  PROVE  GraphInv'
<1>1. UNCHANGED <<req, job, status>>
  BY DEF Worker, RunQuery, QueryReturns, RunLoad, LoadPublishes, LoadReturns, LoadRaises,
       RunWipe, WipeCuts, WipeReturns, WipeRaises, RunSentinel, CloseStore, Take, Resolves,
       requestVars, jobVars, statusVars
<1>2. worker \in {"loading", "published"} =>
        /\ current.for \in Jobs /\ job[current.for] = "waiting" /\ result[current.for] = "none"
        /\ status.state # "indexed"
  BY DEF QueueInv, Serves, GraphInv
<1>3. worker \in {"loading", "published"} => \A j \in Jobs : job[j] = "waiting" => j = current.for
  BY <1>2 DEF LockInv, Alive
<1>4. worker = "wiping" => \A j \in Jobs : job[j] # "waiting"
  BY DEF QueueInv, Serves, LockInv, Wipes, Alive
<1> USE <1>1 DEF GraphInv, Active
<1>5. CASE RunQuery \/ RunSentinel \/ CloseStore
  BY <1>5 DEF RunQuery, RunSentinel, CloseStore, Take, statusVars, graphVars
<1>6. CASE QueryReturns
  <2>1. current.for \in Requests /\ UNCHANGED <<graphVars, cut>> /\ worker' = "ready"
    BY <1>6 DEF QueryReturns, Resolves, QueueInv, Serves, statusVars
  <2>2. \A j \in Jobs : result'[j] = result[j]
    BY <1>6, <2>1, NamesAssumption DEF QueryReturns, Resolves, ProcessTypes, Waiters
  <2> QED BY <2>1, <2>2 DEF graphVars
<1>7. CASE RunLoad
  <2>1. worker' = "loading" /\ current' = Head(queue) /\ UNCHANGED <<result, cut, live, kept>>
    BY <1>7 DEF RunLoad, Take, Graph!Begin, statusVars
  <2>2. candidate' = Head(queue).for
    BY <1>7 DEF RunLoad, Graph!Begin
  <2> QED BY <2>1, <2>2
<1>8. CASE LoadPublishes
  <2>1. worker' = "published" /\ UNCHANGED <<current, result, cut>> /\ worker = "loading"
    BY <1>8 DEF LoadPublishes, statusVars
  <2>2. live'.active = [id |-> current.for, state |-> "whole"]
    BY <1>8, <2>1 DEF LoadPublishes, Graph!Publish
  <2> QED BY <1>2, <1>3, <2>1, <2>2
<1>9. CASE LoadReturns
  <2>1. worker' = "ready" /\ UNCHANGED cut /\ worker = "published" /\ live' = live /\ kept' = live
    BY <1>9 DEF LoadReturns, Resolves, Graph!Persist, statusVars
  <2> QED BY <1>2, <1>3, <2>1
<1>10. CASE LoadRaises
  <2>1. worker' = "ready" /\ UNCHANGED cut /\ worker \in {"loading", "published"}
    BY <1>10 DEF LoadRaises, Resolves, statusVars
  <2>2. result'[current.for] = "error"
    BY <1>2, <1>10, <2>1 DEF LoadRaises, Resolves, ProcessTypes, Waiters
  <2> QED BY <1>2, <1>3, <2>1, <2>2
<1>11. CASE RunWipe
  <2>1. worker' = "wiping" /\ cut' /\ UNCHANGED <<result, live, kept>>
    BY <1>11 DEF RunWipe, Take, Graph!BeginDelete
  <2> QED BY <2>1
<1>12. CASE WipeCuts \/ WipeReturns \/ WipeRaises
  <2>1. worker = "wiping" /\ worker' \in {"wiping", "ready"} /\ cut'
    BY <1>12 DEF WipeCuts, WipeReturns, WipeRaises, Resolves, workerVars, statusVars
  <2> QED BY <1>4, <2>1
<1> QED BY <1>5, <1>6, <1>7, <1>8, <1>9, <1>10, <1>11, <1>12 DEF Worker

LEMMA GraphStep ==
  ASSUME ProcessTypes, LockInv, QueueInv, StatusInv, GraphInv, Next
  PROVE  GraphInv'
<1>1. ASSUME NEW r \in Requests, Handler(r) \/ Connect(r) \/ Arrive(r) PROVE GraphInv'
  BY <1>1, HandlerGraph
<1>2. ASSUME NEW j \in Jobs, IndexJob(j) PROVE GraphInv'
  BY <1>2, JobGraph
<1>3. CASE Worker
  BY <1>3, WorkerGraph
<1>4. CASE Exit \/ Kill
  <2>1. worker' = "gone" /\ UNCHANGED <<status, cut, kept>> /\ live' = kept
    BY <1>4 DEF Exit, Kill, Dies, Graph!Restart, statusVars
  <2>2. \A j \in Jobs : job'[j] \in {"unused", "dead"}
    BY <1>4 DEF Exit, Kill, Dies
  <2>3. \A r \in Requests : req'[r] # "starting"
    BY <1>4 DEF Exit, Kill, Dies, InFlight
  <2> QED BY <2>1, <2>2, <2>3 DEF GraphInv, Active
<1>5. CASE CloseServer \/ Drained \/ Joined \/ StopWorker \/ WorkerStopped \/ Restart
  BY <1>5 DEF CloseServer, Drained, Joined, StopWorker, WorkerStopped, Restart, MainGoes,
       Submits,
              GraphInv, Active, requestVars, jobVars, workerVars, statusVars, graphVars
<1> QED BY <1>1, <1>2, <1>3, <1>4, <1>5 DEF Next, Main

-----------------------------------------------------------------------------
(* The theorems.                                                           *)

LEMMA InitInv == Init => Inv
<1> SUFFICES ASSUME Init PROVE Inv
  OBVIOUS
<1>1. ProcessTypes /\ FlagTypes
  BY InitTypes
<1>2. Graph!TypeOK
  <2>1. Graph!Nothing \in Graph!Published
    BY DEF Graph!Nothing, Graph!Published, Graph!Views, Graph!View
  <2>2. live \in Graph!Published /\ kept \in Graph!Published /\ candidate = NoId /\ built = {}
    BY <2>1 DEF Init, Graph!Init
  <2>3. deleting \in BOOLEAN
    BY Zenon DEF Init, Graph!Init
  <2> QED BY <2>2, <2>3 DEF Graph!TypeOK
<1>3. ShutdownInv /\ NoRequestIsLost
  BY DEF Init, ShutdownInv, NoRequestIsLost
<1>4. LockInv
  BY DEF Init, LockInv, Starts, Wipes, Alive
<1>5. QueueInv
  BY DEF Init, QueueInv, Queued, Waiters
<1>6. StatusInv
  BY DEF Init, StatusInv, Alive
<1>7. GraphInv
  BY DEF Init, GraphInv
<1> QED BY <1>1, <1>2, <1>3, <1>4, <1>5, <1>6, <1>7 DEF Inv, TypeOK

LEMMA StepTypes ==
  ASSUME ProcessTypes, Next
  PROVE  ProcessTypes'
BY HandlerTypes, JobTypes, WorkerTypes, MainTypes DEF Next

LEMMA StepInv == Inv /\ [Next]_vars => Inv'
<1> SUFFICES ASSUME Inv, [Next]_vars PROVE Inv'
  OBVIOUS
<1>1. CASE Next
  BY <1>1, StepTypes, FlagStep, GraphSteps, GraphTypes, ShutdownStep, LockStep, QueueStep,
       StatusStep, GraphStep DEF Inv, TypeOK
<1>2. CASE UNCHANGED vars
  <2> USE <1>2 DEF vars, requestVars, jobVars, workerVars, flagVars, statusVars, boundVars, Inv, TypeOK
  <2>1. ProcessTypes'
    BY DEF ProcessTypes
  <2>2. FlagTypes'
    BY Zenon DEF FlagTypes
  <2>3. Graph!TypeOK'
    BY GraphTypes
  <2>4. ShutdownInv' /\ NoRequestIsLost'
    BY DEF ShutdownInv, NoRequestIsLost, InFlight
  <2>5. LockInv'
    BY DEF LockInv, Starts, Wipes, Alive
  <2>6. QueueInv'
    BY DEF QueueInv, Queued
  <2>7. StatusInv'
    BY DEF StatusInv, Alive
  <2>8. GraphInv'
    BY DEF GraphInv, Active, graphVars
  <2> QED BY <2>1, <2>2, <2>3, <2>4, <2>5, <2>6, <2>7, <2>8
<1> QED BY <1>1, <1>2

THEOREM Inductive == Spec => []Inv
<1>1. Init => Inv
  BY InitInv
<1>2. Inv /\ [Next]_vars => Inv'
  BY StepInv
<1> QED BY <1>1, <1>2, PTL DEF Spec

\* Every variable keeps its type.
THEOREM TypeCorrect == Spec => []TypeOK
BY Inductive, PTL DEF Inv

\* However many requests race, one job or one wipe has the tables at a time
\* (_index_lock is held across the check and the start, daemon.py:193, and
\* across the check and the whole wipe, daemon.py:266).
THEOREM OneWriterAlone == Spec => []OneWriter
<1>1. Inv => OneWriter
  <2> SUFFICES ASSUME Inv PROVE OneWriter
    OBVIOUS
  <2> USE DEF Inv
  <2>1. \A i, j \in Jobs : Alive(i) /\ Alive(j) => i = j
    BY DEF LockInv
  <2>2. (\E n \in DOMAIN queue : queue[n].kind = "wipe") \/ worker = "wiping" => \E r \in Requests : Wipes(r)
    <3>1. DOMAIN queue = 1..Len(queue)
      BY DEF TypeOK, ProcessTypes
    <3> QED BY <3>1 DEF QueueInv, Serves, Wipes
  <2> QED BY <2>1, <2>2 DEF OneWriter, LockInv
<1> QED BY <1>1, Inductive, PTL

\* Once serve() has set the cancel event nothing clears it, and no request is
\* left that could start a job (daemon.py:338-343).
THEOREM CancelFinal == Spec => []CancelIsFinal
<1>1. Inv => CancelIsFinal
  BY DEF Inv, ShutdownInv, CancelIsFinal
<1> QED BY <1>1, Inductive, PTL

\* A daemon that is not killed answers every request it has accepted.
THEOREM NoneLost == Spec => []NoRequestIsLost
<1>1. Inv => NoRequestIsLost
  BY DEF Inv
<1> QED BY <1>1, Inductive, PTL

\* Only Coalesce answers that a job is running, and status.json then names the
\* last job started: nobody else writes it under the lock (daemon.py:194-196).
THEOREM CoalescedNamed == Spec => CoalescedToLiveJob
<1>1. ASSUME Inv, Next, NEW r \in Requests, reply'[r] # reply[r], reply'[r].state = "running"
      PROVE  reply'[r].job = thread
  <2>1. PICK q \in Requests : Handler(q) \/ Connect(q) \/ Arrive(q)
    <3>1. ASSUME NEW j \in Jobs, IndexJob(j) PROVE FALSE
      BY <1>1, <3>1 DEF IndexJob, JobRuns, Extract, JobSubmits, JobReports, ReportRaises,
           JobEnds, requestVars
    <3>2. ASSUME Worker PROVE FALSE
      BY <1>1, <3>2 DEF Worker, RunQuery, QueryReturns, RunLoad, LoadPublishes, LoadReturns,
           LoadRaises, RunWipe, WipeCuts, WipeReturns, WipeRaises, RunSentinel, CloseStore,
           Take, Resolves, requestVars
    <3>3. ASSUME Main \/ Kill \/ Restart PROVE FALSE
      BY <1>1, <3>3 DEF Main, CloseServer, Drained, Joined, StopWorker, WorkerStopped, Exit,
           Kill, Restart, MainGoes, Dies, requestVars
    <3> QED BY <1>1, <3>1, <3>2, <3>3 DEF Next
  <2>2. Coalesce(q) \/ StartThread(q)
    BY <1>1, <2>1 DEF Handler, Query, QueryAnswered, IndexChecksStop, IndexLocks, Coalesce,
         ClearCancel, WriteQueued, StartThread, DeleteArrives, DeleteRefused, DeleteSubmits,
         DeleteAnswered, Shutdown, Connect, Arrive
  <2>3. CASE Coalesce(q)
    BY <1>1, <2>3 DEF Coalesce, Inv, StatusInv, TypeOK, ProcessTypes
  <2>4. CASE StartThread(q)
    BY <1>1, <2>4 DEF StartThread, Inv, TypeOK, ProcessTypes
  <2> QED BY <2>2, <2>3, <2>4
<1>2. Inv /\ [Next]_vars =>
        [\A r \in Requests :
           reply'[r] # reply[r] /\ reply'[r].state = "running" => reply'[r].job = thread]_vars
  BY <1>1
<1> QED BY <1>2, Inductive, PTL DEF Spec, CoalescedToLiveJob

\* Whatever requests, wipes, failures and kills came before, an indexed status
\* at rest names what queries read now and what a restart would read: nobody
\* changes the graph between the load and the status it reports, and a wipe
\* leaves `cut` behind (daemon.py:153-177, 263-278).
THEOREM IndexedServed == Spec => []IndexedIsServed
<1>1. Inv => IndexedIsServed
  BY DEF Inv, GraphInv, Active, IndexedIsServed
<1> QED BY <1>1, Inductive, PTL
=============================================================================
