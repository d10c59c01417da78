-------------------------- MODULE DaemonLifecycle --------------------------
(***************************************************************************)
(* The daemon processes of one project over time, and the command lines    *)
(* that start, stop and restart them (cli.py; serve() and run_daemon() of  *)
(* daemon.py).  Processes share the store's lease, the path of the socket  *)
(* and the pidfile, and know each other by nothing else.                   *)
(*                                                                         *)
(* What a daemon does while it serves is the subject of Daemon.  Ten       *)
(* seconds of polling are taken to be enough for a daemon to come up or    *)
(* to be refused, and for a signal to be delivered, but not for a daemon   *)
(* to shut down; the 30 s that stop() waits for the worker do not expire   *)
(* before they do.  Process identifiers are not reused.                    *)
(***************************************************************************)
EXTENDS Naturals, Sequences

CONSTANTS
  Processes,  \* daemon processes that may ever be spawned
  Terminals,  \* command lines, each running its commands one after another
  Scripts,    \* functions: terminal -> sequence of "start", "stop", "restart"
  NoProcess,
  MaxKills    \* bound: daemons killed from outside

ASSUME ScriptAssumption ==
  Scripts \subseteq [Terminals -> Seq({"start", "stop", "restart"})]
ASSUME ProcessAssumption == NoProcess \notin Processes /\ MaxKills \in Nat

VARIABLES
  pc,        \* where each daemon process is
  doomed,    \* a signal that ends the process has been sent
  lease,     \* the process whose worker has the store open
  sock,      \* the process that bound the socket at the project's path
  pidfile,   \* the process whose pid the pidfile holds
  script,    \* what the terminals run
  next,      \* which command of its script a terminal runs
  cmd,       \* where that command is
  target,    \* the daemon a stop shuts down or signals
  disturbed, \* history: while the command waited for a daemon, one that had or
             \* was about to open the store went down
  kills

daemonVars  == <<pc, doomed, lease, sock, pidfile>>
commandVars == <<next, cmd, target, disturbed>>
vars == <<daemonVars, commandVars, script, kills>>

Alive(d)     == pc[d] \notin {"unborn", "dead"}
ComingUp(d)  == pc[d] \in {"opening", "leased", "cleared", "bound"}
Goes(d, to)  == pc' = [pc EXCEPT ![d] = to]

\* A process does nothing more once a signal that ends it was sent.
At(d, point) == pc[d] = point /\ ~doomed[d]

Kind(t)      == script[t][next[t]]
Begin(t)     == IF next[t] > Len(script[t]) THEN "over"
                ELSE IF Kind(t) = "start" THEN "pinging" ELSE "asking"

Init ==
  /\ pc = [d \in Processes |-> "unborn"]
  /\ doomed = [d \in Processes |-> FALSE]
  /\ lease = NoProcess /\ sock = NoProcess /\ pidfile = NoProcess
  /\ script \in Scripts
  /\ next = [t \in Terminals |-> 1]
  /\ cmd = [t \in Terminals |-> Begin(t)]
  /\ target = [t \in Terminals |-> NoProcess]
  /\ disturbed = [t \in Terminals |-> FALSE]
  /\ kills = 0

-----------------------------------------------------------------------------
(* A daemon process.                                                       *)

\* The worker opens the store, which takes the lease, before serve() begins.
Opens(d) ==
  /\ At(d, "opening") /\ lease = NoProcess
  /\ lease' = d
  /\ Goes(d, "leased")
  /\ UNCHANGED <<doomed, sock, pidfile, commandVars, kills>>

\* Another process has it: exit before any file is touched.
Refused(d) ==
  /\ At(d, "opening") /\ lease # NoProcess
  /\ Goes(d, "dead")
  /\ UNCHANGED <<doomed, lease, sock, pidfile, commandVars, kills>>

\* Mutant of ClearsSocket: the socket is taken to be stale before the store is
\* opened.
ClearsSocketFirst(d) ==
  /\ pc[d] \in {"opening", "leased"}
  /\ sock' = NoProcess
  /\ pc' = IF pc[d] = "leased" THEN [pc EXCEPT ![d] = "cleared"] ELSE pc
  /\ UNCHANGED <<doomed, lease, pidfile, commandVars, kills>>

\* "stale socket from a crash"
ClearsSocket(d) ==
  /\ At(d, "leased")
  /\ sock' = NoProcess
  /\ Goes(d, "cleared")
  /\ UNCHANGED <<doomed, lease, pidfile, commandVars, kills>>

Binds(d) ==
  /\ At(d, "cleared")
  /\ sock' = d
  /\ Goes(d, "bound")
  /\ UNCHANGED <<doomed, lease, pidfile, commandVars, kills>>

\* The event loop handles connections from here on.
WritesPid(d) ==
  /\ At(d, "bound")
  /\ pidfile' = d
  /\ Goes(d, "serving")
  /\ UNCHANGED <<doomed, lease, sock, commandVars, kills>>

\* The listening socket is closed (its path stays), the job is joined and the
\* worker is told to stop; it closes the store when it gets there.
ClosesStore(d) ==
  /\ At(d, "stopping") /\ lease = d
  /\ lease' = NoProcess
  /\ UNCHANGED <<pc, doomed, sock, pidfile, commandVars, kills>>

\* Mutant of Joins: the sentinel's acknowledgement is enough.
JoinsNothing(d) ==
  /\ At(d, "stopping")
  /\ Goes(d, "closed")
  /\ UNCHANGED <<doomed, lease, sock, pidfile, commandVars, kills>>

\* stop() joins the worker's thread after its sentinel is acknowledged.
Joins(d) ==
  /\ At(d, "stopping") /\ lease # d
  /\ Goes(d, "closed")
  /\ UNCHANGED <<doomed, lease, sock, pidfile, commandVars, kills>>

\* Mutant of UnlinkOrder.
PidfileFirst == <<"pidfile", "socket">>
UnlinkOrder  == <<"socket", "pidfile">>

\* Socket and pidfile are unlinked by path, whoever they belong to.
Unlinks(d) ==
  \E n \in DOMAIN UnlinkOrder :
    /\ At(d, <<"closed", "unlinked">>[n])
    /\ Goes(d, <<"unlinked", "exiting">>[n])
    /\ IF UnlinkOrder[n] = "socket"
       THEN sock' = NoProcess /\ UNCHANGED pidfile
       ELSE pidfile' = NoProcess /\ UNCHANGED sock
    /\ UNCHANGED <<doomed, lease, commandVars, kills>>

\* The process is gone; the files it leaves stay where they are.
Gone(d) ==
  /\ Goes(d, "dead")
  /\ lease' = IF lease = d THEN NoProcess ELSE lease
  /\ disturbed' = [t \in Terminals |->
                     \/ disturbed[t]
                     \/ cmd[t] = "waiting" /\ (lease = d \/ pc[d] = "opening")]
  /\ UNCHANGED <<doomed, sock, pidfile, next, cmd, target>>

Exits(d) == At(d, "exiting") /\ Gone(d) /\ UNCHANGED kills

Killed(d) == doomed[d] /\ Alive(d) /\ Gone(d) /\ UNCHANGED kills

Crashes(d) ==
  /\ kills < MaxKills /\ Alive(d)
  /\ kills' = kills + 1
  /\ Gone(d)

Process(d) ==
  \/ Opens(d) \/ Refused(d) \/ ClearsSocket(d) \/ Binds(d) \/ WritesPid(d)
  \/ ClosesStore(d) \/ Joins(d) \/ Unlinks(d) \/ Exits(d)
  \/ Killed(d) \/ Crashes(d)

-----------------------------------------------------------------------------
(* Commands.                                                               *)

\* A call reaches whoever is bound to the path.  One that connects before the
\* event loop runs is answered later: it neither succeeds nor fails yet.
Reaches(d)  == sock = d /\ pc[d] = "serving"
Answered    == \E d \in Processes : Reaches(d)
Unanswered  == \A d \in Processes : sock = d => pc[d] \notin {"bound", "serving"}

\* _pid_alive: the pidfile holds the pid of a process that exists.
PidAlive == pidfile # NoProcess /\ Alive(pidfile)

\* The command ends, and the terminal's next one may begin.
Ends(t) ==
  /\ next' = [next EXCEPT ![t] = @ + 1]
  /\ cmd' = [cmd EXCEPT ![t] = "ended"]

\* The user types the next command.
Types(t) ==
  /\ cmd[t] = "ended"
  /\ cmd' = [cmd EXCEPT ![t] = Begin(t)]
  /\ target' = [target EXCEPT ![t] = NoProcess]
  /\ disturbed' = [disturbed EXCEPT ![t] = FALSE]
  /\ UNCHANGED <<daemonVars, next, kills>>

AlreadyRunning(t) ==
  /\ cmd[t] = "pinging" /\ Answered
  /\ Ends(t)
  /\ UNCHANGED <<daemonVars, target, disturbed, kills>>

\* The ping has failed: spawn a daemon.
Spawns(t) ==
  /\ cmd[t] = "pinging" /\ Unanswered
  /\ \E d \in Processes : pc[d] = "unborn" /\ Goes(d, "opening")
  /\ cmd' = [cmd EXCEPT ![t] = "waiting"]
  /\ UNCHANGED <<doomed, lease, sock, pidfile, next, target, disturbed, kills>>

Started(t) ==
  /\ cmd[t] = "waiting" /\ Answered
  /\ Ends(t)
  /\ UNCHANGED <<daemonVars, target, disturbed, kills>>

\* A hundred pings have failed: no daemon is about to answer one.
DidNotComeUp(t) ==
  /\ cmd[t] = "waiting" /\ Unanswered
  /\ \A d \in Processes : ~ComingUp(d) /\ ~(doomed[d] /\ Alive(d))
  /\ cmd' = [cmd EXCEPT ![t] = "failed"]
  /\ UNCHANGED <<daemonVars, next, target, disturbed, kills>>

\* The shutdown request is accepted.
Shutdown(t) ==
  /\ cmd[t] = "asking"
  /\ \E d \in Processes :
       /\ Reaches(d)
       /\ Goes(d, "stopping")
       /\ target' = [target EXCEPT ![t] = d]
  /\ cmd' = [cmd EXCEPT ![t] = "polling"]
  /\ disturbed' = [u \in Terminals |-> disturbed[u] \/ cmd[u] = "waiting"]
  /\ UNCHANGED <<doomed, lease, sock, pidfile, next, kills>>

\* Nobody answers, but the process of the pidfile exists: SIGTERM, which no
\* handler catches.
Terminates(t) ==
  /\ cmd[t] = "asking" /\ Unanswered
  /\ PidAlive
  /\ doomed' = [doomed EXCEPT ![pidfile] = TRUE]
  /\ target' = [target EXCEPT ![t] = pidfile]
  /\ cmd' = [cmd EXCEPT ![t] = "polling"]
  /\ UNCHANGED <<pc, lease, sock, pidfile, next, disturbed, kills>>

\* Mutant of Stopped: a stop starts the daemon again, too.
StoppedThenStarts(t) == cmd' = [cmd EXCEPT ![t] = "pinging"] /\ UNCHANGED next

\* daemon_stop returns; a restart goes on to start.
Stopped(t) ==
  IF Kind(t) = "restart"
  THEN cmd' = [cmd EXCEPT ![t] = "pinging"] /\ UNCHANGED next
  ELSE Ends(t)

NotRunning(t) ==
  /\ cmd[t] = "asking" /\ Unanswered
  /\ ~PidAlive
  /\ Stopped(t)
  /\ UNCHANGED <<daemonVars, target, disturbed, kills>>

\* A poll finds no pidfile, or no process for it.
SeenStopped(t) ==
  /\ cmd[t] = "polling" /\ ~PidAlive
  /\ Stopped(t)
  /\ UNCHANGED <<daemonVars, target, disturbed, kills>>

\* Ten seconds have passed: SIGKILL to whatever process the pidfile now names.
StopKills(t) ==
  /\ cmd[t] = "polling" /\ PidAlive
  /\ doomed' = [doomed EXCEPT ![pidfile] = TRUE]
  /\ Stopped(t)
  /\ UNCHANGED <<pc, lease, sock, pidfile, target, disturbed, kills>>

Command(t) ==
  \/ Types(t)
  \/ AlreadyRunning(t) \/ Spawns(t) \/ Started(t) \/ DidNotComeUp(t)
  \/ Shutdown(t) \/ Terminates(t) \/ NotRunning(t) \/ SeenStopped(t) \/ StopKills(t)

Next ==
  /\ (\E d \in Processes : Process(d)) \/ (\E t \in Terminals : Command(t))
  /\ UNCHANGED script

Spec == Init /\ [][Next]_vars

-----------------------------------------------------------------------------
Points == {"unborn", "opening", "leased", "cleared", "bound", "serving",
           "stopping", "closed", "unlinked", "exiting", "dead"}

\* Every variable has its type, and no command is where its kind never gets.
TypeOK ==
  /\ pc \in [Processes -> Points]
  /\ doomed \in [Processes -> BOOLEAN]
  /\ {lease, sock, pidfile} \subseteq Processes \cup {NoProcess}
  /\ script \in Scripts
  /\ next \in [Terminals -> Nat]
  /\ \A t \in Terminals : next[t] \in 1..(Len(script[t]) + 1)
  /\ cmd \in [Terminals -> {"pinging", "waiting", "asking", "polling",
                            "ended", "failed", "over"}]
  /\ \A t \in Terminals :
       /\ cmd[t] \in {"pinging", "waiting"} => Kind(t) \in {"start", "restart"}
       /\ cmd[t] \in {"asking", "polling"} => Kind(t) \in {"stop", "restart"}
  /\ target \in [Terminals -> Processes \cup {NoProcess}]
  /\ disturbed \in [Terminals -> BOOLEAN]
  /\ kills \in 0..MaxKills

\* A daemon that serves is the one its project's socket and pidfile lead to:
\* a start finds it ("already running"), a stop reaches it.
RunningIsFound ==
  \A d \in Processes : pc[d] = "serving" => sock = d /\ pidfile = d

\* A start fails only if a daemon went down during it: neither what a killed
\* daemon left behind nor another start at the same time is in its way.
StartsSucceed == \A t \in Terminals : cmd[t] = "failed" => disturbed[t]

\* When a stop has seen its daemon stopped, the store is free for the next one
\* (daemon.py:91 "before finally releases the store's writer lease").
StoppedIsReleased ==
  [][\A t \in Terminals :
       SeenStopped(t) => lease # target[t]]_vars
=============================================================================
