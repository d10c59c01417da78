----------------------- MODULE DaemonLifecycleProofs -----------------------
(***************************************************************************)
(* What any number of daemon processes and terminals can rely on, whatever *)
(* the terminals run and whoever is killed.  Types and the ownership of    *)
(* the store hold without conditions.  That a serving daemon is found,     *)
(* that starts succeed and that a stop has released the store hold as long *)
(* as no daemon comes up while another one leaves: lifecycle_orphan shows  *)
(* what happens otherwise.  One terminal keeps to that by itself, and so   *)
(* do terminals that only start.                                           *)
(***************************************************************************)
EXTENDS DaemonLifecycle, TLAPS

Leaving(d) == pc[d] \in {"stopping", "closed", "unlinked"} /\ ~doomed[d]

\* No daemon comes up while another one shuts down by itself.  (One that was
\* sent a signal touches nothing any more.)
Apart == \A d, e \in Processes : ComingUp(d) => ~Leaving(e)

\* A command that is under way is one of the script.
InScript ==
  \A t \in Terminals : cmd[t] \in {"pinging", "waiting", "asking", "polling"} => next[t] <= Len(script[t])

\* A process works on the store and on the files only between taking the lease
\* and giving it up, and a process that has the lease is there.
Owner ==
  \A d \in Processes :
    /\ pc[d] \in {"leased", "cleared", "bound", "serving"} => lease = d
    /\ lease = d => pc[d] \in {"leased", "cleared", "bound", "serving", "stopping"}

\* The pidfile names, and a stop aims at, processes that have come up.
CameUp(d) == pc[d] \in {"serving", "stopping", "closed", "unlinked", "exiting", "dead"}
NamesOld ==
  /\ pidfile \in Processes => CameUp(pidfile)
  /\ \A t \in Terminals :
       /\ target[t] \in Processes => CameUp(target[t])
       /\ cmd[t] = "polling" => target[t] \in Processes

LifecycleInv == TypeOK /\ InScript /\ Owner /\ NamesOld

\* Nobody takes the lease until who gave it up has unlinked its files.
LeavesFree ==
  \A e \in Processes : Leaving(e) /\ lease # e => lease = NoProcess

\* The files are those of the process that has the store.
FilesAreOwners ==
  \A d \in Processes :
    /\ pc[d] \in {"bound", "serving"} => sock = d
    /\ lease = d /\ pc[d] \in {"serving", "stopping"} => pidfile = d

\* What a start waits for.
StartsHope ==
  \A t \in Terminals : cmd[t] = "waiting" /\ ~disturbed[t] =>
    \E d \in Processes : pc[d] = "opening" \/ (lease = d /\ ~Leaving(d))

\* What holds besides as long as comings and goings are apart.
ApartInv == LeavesFree /\ FilesAreOwners /\ StartsHope /\ StartsSucceed

-----------------------------------------------------------------------------
LEMMA InitLifecycle == Init => LifecycleInv /\ ApartInv
<1> SUFFICES ASSUME Init PROVE LifecycleInv /\ ApartInv
  OBVIOUS
<1> USE DEF Init
<1>1. script \in [Terminals -> Seq({"start", "stop", "restart"})]
  BY ScriptAssumption
<1>2. \A t \in Terminals :
        /\ Len(script[t]) \in Nat
        /\ \A i \in 1..Len(script[t]) : script[t][i] \in {"start", "stop", "restart"}
  BY <1>1
<1>3. \A t \in Terminals :
        /\ next[t] = 1 /\ cmd[t] \in {"over", "pinging", "asking"}
        /\ cmd[t] # "over" => 1 <= Len(script[t])
        /\ cmd[t] = "pinging" => Kind(t) = "start"
        /\ cmd[t] = "asking" => Kind(t) \in {"stop", "restart"}
  <2> TAKE t \in Terminals
  <2>1. CASE 1 > Len(script[t])
    BY <1>2, <2>1 DEF Begin
  <2>2. CASE 1 <= Len(script[t])
    BY <1>2, <2>2 DEF Begin, Kind
  <2> QED BY <1>2, <2>1, <2>2
<1>4. TypeOK
  <2>1. cmd \in [Terminals -> {"pinging", "waiting", "asking", "polling", "ended", "failed", "over"}]
    BY <1>3
  <2>2. \A t \in Terminals : next[t] \in 1..(Len(script[t]) + 1)
    BY <1>2, <1>3
  <2>3. kills \in 0..MaxKills
    BY ProcessAssumption
  <2>4. pc \in [Processes -> Points] /\ doomed \in [Processes -> BOOLEAN]
    BY DEF Points
  <2> QED BY <1>3, <2>1, <2>2, <2>3, <2>4 DEF TypeOK
<1>5. InScript
  BY <1>3 DEF InScript
<1>6. Owner /\ NamesOld
  BY <1>3, ProcessAssumption DEF Owner, NamesOld
<1>7. LeavesFree /\ FilesAreOwners /\ StartsHope /\ StartsSucceed
  BY <1>3, ProcessAssumption DEF LeavesFree, Leaving, FilesAreOwners, StartsHope, StartsSucceed
<1> QED BY <1>4, <1>5, <1>6, <1>7 DEF LifecycleInv, ApartInv

-----------------------------------------------------------------------------
(* What holds without conditions.                                          *)

LEMMA ProcessTypes ==
  ASSUME LifecycleInv, UNCHANGED script, NEW d \in Processes, Process(d)
  PROVE  TypeOK' /\ InScript'
<1> USE DEF LifecycleInv, TypeOK, Goes, At, commandVars, Kind
<1>1. UNCHANGED <<next, cmd, target>> /\ doomed' = doomed
  BY DEF Process, Opens, Refused, ClearsSocket, Binds, WritesPid, ClosesStore, Joins, Unlinks,
         Exits, Killed, Crashes, Gone
<1>2. pc' \in [Processes -> Points]
  <2>1. CASE Unlinks(d)
    BY <2>1 DEF Unlinks, Points, UnlinkOrder
  <2>2. CASE ~Unlinks(d)
    BY <2>2 DEF Process, Opens, Refused, ClearsSocket, Binds, WritesPid, ClosesStore, Joins,
                Exits, Killed, Crashes, Gone, Points
  <2> QED BY <2>1, <2>2
<1>3. {lease', sock', pidfile'} \subseteq Processes \cup {NoProcess}
  <2>1. CASE Unlinks(d)
    BY <2>1 DEF Unlinks
  <2>2. CASE ~Unlinks(d)
    BY <2>2 DEF Process, Opens, Refused, ClearsSocket, Binds, WritesPid, ClosesStore, Joins,
                Exits, Killed, Crashes, Gone
  <2> QED BY <2>1, <2>2
<1>4. disturbed' \in [Terminals -> BOOLEAN]
  <2>1. CASE Gone(d)
    BY <2>1 DEF Gone
  <2>2. CASE ~Gone(d)
    BY <2>2 DEF Process, Opens, Refused, ClearsSocket, Binds, WritesPid, ClosesStore, Joins,
         Unlinks,
                Exits, Killed, Crashes
  <2> QED BY <2>1, <2>2
<1>5. kills' \in 0..MaxKills
  BY ProcessAssumption
  DEF Process, Opens, Refused, ClearsSocket, Binds, WritesPid, ClosesStore, Joins, Unlinks,
      Exits, Killed, Crashes
<1>6. TypeOK'
  BY <1>1, <1>2, <1>3, <1>4, <1>5
<1> QED BY <1>1, <1>6 DEF InScript

\* A command ends, or goes on to a start.
LEMMA ScriptGoesOn ==
  ASSUME LifecycleInv, UNCHANGED script, NEW t \in Terminals,
         cmd[t] \in {"pinging", "waiting", "asking", "polling"},
         \/ Ends(t)
         \/ Kind(t) = "restart" /\ cmd' = [cmd EXCEPT ![t] = "pinging"] /\ UNCHANGED next
  PROVE  /\ next' \in [Terminals -> Nat]
         /\ \A u \in Terminals :
              /\ next'[u] \in 1..(Len(script'[u]) + 1)
              /\ cmd'[u] \in {"pinging", "waiting", "asking", "polling"} => next'[u] <= Len(script'[u])
              /\ cmd'[u] \in {"pinging", "waiting"} => Kind(u)' \in {"start", "restart"}
              /\ cmd'[u] \in {"asking", "polling"} => Kind(u)' \in {"stop", "restart"}
         /\ cmd' \in [Terminals -> {"pinging", "waiting", "asking", "polling", "ended", "failed", "over"}]
         /\ \A u \in Terminals : cmd'[u] \in {"waiting", "failed"} => u # t /\ cmd'[u] = cmd[u]
<1>1. \A u \in Terminals : Len(script[u]) \in Nat
  BY ScriptAssumption DEF LifecycleInv, TypeOK
<1>2. next[t] \in 1..Len(script[t])
  BY <1>1 DEF LifecycleInv, TypeOK, InScript
<1>3. CASE Ends(t)
  BY <1>1, <1>2, <1>3 DEF LifecycleInv, TypeOK, InScript, Ends, Kind
<1>4. CASE Kind(t) = "restart" /\ cmd' = [cmd EXCEPT ![t] = "pinging"] /\ UNCHANGED next
  BY <1>1, <1>2, <1>4 DEF LifecycleInv, TypeOK, InScript, Kind
<1> QED BY <1>3, <1>4

\* What a command leaves of its own state.
LEMMA CommandTypes ==
  ASSUME LifecycleInv, UNCHANGED script, NEW t \in Terminals, Command(t)
  PROVE  TypeOK' /\ InScript'
<1>1. \A u \in Terminals :
        /\ Len(script[u]) \in Nat
        /\ \A i \in 1..Len(script[u]) : script[u][i] \in {"start", "stop", "restart"}
  BY ScriptAssumption DEF LifecycleInv, TypeOK
<1>2. /\ pc' \in [Processes -> Points]
      /\ doomed' \in [Processes -> BOOLEAN]
      /\ UNCHANGED <<lease, sock, pidfile, kills>>
      /\ target' \in [Terminals -> Processes \cup {NoProcess}]
      /\ disturbed' \in [Terminals -> BOOLEAN]
  <2>1. CASE Types(t)
    BY <2>1 DEF Types, LifecycleInv, TypeOK, daemonVars
  <2>2. CASE AlreadyRunning(t) \/ Started(t) \/ DidNotComeUp(t) \/ NotRunning(t) \/ SeenStopped(t)
    BY <2>2 DEF AlreadyRunning, Started, DidNotComeUp, NotRunning, SeenStopped, LifecycleInv,
         TypeOK, daemonVars
  <2>3. CASE Spawns(t)
    BY <2>3 DEF Spawns, Goes, Points, LifecycleInv, TypeOK
  <2>4. CASE Shutdown(t)
    BY <2>4 DEF Shutdown, Goes, Points, LifecycleInv, TypeOK
  <2>5. CASE Terminates(t) \/ StopKills(t)
    BY <2>5 DEF Terminates, StopKills, PidAlive, LifecycleInv, TypeOK
  <2> QED BY <2>1, <2>2, <2>3, <2>4, <2>5 DEF Command
<1>3. /\ next' \in [Terminals -> Nat]
      /\ \A u \in Terminals :
           /\ next'[u] \in 1..(Len(script'[u]) + 1)
           /\ cmd'[u] \in {"pinging", "waiting", "asking", "polling"} => next'[u] <= Len(script'[u])
           /\ cmd'[u] \in {"pinging", "waiting"} => Kind(u)' \in {"start", "restart"}
           /\ cmd'[u] \in {"asking", "polling"} => Kind(u)' \in {"stop", "restart"}
      /\ cmd' \in [Terminals -> {"pinging", "waiting", "asking", "polling", "ended", "failed", "over"}]
  <2>1. CASE Types(t)
    <3>1. cmd' = [cmd EXCEPT ![t] = Begin(t)] /\ UNCHANGED next
      BY <2>1 DEF Types
    <3>2. /\ next[t] <= Len(script[t]) \/ Begin(t) = "over"
          /\ Begin(t) \in {"over", "pinging", "asking"}
          /\ Begin(t) = "pinging" => Kind(t) = "start"
          /\ Begin(t) = "asking" => Kind(t) \in {"stop", "restart"}
      <4>1. next[t] \in 1..(Len(script[t]) + 1)
        BY DEF LifecycleInv, TypeOK
      <4>2. CASE next[t] > Len(script[t])
        BY <4>2 DEF Begin
      <4>3. CASE next[t] <= Len(script[t])
        BY <1>1, <4>1, <4>3 DEF Begin, Kind
      <4> QED BY <1>1, <4>1, <4>2, <4>3
    <3> QED BY <1>1, <3>1, <3>2 DEF LifecycleInv, TypeOK, InScript, Kind
  <2>2. CASE AlreadyRunning(t) \/ Started(t)
    BY <2>2, ScriptGoesOn DEF AlreadyRunning, Started
  <2>3. CASE NotRunning(t) \/ SeenStopped(t) \/ StopKills(t)
    BY <2>3, ScriptGoesOn DEF NotRunning, SeenStopped, StopKills, Stopped
  <2>4. CASE Spawns(t) \/ DidNotComeUp(t)
    BY <1>1, <2>4 DEF Spawns, DidNotComeUp, LifecycleInv, TypeOK, InScript, Kind
  <2>5. CASE Shutdown(t) \/ Terminates(t)
    <3>1. UNCHANGED next /\ cmd[t] = "asking" /\ cmd' = [cmd EXCEPT ![t] = "polling"]
      BY <2>5 DEF Shutdown, Terminates
    <3> QED BY <1>1, <3>1 DEF LifecycleInv, TypeOK, InScript, Kind
  <2> QED BY <2>1, <2>2, <2>3, <2>4, <2>5 DEF Command
<1>4. TypeOK'
  BY <1>2, <1>3 DEF LifecycleInv, TypeOK
<1> QED BY <1>3, <1>4 DEF InScript

\* Every process keeps to its turn with the store, and pids outlive processes.
LEMMA ProcessOwns ==
  ASSUME LifecycleInv, NEW d \in Processes, Process(d)
  PROVE  Owner' /\ NamesOld'
<1>1. /\ pc \in [Processes -> Points]
      /\ lease \in Processes \cup {NoProcess} /\ NoProcess \notin Processes
      /\ Owner /\ NamesOld
  BY ProcessAssumption DEF LifecycleInv, TypeOK
<1>2. UNCHANGED <<target, cmd>>
  BY DEF Process, Opens, Refused, ClearsSocket, Binds, WritesPid, ClosesStore, Joins, Unlinks,
         Exits, Killed, Crashes, Gone, commandVars
<1>3. /\ \A e \in Processes : CameUp(e) => CameUp(e)'
      /\ pidfile' = pidfile \/ pidfile' = NoProcess \/ (pidfile' = d /\ CameUp(d)')
  <2>1. CASE Opens(d) \/ Refused(d) \/ ClearsSocket(d) \/ Binds(d)
    <3>1. ~CameUp(d) /\ UNCHANGED pidfile /\ \A e \in Processes : e # d => pc'[e] = pc[e]
      BY <1>1, <2>1 DEF Opens, Refused, ClearsSocket, Binds, CameUp, Goes, At
    <3> QED BY <3>1 DEF CameUp
  <2>2. CASE WritesPid(d)
    <3>1. ~CameUp(d) /\ CameUp(d)' /\ pidfile' = d /\ \A e \in Processes : e # d => pc'[e] = pc[e]
      BY <1>1, <2>2 DEF WritesPid, CameUp, Goes, At
    <3> QED BY <3>1 DEF CameUp
  <2>3. CASE ClosesStore(d) \/ Joins(d)
    BY <1>1, <2>3 DEF ClosesStore, Joins, CameUp, Goes, At
  <2>4. CASE Unlinks(d)
    BY <1>1, <2>4 DEF Unlinks, UnlinkOrder, CameUp, Goes, At
  <2>5. CASE Exits(d) \/ Killed(d) \/ Crashes(d)
    BY <1>1, <2>5 DEF Exits, Killed, Crashes, Gone, CameUp, Goes
  <2> QED BY <2>1, <2>2, <2>3, <2>4, <2>5 DEF Process
<1>4. NamesOld'
  BY <1>1, <1>2, <1>3 DEF NamesOld
<1>5. Owner'
  <2>1. CASE Opens(d) \/ Refused(d) \/ ClosesStore(d) \/ Joins(d)
    BY <1>1, <2>1 DEF Opens, Refused, ClosesStore, Joins, Owner, Goes, At
  <2>2. CASE ClearsSocket(d) \/ Binds(d) \/ WritesPid(d)
    <3>1. \E to \in {"cleared", "bound", "serving"} : Goes(d, to)
      BY <2>2 DEF ClearsSocket, Binds, WritesPid
    <3>2. pc[d] \in {"leased", "cleared", "bound"} /\ UNCHANGED lease
      BY <2>2 DEF ClearsSocket, Binds, WritesPid, At
    <3> QED BY <1>1, <3>1, <3>2 DEF Owner, Goes
  <2>3. CASE Unlinks(d)
    <3>1. \E to \in {"unlinked", "exiting"} : Goes(d, to)
      BY <2>3 DEF Unlinks, UnlinkOrder
    <3>2. pc[d] \in {"closed", "unlinked"} /\ UNCHANGED lease
      BY <2>3 DEF Unlinks, UnlinkOrder, At
    <3> QED BY <1>1, <3>1, <3>2 DEF Owner, Goes
  <2>4. CASE Exits(d) \/ Killed(d) \/ Crashes(d)
    BY <1>1, <2>4 DEF Exits, Killed, Crashes, Gone, Owner, Goes
  <2> QED BY <2>1, <2>2, <2>3, <2>4 DEF Process
<1> QED BY <1>4, <1>5

LEMMA CommandOwns ==
  ASSUME LifecycleInv, NEW t \in Terminals, Command(t)
  PROVE  Owner' /\ NamesOld'
<1>1. /\ pc \in [Processes -> Points]
      /\ lease \in Processes \cup {NoProcess} /\ NoProcess \notin Processes
      /\ pidfile \in Processes \cup {NoProcess} /\ DOMAIN cmd = Terminals
      /\ target \in [Terminals -> Processes \cup {NoProcess}]
      /\ Owner /\ NamesOld
  BY ProcessAssumption DEF LifecycleInv, TypeOK
<1> USE DEF Goes, Owner, NamesOld, CameUp, daemonVars
<1>2. CASE Types(t)
  BY <1>1, <1>2 DEF Types, Begin
<1>3. CASE AlreadyRunning(t) \/ Started(t) \/ DidNotComeUp(t) \/ NotRunning(t) \/ SeenStopped(t) \/ StopKills(t)
  <2>1. \A u \in Terminals : cmd'[u] = "polling" => cmd[u] = "polling"
    BY <1>1, <1>3 DEF AlreadyRunning, Started, DidNotComeUp, NotRunning, SeenStopped, StopKills,
         Stopped, Ends
  <2>2. UNCHANGED <<pc, lease, sock, pidfile, target>>
    BY <1>3 DEF AlreadyRunning, Started, DidNotComeUp, NotRunning, SeenStopped, StopKills
  <2> QED BY <1>1, <2>1, <2>2
<1>4. CASE Spawns(t)
  BY <1>1, <1>4 DEF Spawns
<1>5. CASE Shutdown(t)
  BY <1>1, <1>5 DEF Shutdown, Reaches
<1>6. CASE Terminates(t)
  BY <1>1, <1>6 DEF Terminates, PidAlive
<1> QED BY <1>2, <1>3, <1>4, <1>5, <1>6 DEF Command

LEMMA StepLifecycle == LifecycleInv /\ [Next]_vars => LifecycleInv'
<1> SUFFICES ASSUME LifecycleInv, [Next]_vars PROVE LifecycleInv'
  OBVIOUS
<1>1. CASE UNCHANGED vars
  BY <1>1 DEF vars, daemonVars, commandVars, LifecycleInv, TypeOK, InScript, Owner, NamesOld,
       CameUp, Kind
<1>2. CASE \E d \in Processes : UNCHANGED script /\ Process(d)
  BY <1>2, ProcessTypes, ProcessOwns DEF LifecycleInv
<1>3. CASE \E t \in Terminals : UNCHANGED script /\ Command(t)
  BY <1>3, CommandTypes, CommandOwns DEF LifecycleInv
<1> QED BY <1>1, <1>2, <1>3 DEF Next

-----------------------------------------------------------------------------
(* What holds as long as comings and goings are apart.                     *)

\* The types that the steps below need.
LEMMA Shapes ==
  ASSUME LifecycleInv
  PROVE  /\ pc \in [Processes -> Points] /\ doomed \in [Processes -> BOOLEAN]
         /\ {lease, sock, pidfile} \subseteq Processes \cup {NoProcess}
         /\ NoProcess \notin Processes
         /\ DOMAIN cmd = Terminals /\ disturbed \in [Terminals -> BOOLEAN]
         /\ Owner /\ NamesOld
BY ProcessAssumption DEF LifecycleInv, TypeOK

LEMMA ProcessApart ==
  ASSUME LifecycleInv, Apart, ApartInv, NEW d \in Processes, Process(d)
  PROVE  ApartInv'
<1> USE DEF At, Goes
<1>1. LeavesFree /\ FilesAreOwners /\ StartsHope /\ StartsSucceed
  BY DEF ApartInv
<1>2. CASE Opens(d)
  <2> USE <1>1, <1>2, Shapes DEF Opens, commandVars
  <2>1. \A e \in Processes : ~Leaving(e)
    BY DEF Apart, ComingUp
  <2>2. LeavesFree'
    BY <2>1 DEF LeavesFree, Leaving
  <2>3. FilesAreOwners'
    BY DEF FilesAreOwners
  <2>4. StartsHope' /\ StartsSucceed'
    BY DEF StartsHope, StartsSucceed, Leaving
  <2> QED BY <2>2, <2>3, <2>4 DEF ApartInv
<1>3. CASE Refused(d)
  <2> USE <1>1, <1>3, Shapes DEF Refused, commandVars
  <2>1. lease \in Processes /\ lease # d /\ ~Leaving(lease)
    BY DEF Apart, ComingUp, Owner
  <2>2. LeavesFree' /\ FilesAreOwners'
    BY DEF LeavesFree, Leaving, FilesAreOwners
  <2>3. StartsHope' /\ StartsSucceed'
    BY <2>1 DEF StartsHope, StartsSucceed, Leaving
  <2> QED BY <2>2, <2>3 DEF ApartInv
<1>4. CASE ClearsSocket(d) \/ Binds(d) \/ WritesPid(d)
  <2>1. /\ pc[d] \in {"leased", "cleared", "bound"} /\ pc'[d] \in {"cleared", "bound", "serving"}
        /\ \A e \in Processes : e # d => pc'[e] = pc[e]
        /\ UNCHANGED <<doomed, lease, cmd, disturbed>>
    BY <1>4, Shapes DEF ClearsSocket, Binds, WritesPid, commandVars
  <2>2. lease = d
    BY <2>1, Shapes DEF Owner
  <2>3. LeavesFree'
    BY <1>1, <2>1 DEF LeavesFree, Leaving
  <2>4. FilesAreOwners'
    <3>1. \A e \in Processes : e # d => pc'[e] \notin {"bound", "serving"} /\ lease' # e
      BY <2>1, <2>2, Shapes DEF Owner
    <3>2. pc'[d] \in {"bound", "serving"} => sock' = d
      BY <1>1, <1>4, Shapes DEF ClearsSocket, Binds, WritesPid, FilesAreOwners
    <3>3. pc'[d] \in {"serving", "stopping"} => pidfile' = d
      BY <1>4, Shapes DEF ClearsSocket, Binds, WritesPid
    <3> QED BY <3>1, <3>2, <3>3 DEF FilesAreOwners
  <2>5. StartsHope' /\ StartsSucceed'
    BY <1>1, <2>1, <2>2 DEF StartsHope, StartsSucceed, Leaving
  <2> QED BY <2>3, <2>4, <2>5 DEF ApartInv
<1>5. CASE ClosesStore(d)
  <2> USE <1>1, <1>5, Shapes DEF ClosesStore, commandVars
  <2>1. LeavesFree'
    BY DEF LeavesFree
  <2>2. FilesAreOwners'
    BY DEF FilesAreOwners
  <2>3. StartsHope' /\ StartsSucceed'
    BY DEF StartsHope, StartsSucceed, Leaving
  <2> QED BY <2>1, <2>2, <2>3 DEF ApartInv
<1>6. CASE Joins(d)
  <2> USE <1>1, <1>6, Shapes DEF Joins, commandVars
  <2>1. LeavesFree' /\ FilesAreOwners'
    BY DEF LeavesFree, Leaving, FilesAreOwners
  <2>2. StartsHope' /\ StartsSucceed'
    BY DEF StartsHope, StartsSucceed, Leaving
  <2> QED BY <2>1, <2>2 DEF ApartInv
<1>7. CASE Unlinks(d)
  <2>1. /\ pc[d] \in {"closed", "unlinked"} /\ ~doomed[d] /\ pc'[d] \in {"unlinked", "exiting"}
        /\ \A e \in Processes : e # d => pc'[e] = pc[e]
        /\ UNCHANGED <<doomed, lease, cmd, disturbed>>
    BY <1>7, Shapes DEF Unlinks, UnlinkOrder, commandVars
  <2>2. lease # d
    BY <2>1, Shapes DEF Owner
  <2>3. lease = NoProcess
    BY <1>1, <2>1, <2>2 DEF LeavesFree, Leaving
  <2>4. LeavesFree' /\ StartsSucceed'
    BY <1>1, <2>1, <2>3 DEF LeavesFree, StartsSucceed
  <2>5. FilesAreOwners'
    BY <2>1, <2>3, Shapes DEF FilesAreOwners, Owner
  <2>6. StartsHope'
    BY <1>1, <2>1, <2>3, Shapes DEF StartsHope
  <2> QED BY <2>4, <2>5, <2>6 DEF ApartInv
<1>8. CASE Exits(d) \/ Killed(d) \/ Crashes(d)
  <2>1. Gone(d)
    BY <1>8 DEF Exits, Killed, Crashes
  <2> USE <1>1, <2>1, Shapes DEF Gone
  <2>2. LeavesFree'
    BY DEF LeavesFree, Leaving
  <2>3. FilesAreOwners'
    BY DEF FilesAreOwners
  <2>4. StartsHope' /\ StartsSucceed'
    BY DEF StartsHope, StartsSucceed, Leaving
  <2> QED BY <2>2, <2>3, <2>4 DEF ApartInv
<1> QED BY <1>2, <1>3, <1>4, <1>5, <1>6, <1>7, <1>8 DEF Process

LEMMA CommandApart ==
  ASSUME LifecycleInv, Apart, ApartInv, NEW t \in Terminals, Command(t)
  PROVE  ApartInv'
<1>1. LeavesFree /\ FilesAreOwners /\ StartsHope /\ StartsSucceed
  BY DEF ApartInv
<1>2. CASE Types(t)
  <2>1. UNCHANGED daemonVars /\ cmd'[t] \notin {"waiting", "failed"}
    BY <1>2, Shapes DEF Types, Begin
  <2>2. \A u \in Terminals : u # t => cmd'[u] = cmd[u] /\ disturbed'[u] = disturbed[u]
    BY <1>2, Shapes DEF Types
  <2>3. LeavesFree' /\ FilesAreOwners'
    BY <1>1, <2>1 DEF daemonVars, LeavesFree, Leaving, FilesAreOwners
  <2>4. StartsHope' /\ StartsSucceed'
    BY <1>1, <2>1, <2>2 DEF daemonVars, StartsHope, StartsSucceed, Leaving
  <2> QED BY <2>3, <2>4 DEF ApartInv
<1>3. CASE AlreadyRunning(t) \/ Started(t) \/ NotRunning(t) \/ SeenStopped(t) \/ StopKills(t) \/ Terminates(t)
  <2>1. /\ UNCHANGED <<pc, lease, sock, pidfile, disturbed>>
        /\ \A e \in Processes : doomed[e] => doomed'[e]
    BY <1>3, Shapes
    DEF daemonVars, AlreadyRunning, Started, NotRunning, SeenStopped, StopKills, Terminates
  <2>2. \A u \in Terminals : cmd'[u] \in {"waiting", "failed"} => cmd'[u] = cmd[u]
    <3>1. CASE Terminates(t)
      BY <3>1, Shapes DEF Terminates
    <3>2. CASE ~Terminates(t)
      BY <1>3, <3>2, Shapes DEF AlreadyRunning, Started, NotRunning, SeenStopped, StopKills,
           Stopped, Ends
    <3> QED BY <3>1, <3>2
  <2>3. LeavesFree' /\ FilesAreOwners'
    BY <1>1, <2>1, Shapes DEF LeavesFree, Leaving, FilesAreOwners
  <2>4. StartsHope' /\ StartsSucceed'
    BY <1>1, <2>1, <2>2 DEF StartsHope, StartsSucceed, Leaving
  <2> QED BY <2>3, <2>4 DEF ApartInv
<1>4. CASE Spawns(t)
  <2>1. PICK d \in Processes : pc[d] = "unborn" /\ pc' = [pc EXCEPT ![d] = "opening"]
    BY <1>4 DEF Spawns, Goes
  <2> USE <1>1, <1>4, <2>1, Shapes DEF Spawns
  <2>2. LeavesFree' /\ FilesAreOwners'
    BY DEF LeavesFree, Leaving, FilesAreOwners
  <2>3. pc'[d] = "opening"
    OBVIOUS
  <2>4. StartsHope'
    BY <2>3 DEF StartsHope, Leaving
  <2>5. StartsSucceed'
    BY DEF StartsSucceed
  <2> QED BY <2>2, <2>4, <2>5 DEF ApartInv
<1>5. CASE DidNotComeUp(t)
  <2> USE <1>1, <1>5, Shapes DEF DidNotComeUp, daemonVars
  <2>1. disturbed[t]
    <3> SUFFICES ASSUME ~disturbed[t] PROVE FALSE
      OBVIOUS
    <3>1. PICK d \in Processes : pc[d] = "opening" \/ (lease = d /\ ~Leaving(d))
      BY DEF StartsHope
    <3>2. pc[d] = "serving"
      BY <3>1 DEF Owner, ComingUp, Alive, Leaving
    <3> QED BY <3>2 DEF FilesAreOwners, Unanswered
  <2>2. LeavesFree' /\ FilesAreOwners'
    BY DEF LeavesFree, Leaving, FilesAreOwners
  <2>3. StartsHope' /\ StartsSucceed'
    BY <2>1 DEF StartsHope, StartsSucceed, Leaving
  <2> QED BY <2>2, <2>3 DEF ApartInv
<1>6. CASE Shutdown(t)
  <2>1. PICK d \in Processes : Reaches(d) /\ pc' = [pc EXCEPT ![d] = "stopping"]
    BY <1>6 DEF Shutdown, Goes
  <2>2. pc[d] = "serving" /\ lease = d /\ UNCHANGED <<doomed, lease, sock, pidfile>>
    BY <1>6, <2>1, Shapes DEF Shutdown, Reaches, Owner
  <2>3. LeavesFree'
    BY <1>1, <2>1, <2>2, Shapes DEF LeavesFree, Leaving
  <2>4. FilesAreOwners'
    BY <1>1, <2>1, <2>2, Shapes DEF FilesAreOwners
  <2>5. \A u \in Terminals :
          /\ cmd'[u] = "waiting" => disturbed'[u]
          /\ cmd'[u] = "failed" => cmd[u] = "failed"
          /\ disturbed[u] => disturbed'[u]
    BY <1>6, Shapes DEF Shutdown
  <2>6. StartsHope' /\ StartsSucceed'
    BY <1>1, <2>5 DEF StartsHope, StartsSucceed
  <2> QED BY <2>3, <2>4, <2>6 DEF ApartInv
<1> QED BY <1>2, <1>3, <1>4, <1>5, <1>6 DEF Command

LEMMA StepApart == LifecycleInv /\ Apart /\ ApartInv /\ [Next]_vars => ApartInv'
<1> SUFFICES ASSUME LifecycleInv, Apart, ApartInv, [Next]_vars PROVE ApartInv'
  OBVIOUS
<1>1. CASE UNCHANGED vars
  BY <1>1 DEF vars, daemonVars, commandVars, ApartInv, LeavesFree, Leaving, FilesAreOwners,
              StartsHope, StartsSucceed
<1>2. CASE Next
  BY <1>2, ProcessApart, CommandApart DEF Next
<1> QED BY <1>1, <1>2

\* The daemon a stop waits for came up; if it still had the store, its pidfile
\* would still be there.
LEMMA SeenStoppedFrees ==
  ASSUME LifecycleInv, ApartInv, NEW t \in Terminals, SeenStopped(t)
  PROVE  lease # target[t]
<1> SUFFICES ASSUME lease = target[t] PROVE FALSE
  OBVIOUS
<1>1. PICK d \in Processes \cup {NoProcess} : lease = d /\ target[t] = d
  BY Shapes
<1>2. CASE d \in Processes
  <2>1. pc[d] \in {"serving", "stopping"}
    BY <1>1, <1>2, Shapes DEF Owner, NamesOld, CameUp
  <2>2. pidfile = d
    BY <1>1, <1>2, <2>1 DEF ApartInv, FilesAreOwners
  <2> QED BY <1>2, <2>1, <2>2, Shapes DEF SeenStopped, PidAlive, Alive
<1>3. CASE d = NoProcess
  BY <1>1, <1>3, Shapes DEF SeenStopped, NamesOld
<1> QED BY <1>2, <1>3

-----------------------------------------------------------------------------
(* Theorems.                                                               *)

LEMMA LifecycleInductive == Spec => []LifecycleInv
<1>1. Init => LifecycleInv
  BY InitLifecycle
<1> QED BY <1>1, StepLifecycle, PTL DEF Spec

LEMMA ApartInductive == Spec /\ []Apart => []ApartInv
<1>1. Init => ApartInv
  BY InitLifecycle
<1> QED BY <1>1, LifecycleInductive, StepApart, PTL DEF Spec

\* Whatever the terminals run and whoever is killed, every variable keeps its
\* type and no command gets where its kind never goes.
THEOREM TypeCorrect == Spec => []TypeOK
<1>1. LifecycleInv => TypeOK
  BY DEF LifecycleInv
<1> QED BY <1>1, LifecycleInductive, PTL

\* Never two daemons at work for a project: one that clears, binds or writes a
\* file, or serves, has the store to itself.  This needs no condition; it is the
\* lease that starts rely on when they spawn a daemon each.
OneOwner ==
  \A d, e \in Processes :
    pc[d] \in {"leased", "cleared", "bound", "serving"}
      /\ pc[e] \in {"leased", "cleared", "bound", "serving"} => d = e
THEOREM OneDaemonServes == Spec => []OneOwner
<1>1. LifecycleInv => OneOwner
  BY DEF LifecycleInv, Owner, OneOwner
<1> QED BY <1>1, LifecycleInductive, PTL

\* A serving daemon is the one that the socket and the pidfile lead to, as long
\* as no other one leaves while it comes up.
THEOREM RunningFound == Spec /\ []Apart => []RunningIsFound
<1>1. LifecycleInv /\ ApartInv => RunningIsFound
  BY DEF LifecycleInv, ApartInv, Owner, FilesAreOwners, RunningIsFound
<1> QED BY <1>1, LifecycleInductive, ApartInductive, PTL

\* A start fails only if a daemon went down during it, however many terminals
\* start one at a time, and whatever killed daemons left behind.
THEOREM StartsWork == Spec /\ []Apart => []StartsSucceed
<1>1. ApartInv => StartsSucceed
  BY DEF ApartInv
<1> QED BY <1>1, ApartInductive, PTL

\* Once a stop has seen its daemon stopped the store is free of that daemon.
THEOREM StopReleases == Spec /\ []Apart => StoppedIsReleased
<1>1. LifecycleInv /\ ApartInv => [\A t \in Terminals : SeenStopped(t) => lease # target[t]]_vars
  BY SeenStoppedFrees
<1> QED BY <1>1, LifecycleInductive, ApartInductive, PTL DEF StoppedIsReleased

-----------------------------------------------------------------------------
(* When comings and goings are apart.                                      *)

\* With one terminal, a daemon comes up while its start waits for it, and no
\* other one serves then; one that leaves does so while its stop polls, which
\* goes on as long as the pidfile is there.
Alone(t) ==
  /\ \A d \in Processes : ComingUp(d) =>
       cmd[t] = "waiting" /\ \A e \in Processes : e # d => ~ComingUp(e) /\ pc[e] # "serving"
  /\ \A d \in Processes : Leaving(d) => cmd[t] = "polling" /\ pidfile = d

LEMMA AloneIsApart == \A t : Alone(t) => Apart
BY DEF Alone, Apart

LEMMA ProcessAlone ==
  ASSUME NEW t \in Terminals, LifecycleInv, Alone(t), NEW d \in Processes, Process(d)
  PROVE  Alone(t)'
<1> USE DEF At, Goes, ComingUp, Leaving
<1>1. /\ pc \in [Processes -> Points] /\ doomed \in [Processes -> BOOLEAN] /\ cmd' = cmd
  <2>1. cmd' = cmd
    BY DEF Process, Opens, Refused, ClearsSocket, Binds, WritesPid, ClosesStore, Joins, Unlinks,
         Exits,
           Killed, Crashes, Gone, commandVars
  <2> QED BY <2>1, Shapes
<1>2. CASE Opens(d) \/ ClearsSocket(d) \/ Binds(d) \/ WritesPid(d)
  <2>1. /\ ComingUp(d) /\ \A e \in Processes : e # d => pc'[e] = pc[e]
        /\ doomed' = doomed /\ pc'[d] \in {"leased", "cleared", "bound", "serving"}
    BY <1>1, <1>2 DEF Opens, ClearsSocket, Binds, WritesPid
  <2>2. cmd[t] = "waiting" /\ \A e \in Processes : e # d => ~ComingUp(e) /\ pc[e] # "serving"
    BY <2>1 DEF Alone
  <2>3. \A e \in Processes : ~Leaving(e)
    BY <2>2 DEF Alone
  <2>4. \A e \in Processes : ~Leaving(e)'
    BY <2>1, <2>3
  <2>5. \A e \in Processes : e # d => ~ComingUp(e)' /\ pc'[e] # "serving"
    BY <2>1, <2>2
  <2> QED BY <1>1, <2>2, <2>4, <2>5 DEF Alone
<1>3. CASE Refused(d) \/ Exits(d) \/ Killed(d) \/ Crashes(d)
  <2>1. /\ pc'[d] = "dead" /\ \A e \in Processes : e # d => pc'[e] = pc[e]
        /\ doomed' = doomed /\ pidfile' = pidfile
    BY <1>1, <1>3 DEF Refused, Exits, Killed, Crashes, Gone
  <2>2. \A e \in Processes : /\ ComingUp(e)' => ComingUp(e) /\ e # d
                             /\ Leaving(e)' => Leaving(e) /\ e # d
                             /\ pc'[e] = "serving" => pc[e] = "serving"
    BY <2>1
  <2> QED BY <1>1, <2>1, <2>2 DEF Alone
<1>4. CASE ClosesStore(d)
  BY <1>1, <1>4 DEF ClosesStore, Alone
<1>5. CASE Joins(d) \/ Unlinks(d)
  <2>1. /\ Leaving(d) /\ \A e \in Processes : e # d => pc'[e] = pc[e]
        /\ doomed' = doomed /\ pc'[d] \in {"closed", "unlinked", "exiting"}
        /\ pc'[d] \in {"closed", "unlinked"} => pidfile' = pidfile
    BY <1>1, <1>5 DEF Joins, Unlinks, UnlinkOrder
  <2>2. cmd[t] = "polling" /\ pidfile = d
    BY <2>1 DEF Alone
  <2>3. \A e \in Processes : ~ComingUp(e) /\ (e # d => ~Leaving(e))
    BY <2>2 DEF Alone
  <2>4. \A e \in Processes : ~ComingUp(e)' /\ (Leaving(e)' => e = d)
    BY <2>1, <2>3
  <2>5. Leaving(d)' => pidfile' = d
    BY <2>1, <2>2
  <2> QED BY <1>1, <2>2, <2>4, <2>5 DEF Alone
<1> QED BY <1>2, <1>3, <1>4, <1>5 DEF Process

LEMMA CommandAlone ==
  ASSUME NEW t \in Terminals, LifecycleInv, ApartInv, Alone(t), Command(t)
  PROVE  Alone(t)'
<1> USE DEF Goes, ComingUp, Leaving
<1>1. /\ pc \in [Processes -> Points] /\ doomed \in [Processes -> BOOLEAN] /\ DOMAIN cmd = Terminals
      /\ NoProcess \notin Processes /\ pidfile \in Processes \cup {NoProcess}
  BY Shapes
<1>2. \A d \in Processes : pc[d] = "serving" => sock = d /\ pidfile = d /\ lease = d
  BY Shapes DEF ApartInv, FilesAreOwners, Owner
<1>3. CASE Types(t) \/ AlreadyRunning(t) \/ NotRunning(t) \/ Terminates(t)
  <2>1. cmd[t] \in {"ended", "pinging", "asking"} /\ pc' = pc
    BY <1>3 DEF Types, AlreadyRunning, NotRunning, Terminates, daemonVars
  <2>2. \A d \in Processes : ~ComingUp(d) /\ ~Leaving(d)
    BY <2>1 DEF Alone
  <2>3. \A d \in Processes : doomed[d] => doomed'[d]
    BY <1>1, <1>3 DEF Types, AlreadyRunning, NotRunning, Terminates, daemonVars
  <2>4. \A d \in Processes : ~ComingUp(d)' /\ ~Leaving(d)'
    BY <2>1, <2>2, <2>3
  <2> QED BY <2>4 DEF Alone
<1>4. CASE Spawns(t)
  <2>1. PICK d \in Processes : pc[d] = "unborn" /\ pc' = [pc EXCEPT ![d] = "opening"]
    BY <1>4 DEF Spawns
  <2>2. \A e \in Processes : ~ComingUp(e) /\ ~Leaving(e)
    BY <1>4 DEF Spawns, Alone
  <2>3. \A e \in Processes : pc[e] # "serving"
    BY <1>2, <1>4 DEF Spawns, Unanswered
  <2>4. cmd'[t] = "waiting" /\ doomed' = doomed
    BY <1>1, <1>4 DEF Spawns
  <2>5. \A e \in Processes : ~Leaving(e)' /\ (e # d => ~ComingUp(e)' /\ pc'[e] # "serving")
    BY <1>1, <2>1, <2>2, <2>3, <2>4
  <2> QED BY <2>4, <2>5 DEF Alone
<1>5. CASE Started(t) \/ DidNotComeUp(t)
  <2>1. cmd[t] = "waiting" /\ UNCHANGED <<pc, doomed>>
    BY <1>5 DEF Started, DidNotComeUp, daemonVars
  <2>2. \A d \in Processes : ~ComingUp(d)
    <3>1. CASE Started(t)
      <4>1. PICK e \in Processes : pc[e] = "serving"
        BY <3>1 DEF Started, Answered, Reaches
      <4>2. \A d \in Processes : ComingUp(d) => e # d
        BY <4>1
      <4> QED BY <4>1, <4>2 DEF Alone
    <3>2. CASE DidNotComeUp(t)
      BY <3>2 DEF DidNotComeUp
    <3> QED BY <1>5, <3>1, <3>2
  <2>3. \A d \in Processes : ~Leaving(d)
    BY <2>1 DEF Alone
  <2> QED BY <2>1, <2>2, <2>3 DEF Alone
<1>6. CASE Shutdown(t)
  <2>1. PICK d \in Processes : Reaches(d) /\ pc' = [pc EXCEPT ![d] = "stopping"]
    BY <1>6 DEF Shutdown
  <2>2. cmd[t] = "asking" /\ cmd'[t] = "polling" /\ UNCHANGED <<doomed, pidfile>>
    BY <1>1, <1>6 DEF Shutdown
  <2>3. \A e \in Processes : ~ComingUp(e) /\ ~Leaving(e)
    BY <2>2 DEF Alone
  <2>4. pidfile = d
    BY <1>2, <2>1 DEF Reaches
  <2>5. \A e \in Processes : ~ComingUp(e)' /\ (Leaving(e)' => e = d)
    BY <1>1, <2>1, <2>2, <2>3
  <2> QED BY <2>2, <2>4, <2>5 DEF Alone
<1>7. CASE SeenStopped(t) \/ StopKills(t)
  <2>1. cmd[t] = "polling" /\ pc' = pc
    BY <1>7 DEF SeenStopped, StopKills, daemonVars
  <2>2. \A d \in Processes : ~ComingUp(d)
    BY <2>1 DEF Alone
  <2>3. \A d \in Processes : ~Leaving(d)'
    <3>1. CASE SeenStopped(t)
      <4>1. UNCHANGED <<pc, doomed>> /\ ~PidAlive
        BY <3>1 DEF SeenStopped, daemonVars
      <4>2. \A d \in Processes : Leaving(d) => PidAlive
        BY <1>1 DEF Alone, PidAlive, Alive
      <4> QED BY <4>1, <4>2
    <3>2. CASE StopKills(t)
      <4>1. doomed' = [doomed EXCEPT ![pidfile] = TRUE]
        BY <3>2 DEF StopKills
      <4>2. \A d \in Processes : Leaving(d) => pidfile = d
        BY DEF Alone
      <4>3. \A d \in Processes : Leaving(d)' => Leaving(d) /\ pidfile # d
        BY <1>1, <2>1, <4>1
      <4> QED BY <4>2, <4>3
    <3> QED BY <1>7, <3>1, <3>2
  <2>4. \A d \in Processes : ~ComingUp(d)'
    BY <2>1, <2>2
  <2> QED BY <2>3, <2>4 DEF Alone
<1> QED BY <1>3, <1>4, <1>5, <1>6, <1>7 DEF Command

LEMMA AloneInductive ==
  ASSUME NEW t, Terminals = {t}
  PROVE  Spec => [](LifecycleInv /\ ApartInv /\ Alone(t))
<1>1. Init => Alone(t)
  BY DEF Init, Alone, ComingUp, Leaving
<1>2. LifecycleInv /\ ApartInv /\ Alone(t) /\ [Next]_vars => Alone(t)'
  <2> SUFFICES ASSUME LifecycleInv, ApartInv, Alone(t), [Next]_vars PROVE Alone(t)'
    OBVIOUS
  <2>1. CASE UNCHANGED vars
    BY <2>1 DEF vars, daemonVars, commandVars, Alone, ComingUp, Leaving
  <2>2. CASE Next
    BY <2>2, ProcessAlone, CommandAlone DEF Next
  <2> QED BY <2>1, <2>2
<1>3. LifecycleInv /\ ApartInv /\ Alone(t) /\ [Next]_vars => LifecycleInv' /\ ApartInv'
  BY AloneIsApart, StepLifecycle, StepApart
<1> QED BY <1>1, <1>2, <1>3, InitLifecycle, PTL DEF Spec

\* Commands that one terminal runs one after another, whatever they are and
\* whichever daemon is killed when, keep comings and goings apart: a stop returns
\* once the pidfile is gone, which is unlinked last (cli.py:79-83, daemon.py:351).
THEOREM OneAfterAnother ==
  ASSUME NEW t, Terminals = {t}
  PROVE  Spec => []Apart
<1>1. Alone(t) => Apart
  BY AloneIsApart
<1> QED BY <1>1, AloneInductive, PTL

\* With one terminal the promises of status, start and stop need no condition: a
\* serving daemon is found, starts succeed, and a stop has released the store.
THEOREM OneTerminal ==
  ASSUME NEW t, Terminals = {t}
  PROVE  Spec => []RunningIsFound /\ []StartsSucceed /\ StoppedIsReleased
BY OneAfterAnother, RunningFound, StartsWork, StopReleases, PTL

\* Restarts and stops are not among what the terminals run.
NobodyStops == \A s \in Scripts, t \in Terminals : \A i \in 1..Len(s[t]) : s[t][i] = "start"

\* Nor do the promises need a condition if any number of terminals start a daemon
\* at once and none stops it: no daemon leaves then but by being killed.
THEOREM StartersOnly ==
  ASSUME NobodyStops
  PROVE  Spec => []RunningIsFound /\ []StartsSucceed
<1> DEFINE NoneLeaves == \A d \in Processes : pc[d] \notin {"stopping", "closed", "unlinked"}
<1>1. Init => NoneLeaves
  BY DEF Init
<1>2. LifecycleInv /\ NoneLeaves /\ [Next]_vars => NoneLeaves'
  <2> SUFFICES ASSUME LifecycleInv, NoneLeaves, [Next]_vars PROVE NoneLeaves'
    OBVIOUS
  <2>1. CASE UNCHANGED vars
    BY <2>1 DEF vars, daemonVars
  <2>2. ASSUME NEW d \in Processes, Process(d) PROVE NoneLeaves'
    BY <2>2, Shapes DEF Process, Opens, Refused, ClearsSocket, Binds, WritesPid, ClosesStore,
         Joins, Unlinks,
       UnlinkOrder, Exits, Killed, Crashes, Gone, Goes, At
  <2>3. ASSUME NEW t \in Terminals, Command(t) PROVE NoneLeaves'
    <3>1. cmd[t] # "asking"
      <4> SUFFICES ASSUME cmd[t] = "asking" PROVE FALSE
        OBVIOUS
      <4>1. next[t] \in 1..Len(script[t]) /\ Kind(t) \in {"stop", "restart"} /\ script \in Scripts
        <5>1. /\ script \in Scripts /\ next[t] \in Nat /\ next[t] \in 1..(Len(script[t]) + 1)
              /\ next[t] <= Len(script[t]) /\ Kind(t) \in {"stop", "restart"}
          BY DEF LifecycleInv, TypeOK, InScript
        <5> QED BY <5>1
      <4> QED BY <4>1 DEF NobodyStops, Kind
    <3> QED BY <2>3, <3>1, Shapes DEF Command, Types, AlreadyRunning, Spawns, Started,
         DidNotComeUp, Shutdown,
               Terminates, NotRunning, SeenStopped, StopKills, Goes, daemonVars
  <2> QED BY <2>1, <2>2, <2>3 DEF Next
<1>3. NoneLeaves => Apart
  BY DEF Apart, Leaving
<1> HIDE DEF NoneLeaves
<1> QED BY <1>1, <1>2, <1>3, LifecycleInductive, RunningFound, StartsWork, PTL DEF Spec
=============================================================================
