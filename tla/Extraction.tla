----------------------------- MODULE Extraction -----------------------------
(***************************************************************************)
(* How an index job gets its graph.  From the native parser: parse_file on *)
(* each source.  From CodeGraph (codegraph_import.py): two commands run in *)
(* process groups of their own, each polled against cancellation and a     *)
(* deadline and cleaned up by signals; then the database they leave is     *)
(* validated, its symbols get identities, and calls whose callee Python    *)
(* binds to a parameter are quarantined.                                   *)
(*                                                                         *)
(* One source file stands for the repository; its syntax is tree.          *)
(***************************************************************************)
EXTENDS ParsePython

CONSTANTS
  NativeFiles,    \* files the native parser is given
  CodegraphFiles, \* files the CodeGraph extractor is given
  Launcher,       \* the process that the daemon starts
  Helpers         \* processes it may start

ASSUME ProcessAssumption == Launcher \notin Helpers
ASSUME FilesAssumption == \A t \in NativeFiles \cup CodegraphFiles : WellFormed(t)

VARIABLES
  source,     \* "native" or "codegraph"
  tree,       \* the file
  pc,         \* where prepare_codegraph is
  command,    \* "version" or "index"
  cancel,     \* _index_cancel
  late,       \* the deadline of the command has passed
  live,       \* processes of the group that run
  pipes,      \* those of them that hold the output pipes
  started,    \* processes ever started for this command
  exit,       \* of the launcher: "none", "ok" or "failed"
  outcome,    \* how the command ends, once decided
  upstream,   \* the CodeGraph database: call -> definition it was resolved to
  defect,     \* what is wrong with the database or the sources, if anything
  graph       \* what is loaded: identities, evidence, quarantine

process == <<live, pipes, started, exit>>
vars == <<source, tree, pc, command, cancel, late, process, outcome, upstream, defect, graph>>

Processes == {Launcher} \cup Helpers

\* Nodes of the database: the file, and its definitions in order of start_line.
Ids == {0} \cup Of(tree, {"def", "class"})

\* No call is resolved to the file, so it can stand for a call that was not.
Unresolved == 0

Empty == [resolved |-> {}, identity |-> <<>>, evidence |-> {}, rejected |-> {}]

Init ==
  /\ source \in {"native", "codegraph"}
  /\ tree \in IF source = "native" THEN NativeFiles ELSE CodegraphFiles
  /\ pc = IF source = "native" THEN "parse" ELSE "start"
  /\ command = "version" /\ cancel = FALSE /\ late = FALSE
  /\ live = {} /\ pipes = {} /\ started = {} /\ exit = "none" /\ outcome = "none"
  /\ upstream = <<>> /\ defect = "none" /\ graph = Empty

-----------------------------------------------------------------------------
(* The native parser.                                                      *)

ParseFile ==
  /\ pc = "parse"
  /\ graph' = [Empty EXCEPT !.resolved = NativeCalls(tree)]
  /\ pc' = "prepared"
  /\ UNCHANGED <<source, tree, command, cancel, late, process, outcome, upstream, defect>>

-----------------------------------------------------------------------------
(* The world: shutdown, the clock, and the extractor's processes.          *)

Commanding == pc \in {"start", "poll", "wait", "terminate", "grace", "kill", "reap"}

Cancel ==
  /\ Commanding /\ ~cancel /\ cancel' = TRUE
  /\ UNCHANGED <<source, tree, pc, command, late, process, outcome, upstream, defect, graph>>

Deadline ==
  /\ pc \in {"poll", "wait"} /\ ~late /\ late' = TRUE
  /\ UNCHANGED <<source, tree, pc, command, cancel, process, outcome, upstream, defect, graph>>

\* A process starts another, in its group, with or without its pipes.
Forks(h) ==
  /\ live # {} /\ h \in Helpers \ started
  /\ live' = live \cup {h} /\ started' = started \cup {h}
  /\ pipes' \in {pipes} \cup {pipes \cup {h} : p \in pipes}
  /\ UNCHANGED <<source, tree, pc, command, cancel, late, exit, outcome, upstream, defect, graph>>

\* A process ends by itself, or on SIGTERM, which it may also ignore.
Exits(p) ==
  /\ p \in live
  /\ live' = live \ {p} /\ pipes' = pipes \ {p}
  /\ exit' \in IF p = Launcher THEN {"ok", "failed"} ELSE {exit}
  /\ UNCHANGED <<source, tree, pc, command, cancel, late, started, outcome, upstream, defect, graph>>

-----------------------------------------------------------------------------
(* _codegraph_command.                                                     *)

\* communicate() returns when the output has ended and the launcher has exited.
Communicated == pipes = {} /\ Launcher \notin live

Fails(what) == outcome' = what /\ pc' = "raised"

\* Mutant of Launches: processes are counted on from the command before.
LaunchesOver ==
  /\ live' = {Launcher} /\ pipes' = {Launcher} /\ exit' = "none" /\ UNCHANGED started

Launches ==
  /\ live' = {Launcher} /\ pipes' = {Launcher} /\ exit' = "none" /\ started' = {Launcher}

\* The check before Popen, and Popen; the command may not be installed.
Start ==
  /\ pc = "start"
  /\ \/ cancel /\ Fails("cancelled") /\ UNCHANGED <<process, late>>
     \/ ~cancel /\ Fails("missing") /\ UNCHANGED <<process, late>>
     \/ /\ ~cancel
        /\ Launches /\ late' = FALSE
        /\ pc' = "poll" /\ UNCHANGED outcome
  /\ UNCHANGED <<source, tree, command, cancel, upstream, defect, graph>>

Poll ==
  /\ pc = "poll"
  /\ \/ cancel /\ outcome' = "cancelled" /\ pc' = "terminate"
     \/ ~cancel /\ late /\ outcome' = "timeout" /\ pc' = "terminate"
     \/ ~cancel /\ ~late /\ pc' = "wait" /\ UNCHANGED outcome
  /\ UNCHANGED <<source, tree, command, cancel, late, process, upstream, defect, graph>>

\* 0.2 s of communicate(): the end of the command, or another poll.
Wait ==
  /\ pc = "wait"
  /\ IF Communicated
     THEN outcome' = exit /\ pc' = "terminate"
     ELSE pc' = "poll" /\ UNCHANGED outcome
  /\ UNCHANGED <<source, tree, command, cancel, late, process, upstream, defect, graph>>

\* Mutant of Terminate: a command that has ended is not cleaned up.
TerminateUnlessDone ==
  /\ pc = "terminate"
  /\ pc' = IF Communicated THEN "reap" ELSE "grace"
  /\ UNCHANGED <<source, tree, command, cancel, late, process, outcome, upstream, defect, graph>>

\* SIGTERM to the group.
Terminate ==
  /\ pc = "terminate" /\ pc' = "grace"
  /\ UNCHANGED <<source, tree, command, cancel, late, process, outcome, upstream, defect, graph>>

\* Up to 2 s of communicate().
Grace ==
  /\ pc = "grace" /\ pc' = "kill"
  /\ UNCHANGED <<source, tree, command, cancel, late, process, outcome, upstream, defect, graph>>

\* Mutant of Kill: the launcher is killed, its group is not.
KillLauncher ==
  /\ pc = "kill" /\ pc' = "reap"
  /\ live' = live \ {Launcher} /\ pipes' = pipes \ {Launcher}
  /\ UNCHANGED <<source, tree, command, cancel, late, started, exit, outcome, upstream, defect, graph>>

\* SIGKILL to what is left of the group.
Kill ==
  /\ pc = "kill" /\ pc' = "reap"
  /\ live' = {} /\ pipes' = {}
  /\ UNCHANGED <<source, tree, command, cancel, late, started, exit, outcome, upstream, defect, graph>>

\* communicate() without a time-out, and what prepare_codegraph does next.
Reap ==
  /\ pc = "reap" /\ Communicated
  /\ \/ outcome = "ok" /\ command = "version" /\ pc' = "start" /\ command' = "index" /\ outcome' = "none"
     \/ outcome = "ok" /\ command = "version" /\ Fails("wrong version") /\ UNCHANGED command
     \/ outcome = "ok" /\ command = "index" /\ pc' = "read" /\ UNCHANGED <<command, outcome>>
     \/ outcome # "ok" /\ pc' = "raised" /\ UNCHANGED <<command, outcome>>
  /\ UNCHANGED <<source, tree, cancel, late, process, upstream, defect, graph>>

-----------------------------------------------------------------------------
(* prepare_snapshot and write_snapshot.                                    *)

\* The database: any definition, or none, for each call; a schema, version,
\* state, range, endpoint or extraction error; an edited source; a file whose
\* bindings Python cannot analyse.
ReadSnapshot ==
  /\ pc = "read"
  /\ defect' \in {"none", "invalid", "stale", "unparsable"}
  /\ upstream' \in IF defect' \in {"invalid", "stale"} THEN {<<>>}
                   ELSE [AllCalls(tree) -> Ids]
  /\ pc' = IF defect' \in {"invalid", "stale"} THEN "raised" ELSE "prepare"
  /\ UNCHANGED <<source, tree, command, cancel, late, process, outcome, graph>>

\* Module-qualified name of a definition; the file's is its path.
Path(i) == IF i = 0 THEN <<>>
           ELSE LET around == Around(tree, i, {"def", "class"}) \cup {i}
                IN [k \in 1..Cardinality(around) |->
                      tree[CHOOSE j \in around : Cardinality({h \in around : h <= j}) = k].name]

\* Mutant of Representative: every definition is taken for the last.
RepresentativeAlways(i) == TRUE

\* The last definition of a name represents it.
Representative(i) == \A j \in Ids : Path(j) = Path(i) => j <= i

\* The others keep their upstream identity.
Identity(i) == IF Representative(i) THEN <<"name", Path(i)>> ELSE <<"id", i>>

\* Symbol, or file, that a call stands in.
Caller(i) == Inner(tree, i, {"def", "class"})

Analysed == defect # "unparsable" /\ ~Unmatched(tree)

\* Mutant of Rejected: a file that cannot be analysed passes.
RejectedIfFound == IF Analysed THEN Shadowed(tree) ELSE {}

\* Calls in a shadowed site; all calls of a file without analysis.
Rejected == IF Analysed THEN Shadowed(tree) ELSE AllCalls(tree)

\* Callsites of the relationship between two identities.
Evidence(s, t, rejected) ==
  {i \in DOMAIN upstream \ rejected :
     upstream[i] # Unresolved /\ Identity(Caller(i)) = s /\ Identity(upstream[i]) = t}

Edges(rejected) ==
  {[source |-> s, target |-> t, sites |-> Evidence(s, t, rejected)] :
     s \in {Identity(i) : i \in Ids}, t \in {Identity(i) : i \in Ids}}

Prepare ==
  /\ pc = "prepare"
  /\ \E rejected \in {Rejected} :
     graph' = [resolved |-> {},
               identity |-> [i \in Ids |-> Identity(i)],
               evidence |-> {e \in Edges(rejected) : e.sites # {}},
               rejected |-> {i \in DOMAIN upstream : upstream[i] # Unresolved /\ i \in rejected}]
  /\ pc' = "prepared"
  /\ UNCHANGED <<source, tree, command, cancel, late, process, outcome, upstream, defect>>

Caught == Start \/ Poll \/ Wait \/ Terminate \/ Grace \/ Kill \/ Reap \/ ReadSnapshot \/ Prepare

Next ==
  \/ ParseFile \/ Caught
  \/ Cancel \/ Deadline \/ (\E h \in Helpers : Forks(h)) \/ (\E p \in live : Exits(p))

\* The job's thread is scheduled; the processes need not end, and if neither
\* a shutdown nor the deadline comes the job may well wait for them.
Fairness == WF_vars(Caught) /\ WF_vars(ParseFile)

Spec == Init /\ [][Next]_vars /\ Fairness
-----------------------------------------------------------------------------
Prepared == pc = "prepared"

\* Every variable has its type.
TypeOK ==
  /\ source \in {"native", "codegraph"}
  /\ \A i \in DOMAIN tree : tree[i].kind \in Kinds /\ tree[i].up \in 0..(i - 1)
  /\ pc \in {"parse", "start", "poll", "wait", "terminate", "grace", "kill", "reap",
             "read", "prepare", "prepared", "raised"}
  /\ command \in {"version", "index"} /\ cancel \in BOOLEAN /\ late \in BOOLEAN
  /\ pipes \subseteq live /\ live \subseteq started /\ started \subseteq Processes
  /\ exit \in {"none", "ok", "failed"}
  /\ outcome \in {"none", "ok", "failed", "cancelled", "timeout", "missing", "wrong version"}
  /\ DOMAIN upstream \subseteq AllCalls(tree)
  /\ defect \in {"none", "invalid", "stale", "unparsable"}
  /\ graph.resolved \cup graph.rejected \subseteq AllCalls(tree)

\* No process of a command is left when the next one starts, when its database
\* is read, or when the job has failed: a helper that outlives its launcher could
\* go on writing the database (codegraph_import.py:143-158).
NoSurvivors == pc \in {"start", "read", "prepare", "prepared", "raised"} => live = {}

\* A shutdown ends the extraction although its processes may never end, and so
\* does the deadline of a command (codegraph_import.py:129-139).
CommandEnds ==
  /\ (cancel ~> ~Commanding)
  /\ (late ~> ~late \/ ~Commanding)

\* A call that Python binds to a definition or import of the module gets its
\* edge, and no call gets one that Python binds where parse_file looks: to a
\* parameter of a function, the first target of an assignment in it, or a
\* definition nested in it (parse_python.py:182-258).
NativeResolution ==
  source = "native" /\ Prepared =>
    \A i \in AllCalls(tree) :
      LET name == tree[i].name IN
      /\ Resolves(tree, i) = {0} /\ Walked(tree, i) /\ name \in module_defs(tree) \cup imported(tree)
           => i \in graph.resolved
      /\ i \in graph.resolved =>
           \A s \in Resolves(tree, i) \ {0} :
             tree[s].kind = "def" => \A j \in Of(tree, Binders) :
               tree[j].name = name /\ Inner(tree, j, Scopes) = s => tree[j].kind \in {"target", "import"}

BoundToParameter == {i \in AllCalls(tree) : \E s \in Resolves(tree, i) : Parameter(tree, s, tree[i].name)}

\* A class that binds the callee has the call in a class inside it, which no
\* function separates from the call: it ends the search, but not Python's.
BehindClass(i) ==
  \E s \in Around(tree, i, {"class"}) \ {Inner(tree, i, Scopes)} :
    Bound(tree, s, tree[i].name) /\ \A f \in Around(tree, i, Functions) : f < s

\* So does a scope, other than the one meant, whose table has the callee from a
\* comprehension beside the call.
BehindInlined(i) ==
  \E s \in Around(tree, i, Tabled) :
    /\ Merged(tree, s, tree[i].name) /\ ~Skipped(tree, i, s)
    /\ \A r \in Resolves(tree, i) : r < s

\* A call in an iterable before the target of the same comprehension that Python
\* binds it to is looked up outside of the comprehension, which has no table.
BeforeTarget(i) ==
  \E s \in Resolves(tree, i) \ {0} : tree[s].kind = "listcomp" /\ ~Masked(tree, i, s)

\* Line and name tell the scopes around a call from others in the same scope: a
\* generator expression has its line to itself, and the others of a line are
\* visited in the order in which symtable enters them.
Siblings(i) == {c \in Alike(tree, i) : Inner(tree, c, Tabled) = Inner(tree, i, Tabled)}

ToldApart(i) ==
  \A s \in Around(tree, i, Tabled) :
    IF tree[s].kind = "genexpr" THEN Siblings(s) = {s}
    ELSE \A c, d \in Siblings(s) : c < d => tree[c].place < tree[d].place

\* What the search may miss.
Hidden(i) == BehindClass(i) \/ BehindInlined(i)

\* Where scopes are told apart, the search finds every call that Python binds to a
\* parameter, of the function it stands in or of one around it, through lambdas,
\* classes and comprehensions, but for those hidden by a class or by a comprehension
\* beside them.  It finds no others, but for calls that come before the target they
\* are bound to (parse_python.py:274-369).
QuarantineIsExact ==
  ~Unmatched(tree) =>
    \A i \in {j \in AllCalls(tree) : ToldApart(j)} :
      /\ i \in BoundToParameter /\ ~Hidden(i) => i \in Shadowed(tree)
      /\ i \in Shadowed(tree) => BeforeTarget(i) \/ (i \in BoundToParameter /\ ~Hidden(i))

\* "Parameter calls incorrectly bound to imported functions are quarantined."
\* (docs/experiments/codegraph-import.md:56; "including captured closure
\* parameters", parse_python.py:265)
ParametersAreQuarantined == \A e \in graph.evidence : e.sites \cap BoundToParameter = {}

\* Each callsite that CodeGraph resolved is either in the quarantine or in the
\* evidence of exactly one relationship, between the symbols it found.  One that
\* Python binds to a parameter is no evidence unless it is hidden or in a scope
\* that its line does not tell apart, also when the file cannot be analysed
\* (codegraph_import.py:82-84, 112-118, 200-208).
EvidenceIsAccounted ==
  source = "codegraph" /\ Prepared =>
    \A i \in {j \in DOMAIN upstream : upstream[j] # Unresolved} :
      LET of == {e \in graph.evidence : i \in e.sites} IN
      IF i \in graph.rejected THEN of = {}
      ELSE /\ \E e \in of : of = {e} /\ e.source = graph.identity[Caller(i)]
                                    /\ e.target = graph.identity[upstream[i]]
           /\ i \in BoundToParameter => Hidden(i) \/ ~ToldApart(i)

\* Definitions of the same name keep identities of their own, and the name
\* itself is the one that Python ends up with, the last (codegraph_import.py:100-106).
IdentitiesAreUnique ==
  source = "codegraph" /\ Prepared =>
    \A i, j \in Ids :
      /\ graph.identity[i] = graph.identity[j] => i = j
      /\ i < j /\ Path(i) = Path(j) => graph.identity[i] # <<"name", Path(i)>>

\* "a locally-bound callee shadows any module-level def of the same name and
\* must never resolve to a CALLS edge" (parse_python.py:184-185).  Targets of for,
\* with and walrus, the second of a = b = ..., and imports inside a function bind
\* locally too.
LocalNeverResolves ==
  \A i \in graph.resolved : \A s \in Resolves(tree, i) : s # 0 => tree[s].kind # "def"
=============================================================================
