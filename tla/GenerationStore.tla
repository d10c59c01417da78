-------------------------- MODULE GenerationStore --------------------------
(***************************************************************************)
(* The tables of one project's store and the three closures that write to  *)
(* them on the database worker, one SQL statement per step:                *)
(*                                                                         *)
(*   - an index job's load (native: index_repository; CodeGraph:           *)
(*     write_snapshot and the Git tables), which stages rows under a fresh *)
(*     generation identity,                                                *)
(*   - publish_generation, at the end of the same closure: checkpoint,     *)
(*     insert a pointer row, checkpoint, delete every older generation,    *)
(*   - the wipe of op_delete_project.                                      *)
(*                                                                         *)
(* Any statement may raise, which ends the closure, and the process may be *)
(* killed between two statements.  The worker is one thread, so readers    *)
(* see the store only when no closure runs or after one died half way.     *)
(*                                                                         *)
(* Rows are abstracted to how many INSERT statements of a table's load     *)
(* have been executed for an identity; the codegraph_snapshot row of meta  *)
(* is treated as a table of its own.                                       *)
(***************************************************************************)
EXTENDS Naturals, Sequences

CONSTANTS
  Native,          \* identities project@uuid that native index jobs mint
  Codegraph,       \* identities project@uuid that CodeGraph index jobs mint
  Logical,         \* the project itself, under which older builds stored rows
  NoId,            \* no identity
  Batches,         \* source -> table -> INSERT statements of a complete load
  LegacyRows,      \* what an older build may have left under Logical
  Durable,         \* CHGRAPH_DURABLE_URI is set
  MaxFailures,     \* bound: statements that raise
  MaxCrashes       \* bound: kills of the process

Gen     == Native \cup Codegraph
Ids     == Gen \cup {Logical}
Sources == {"native", "codegraph"}
Tables  == {"nodes", "edges", "embeddings", "git_commits",
            "git_file_changes", "file_evolution", "codegraph_snapshot"}

ASSUME IdentityAssumption ==
  /\ Native \cap Codegraph = {}
  /\ Logical \notin Gen
  /\ NoId \notin Ids
\* A native load writes no snapshot row, a CodeGraph load no embeddings.
ASSUME BatchesAssumption ==
  /\ Batches \in [Sources -> [Tables -> Nat]]
  /\ Batches["native"]["codegraph_snapshot"] = 0
  /\ Batches["codegraph"]["embeddings"] = 0
ASSUME LegacyAssumption  == LegacyRows \subseteq [Tables -> Nat] /\ LegacyRows # {}
ASSUME ModeAssumption    == Durable \in BOOLEAN
ASSUME BoundAssumption   == MaxFailures \in Nat /\ MaxCrashes \in Nat

VARIABLES
  mem,       \* the tables as the open session sees them
  disk,      \* the tables as a reopened session would find them
  phase,     \* where the closure on the worker is
  at,        \* next table of a prune or a wipe
  gen,       \* generation of the running load
  previous,  \* predecessor read by publish_generation
  used,      \* identities minted so far
  reported,  \* the last success an index job reported: identity and version
  failures, crashes

vars == <<mem, disk, phase, at, gen, previous, used, reported, failures, crashes>>

Source(g) == IF g \in Native THEN "native" ELSE "codegraph"
Total(g)  == Batches[Source(g)]
NoRows    == [t \in Tables |-> 0]

PointerRows == [version : Nat, project : Gen, previous : Ids]
Contents ==
  [rows     : [Ids -> [Tables -> Nat]],
   pointers : SUBSET PointerRows, \* rows of meta with key 'active_project'
   torn     : BOOLEAN]            \* history: a wipe has truncated, and neither
                                  \* ended nor been followed by a publication

Phases == {"idle", "load", "pointer", "seal", "prune", "wipe"}

-----------------------------------------------------------------------------
(* Reading meta.                                                           *)

\* SELECT ... FINAL: of the rows with one key, the one with the top version.
Top(c) == CHOOSE p \in c.pointers : \A q \in c.pointers : q.version <= p.version

\* active_project for the daemon's own project.
Active(c) == IF c.pointers = {} THEN Logical ELSE Top(c).project

\* Mutant of NextVersion: every pointer row gets version 1, like other meta rows.
FixedVersion(c) == 1

\* coalesce(max(version), 0) + 1 over every row with the key.
NextVersion(c) == IF c.pointers = {} THEN 1 ELSE Top(c).version + 1

Whole(c, g) == \A t \in Tables : c.rows[g][t] = Total(g)[t]

-----------------------------------------------------------------------------
(* Effects of the statements on the tables.                                *)

Inserted(c, g, t) == [c EXCEPT !.rows[g][t] = @ + 1]

PointerInserted(c, g, prev) ==
  [c EXCEPT !.pointers = @ \cup {[version  |-> NextVersion(c),
                                  project  |-> g,
                                  previous |-> prev]},
            !.torn = FALSE]

\* Mutant of Pruned: the predecessor is deleted with the rest.
PrunedToActive(c, t, keep) ==
  [c EXCEPT !.rows = [i \in Ids |-> IF i = Active(c) THEN c.rows[i]
                                    ELSE [c.rows[i] EXCEPT ![t] = 0]]]

\* delete_rows(table, every identity of the project but the two kept).
Pruned(c, t, keep) ==
  [c EXCEPT !.rows = [i \in Ids |-> IF i \in keep THEN c.rows[i]
                                    ELSE [c.rows[i] EXCEPT ![t] = 0]]]

Truncated(c, t) ==
  [c EXCEPT !.rows = [i \in Ids |-> [c.rows[i] EXCEPT ![t] = 0]],
            !.torn = TRUE]

\* delete_rows(meta, key != 'schema_version').
MetaWiped(c) ==
  [c EXCEPT !.rows = [i \in Ids |-> [c.rows[i] EXCEPT !["codegraph_snapshot"] = 0]],
            !.pointers = {},
            !.torn = FALSE]

\* Mutant of Returns: the durable log is not flushed.
ReturnsUnflushed(c) == mem' = c /\ disk' \in {disk, c}

\* Store.exec that returns: in durable mode it has also flushed.
Returns(c) == mem' = c /\ disk' = c

\* Store.exec or checkpoint that raises.  Its effect may be absent, or be
\* there all the same: the durable flush fails after the statement has run, a
\* deletion outlives the deadline it is waited for with.  Only the durable log
\* can then lag behind the session.
Raises(c) ==
  /\ failures < MaxFailures
  /\ failures' = failures + 1
  /\ \/ UNCHANGED <<mem, disk>>
     \/ mem' = c /\ disk' \in (IF Durable THEN {disk, c} ELSE {c})

-----------------------------------------------------------------------------
(* The closures.                                                           *)

LoadOrder(source) ==
  IF source = "native"
  THEN <<"nodes", "edges", "embeddings",
         "git_commits", "git_file_changes", "file_evolution">>
  ELSE <<"nodes", "edges", "codegraph_snapshot",
         "git_commits", "git_file_changes", "file_evolution">>

\* Mutant of PruneOrder: the snapshot rows of meta are forgotten.
TablesOnly == <<"nodes", "edges", "embeddings", "git_commits",
                "git_file_changes", "file_evolution">>

\* generations.TABLES, then the snapshot rows of meta.
PruneOrder == <<"nodes", "edges", "embeddings", "git_commits",
                "git_file_changes", "file_evolution", "codegraph_snapshot">>

\* The wipe truncates in this order, then deletes from meta.
WipeOrder == <<"nodes", "edges", "git_commits", "git_file_changes",
               "file_evolution", "embeddings">>

NoReport == [gen |-> NoId, version |-> 0]

Init ==
  /\ \E legacy \in LegacyRows :
       mem = [rows     |-> [i \in Ids |-> IF i = Logical THEN legacy ELSE NoRows],
              pointers |-> {},
              torn     |-> FALSE]
  /\ disk = mem
  /\ phase = "idle" /\ at = 1
  /\ gen = NoId /\ previous = NoId
  /\ used = {}
  /\ reported = NoReport
  /\ failures = 0 /\ crashes = 0

\* The closure is over, by its return or by an exception.
Ends == phase' = "idle" /\ at' = 1 /\ gen' = NoId /\ previous' = NoId

\* A statement raises and the exception leaves the closure.
Aborts(c) ==
  /\ Raises(c)
  /\ Ends
  /\ UNCHANGED <<used, reported, crashes>>

\* The job's closure comes to the head of the worker's queue.  The identity is
\* a new uuid, so the deletions that begin a native load find no row, and the
\* check that a snapshot's destination is empty passes.
BeginLoad(g) ==
  /\ phase = "idle"
  /\ g \notin used
  /\ mem.rows[g] = NoRows
  /\ phase' = "load" /\ gen' = g
  /\ used' = used \cup {g}
  /\ UNCHANGED <<mem, disk, at, previous, reported, failures, crashes>>

\* Mutant of Loading: a batch too many.
LoadingOneMore(t) ==
  LET order == LoadOrder(Source(gen))
  IN \E n \in DOMAIN order :
       /\ t = order[n]
       /\ mem.rows[gen][t] <= Total(gen)[t]
       /\ \A m \in 1..(n - 1) : mem.rows[gen][order[m]] >= Total(gen)[order[m]]

\* Table t is where the load has got to: those before it are complete.
Loading(t) ==
  LET order == LoadOrder(Source(gen))
  IN \E n \in DOMAIN order :
       /\ t = order[n]
       /\ mem.rows[gen][t] < Total(gen)[t]
       /\ \A m \in 1..(n - 1) : mem.rows[gen][order[m]] = Total(gen)[order[m]]

\* Mutant of Loaded: only the tables whose counts are compared are waited for.
LoadedGraphOnly ==
  \A t \in {"nodes", "edges"} : mem.rows[gen][t] = Total(gen)[t]

Loaded ==
  LET order == LoadOrder(Source(gen))
  IN \A n \in DOMAIN order : mem.rows[gen][order[n]] = Total(gen)[order[n]]

\* One INSERT of _batch_load, or the INSERT ... SELECT of file_evolution.
InsertBatch(t) ==
  /\ phase = "load"
  /\ Loading(t)
  /\ \/ /\ Returns(Inserted(mem, gen, t))
        /\ UNCHANGED <<phase, at, gen, previous, used, reported, failures, crashes>>
     \/ Aborts(Inserted(mem, gen, t))

\* publish_generation reads its predecessor and persists every table.
Checkpoint ==
  /\ phase = "load"
  /\ Loaded
  /\ \/ /\ Returns(mem)
        /\ previous' = Active(mem)
        /\ phase' = "pointer"
        /\ UNCHANGED <<at, gen, used, reported, failures, crashes>>
     \/ Aborts(mem)

\* The pointer row: the published generation changes here and nowhere else.
InsertPointer ==
  /\ phase = "pointer"
  /\ \/ /\ Returns(PointerInserted(mem, gen, previous))
        /\ phase' = "seal"
        /\ UNCHANGED <<at, gen, previous, used, reported, failures, crashes>>
     \/ Aborts(PointerInserted(mem, gen, previous))

\* The pointer is checkpointed, which local storage need not do, before
\* anything older is deleted.
Seal ==
  /\ phase = "seal"
  /\ \/ /\ Returns(mem)
        /\ phase' = "prune"
        /\ UNCHANGED <<at, gen, previous, used, reported, failures, crashes>>
     \/ Durable /\ Aborts(mem)

\* The closure returns and the job reports the generation as indexed, or as
\* degraded when the clean-up raised.
Reports ==
  /\ reported' = [gen |-> gen, version |-> Top(mem).version]
  /\ Ends
  /\ UNCHANGED <<used, crashes>>

Prune ==
  /\ phase = "prune"
  /\ LET pruned == Pruned(mem, PruneOrder[at], {gen, previous})
     IN \/ /\ Returns(pruned)
           /\ at < Len(PruneOrder)
           /\ at' = at + 1
           /\ UNCHANGED <<phase, gen, previous, used, reported, failures, crashes>>
        \/ /\ Returns(pruned)
           /\ at = Len(PruneOrder)
           /\ Reports
           /\ UNCHANGED failures
        \/ Raises(pruned) /\ Reports

BeginWipe ==
  /\ phase = "idle"
  /\ phase' = "wipe"
  /\ UNCHANGED <<mem, disk, at, gen, previous, used, reported, failures, crashes>>

Truncate ==
  /\ phase = "wipe"
  /\ at <= Len(WipeOrder)
  /\ \/ /\ Returns(Truncated(mem, WipeOrder[at]))
        /\ at' = at + 1
        /\ UNCHANGED <<phase, gen, previous, used, reported, failures, crashes>>
     \/ Aborts(Truncated(mem, WipeOrder[at]))

WipeMeta ==
  /\ phase = "wipe"
  /\ at > Len(WipeOrder)
  /\ \/ Returns(MetaWiped(mem)) /\ UNCHANGED failures
     \/ Raises(MetaWiped(mem))
  /\ reported' = IF mem'.pointers = {} THEN NoReport ELSE reported
  /\ Ends
  /\ UNCHANGED <<used, crashes>>

\* The process is killed, and a new daemon opens the store.
Crash ==
  /\ crashes < MaxCrashes
  /\ crashes' = crashes + 1
  /\ mem' = disk
  /\ Ends
  /\ UNCHANGED <<disk, used, reported, failures>>

\* ReplacingMergeTree merges parts when it likes: rows below the top version go.
MergeMeta ==
  /\ \E p, q \in mem.pointers :
       /\ p.version < q.version
       /\ mem' = [mem EXCEPT !.pointers = @ \ {p}]
  /\ disk' = IF Durable THEN disk ELSE mem'
  /\ UNCHANGED <<phase, at, gen, previous, used, reported, failures, crashes>>

Next ==
  \/ \E g \in Gen : BeginLoad(g)
  \/ \E t \in Tables : InsertBatch(t)
  \/ Checkpoint \/ InsertPointer \/ Seal \/ Prune
  \/ BeginWipe \/ Truncate \/ WipeMeta
  \/ Crash \/ MergeMeta

Spec == Init /\ [][Next]_vars

-----------------------------------------------------------------------------
\* No INSERT of a load is executed twice.
NotOverfull(c) == \A g \in Gen, t \in Tables : c.rows[g][t] <= Total(g)[t]

\* Every variable has its type, and no identity more rows than its load wrote.
TypeOK ==
  /\ mem \in Contents /\ NotOverfull(mem)
  /\ disk \in Contents /\ NotOverfull(disk)
  /\ phase \in Phases
  /\ at \in 1..Len(PruneOrder)
  /\ gen \in Gen \cup {NoId}
  /\ previous \in Ids \cup {NoId}
  /\ used \subseteq Gen
  /\ reported \in [gen : Gen \cup {NoId}, version : Nat]
  /\ failures \in 0..MaxFailures
  /\ crashes \in 0..MaxCrashes

\* Whatever statement raised and wherever the process died, the generation the
\* pointer names holds every row of its load, in the session and in what a
\* restart would find, unless an unfinished wipe has cut into it
\* (generations.py:25 "Persist every table before publishing").
ServedIsWhole(c) == c.pointers # {} => c.torn \/ Whole(c, Active(c))
PublishedIsWhole == ServedIsWhole(mem) /\ ServedIsWhole(disk)

(* The strengthening of PublishedIsWhole that every step preserves.        *)

\* Pointer rows have distinct versions, and one of them is the top one.
PointersAreSound(c) ==
  /\ \A p, q \in c.pointers : p.version = q.version => p = q
  /\ c.pointers # {} => \E p \in c.pointers : \A q \in c.pointers : q.version <= p.version

\* Every pointer names a generation some job minted.
PointersAreMinted == \A c \in {mem, disk} : \A p \in c.pointers : p.project \in used

\* A generation being loaded is not one any pointer names.
Unpublished(g) == \A c \in {mem, disk} : \A p \in c.pointers : p.project # g

\* What the closure on the worker relies on at each of its points.
PhaseInv ==
  /\ phase \in {"load", "pointer"} => gen \in used /\ Unpublished(gen)
  /\ phase = "pointer" => Whole(mem, gen) /\ previous \in Ids
  /\ phase \in {"seal", "prune"} =>
       /\ mem.pointers # {}
       /\ Active(mem) = gen
       /\ Top(mem).previous = previous
       /\ Whole(mem, gen)

\* The inductive invariant: see the proofs in GenerationStoreProofs.
IndInv ==
  /\ PointersAreSound(mem) /\ PointersAreSound(disk)
  /\ PointersAreMinted
  /\ PublishedIsWhole
  /\ PhaseInv

\* From the insertion of its pointer until the job's closure ends, queries
\* resolve to the job's generation, with the predecessor it read retained:
\* the new row wins over rows merged or not (generations.py:26-33).
PublishTakesEffect ==
  phase \in {"seal", "prune"} =>
    /\ Active(mem) = gen
    /\ Top(mem).previous = previous

\* A publication the job reported is never rolled back: a restart finds that
\* generation or a later one (README "checkpoints before reporting success").
ReportedSurvives ==
  reported # NoReport =>
    /\ disk.pointers # {}
    /\ Top(disk).version >= reported.version
    /\ Top(disk).version = reported.version => Top(disk).project = reported.gen

\* The active generation and the predecessor kept with it.
Retained(c) == IF c.pointers = {} THEN {Logical}
               ELSE {Top(c).project, Top(c).previous}

\* Only a wipe takes a row from the generation that is active after the step,
\* or from the predecessor retained with it; neither a clean-up, a failed
\* statement nor a restart does (generations.py:36-44).
RetainedLosesNothing ==
  [][phase # "wipe" =>
       \A i \in Retained(mem'), t \in Tables :
         mem'.rows[i][t] >= mem.rows[i][t]]_vars

\* When a publication ends with no statement of it having raised, nothing of
\* older or failed generations is left in any table (ADR 0006 "prune older
\* owned data"; "Failed staging data ... is eligible for later cleanup").
CleanupIsComplete ==
  [][(phase = "prune" /\ phase' = "idle" /\ failures' = failures /\ crashes' = crashes) =>
       \A i \in Ids \ {gen, previous} : mem'.rows[i] = NoRows]_vars

\* The predecessor retained by a publication is complete (generations.py:35
\* "Keep one healthy predecessor").
PredecessorIsHealthy ==
  phase = "prune" /\ previous \in Gen => Whole(mem, previous)

\* A publication that fails leaves readers on the old graph
\* (tests/chdb/test_generations.py:24 "failed_publication_preserves_old_graph").
FailedPublicationPreservesOldGraph ==
  [][(phase \in {"pointer", "seal"} /\ phase' = "idle" /\ failures' > failures) =>
       Active(mem') = previous]_vars

-----------------------------------------------------------------------------
(* GenerationStore implements PublishedGraph.                              *)

ViewOf(c, i) ==
  IF i \in Gen THEN [id |-> i, state |-> IF Whole(c, i) THEN "whole" ELSE "torn"]
               ELSE [id |-> i, state |-> "unversioned"]

PublishedIn(c) ==
  [active |-> ViewOf(c, Active(c)),
   prior  |-> ViewOf(c, IF c.pointers = {} THEN NoId ELSE Top(c).previous)]

Graph == INSTANCE PublishedGraph WITH
  Generations <- Gen,
  live        <- PublishedIn(mem),
  kept        <- PublishedIn(disk),
  candidate   <- IF phase \in {"load", "pointer"} THEN gen ELSE NoId,
  built       <- used,
  deleting    <- phase = "wipe"

\* Every behaviour of the store is one PublishedGraph allows: readers see
\* whole generations switched in one step, whatever fails or dies.
ImplementsPublishedGraph == Graph!Spec
=============================================================================
