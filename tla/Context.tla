------------------------------ MODULE Context ------------------------------
(***************************************************************************)
(* The requests that answer with evidence and source text: explore and     *)
(* impact of context.py, op_snippet of daemon.py.  The graph describes the *)
(* sources as they were indexed; a developer edits, deletes and restores   *)
(* files between any two reads of a request.  What a request read last,    *)
(* when, and compared with what, decides what it may serve.                *)
(*                                                                         *)
(* explore and impact run in one closure of the worker, so the graph does  *)
(* not change under them.  op_snippet reads the file after its closure has *)
(* ended, when an index job may have published another graph.              *)
(***************************************************************************)
EXTENDS Naturals, Sequences, FiniteSets, SequencesExt

CONSTANTS
  Files,      \* paths of the indexed sources
  Names,      \* ends of CALLS edges: symbols, and modules that call at top level
  FileOf,     \* symbol -> path of its node row; its domain are the symbols
  Calls,      \* CALLS edges <<source, target>>
  SpanTables, \* possible symbol -> <<first line, last line>>
  Length,     \* lines of a source, as the parser counts them
  FormFeeds,  \* sources whose first line holds a form feed
  PageSize,   \* entry points of explore, 5 in the code
  Depth,      \* depth of the walk
  Versions,   \* contents a source can have
  Gone,       \* no readable file
  NoHash      \* the node rows of the file have no content hash

Symbols == DOMAIN FileOf

ASSUME GraphAssumption ==
  /\ FileOf \in [Symbols -> Files] /\ Symbols \subseteq Names /\ IsFiniteSet(Names)
  /\ Calls \subseteq Names \X Names
  /\ SpanTables \subseteq [Symbols -> Nat \X Nat]
ASSUME BoundsAssumption ==
  Length \in Nat /\ PageSize \in Nat /\ Depth \in Nat \ {0} /\ FormFeeds \subseteq Files
ASSUME ContentAssumption == Gone \notin Versions /\ NoHash \notin Versions \cup {Gone}

VARIABLES
  disk,       \* path -> content
  hash,       \* path -> content that the published graph was made from
  manifest,   \* files the graph lists, {} when the list is missing or too long
  span,       \* symbol -> lines
  request,    \* "explore", "impact" or "snippet"
  symbol,     \* argument of impact and snippet
  pc,
  candidates, \* nodes that match the query of explore
  roots,      \* entry points taken from them
  walk,       \* what bounded_walk returned
  todo,       \* files of the manifest not yet compared
  warning,    \* what graph_freshness returned
  content,    \* path -> what was read of it
  unread,     \* nodes whose source has not been looked at
  valid,      \* nodes whose source is as indexed
  expected,   \* the hash in the row of a snippet
  answer,     \* what is sent
  unseen      \* history: files never as indexed since the request began

graph   == <<hash, manifest, span>>
asked   == <<request, symbol>>
found   == <<candidates, roots, walk>>
checked == <<todo, warning>>
sources == <<content, unread, valid>>
vars == <<disk, graph, asked, pc, found, checked, sources, expected, answer, unseen>>

None == [reach |-> {}, edges |-> {}, cut |-> FALSE]
Nothing == [names |-> {}, edges |-> {}, lines |-> {}, truncated |-> FALSE]
Contents == Versions \cup {Gone}

Init ==
  /\ disk \in [Files -> Contents] /\ hash \in [Files -> Versions \cup {NoHash}]
  /\ manifest \in {{}, Files} /\ span \in SpanTables
  /\ request \in {"explore", "impact", "snippet"}
  /\ symbol \in IF request = "explore" THEN {CHOOSE n \in Names : TRUE} ELSE Names
  /\ pc = CASE request = "explore" -> "search" [] request = "impact" -> "freshness"
            [] OTHER -> "row"
  /\ candidates = {} /\ roots = {} /\ walk = None
  /\ todo = manifest /\ warning = "none"
  /\ content = <<>> /\ unread = {} /\ valid = {} /\ expected = NoHash
  /\ answer = Nothing /\ unseen = {f \in Files : disk[f] # hash[f]}

-----------------------------------------------------------------------------
(* The world outside the request.                                          *)

Working == pc \notin {"done", "raised"} /\ (pc = "read" => unread # {})

\* A developer writes, deletes or restores a file while there is one left to read.
Edit(f, c) ==
  /\ Working /\ c # disk[f]
  /\ disk' = [disk EXCEPT ![f] = c]
  /\ unseen' = IF c = hash[f] THEN unseen \ {f} ELSE unseen
  /\ UNCHANGED <<graph, asked, pc, found, checked, sources, expected, answer>>

\* An index job publishes what the files hold; the worker runs one closure at a
\* time, so only a snippet that has left it sees this.
Reindex ==
  /\ pc = "read_row" /\ \A f \in Files : disk[f] \in Versions
  /\ hash' = disk /\ unseen' = {}
  /\ UNCHANGED <<disk, manifest, span, asked, pc, found, checked, sources, expected, answer>>

-----------------------------------------------------------------------------
(* The graph: search_graph and bounded_walk.                               *)

\* ORDER BY score DESC ... LIMIT n: any n of them come first, all if there are fewer.
Pages(S) == {P \in SUBSET S : Cardinality(P) = IF Cardinality(S) < PageSize
                                               THEN Cardinality(S) ELSE PageSize}

HasMore == Cardinality(roots) < Cardinality(candidates)

\* explore goes both ways, impact from callee to caller.
Follows(a, b) == <<b, a>> \in Calls \/ (request = "explore" /\ <<a, b>> \in Calls)

Neighbours(S) == {b \in Names : \E a \in S : Follows(a, b)}

\* Nodes at most k calls away from S.
Within(S, k) ==
  LET reach[i \in Nat] == IF i = 0 THEN S ELSE reach[i - 1] \cup Neighbours(reach[i - 1])
  IN reach[k]

EdgesAt(S) == {e \in Calls : e[2] \in S \/ (request = "explore" /\ e[1] \in S)}

\* What BoundedWalk shows of bounded_walk from S: complete to its depth, or cut
\* and marked as such, with at most the edges between the nodes it kept.
Walks(S) ==
  {[reach |-> Within(S, Depth), edges |-> EdgesAt(Within(S, Depth - 1)), cut |-> FALSE]}
    \cup {[reach |-> S \cup R, edges |-> {e \in Calls : {e[1], e[2]} \subseteq S \cup R}, cut |-> TRUE] :
            R \in SUBSET Within(S, Depth)}

\* search_graph, bounded_walk and _nodes of explore.
Search ==
  /\ pc = "search"
  /\ candidates' \in SUBSET Symbols
  /\ roots' \in Pages(candidates')
  /\ walk' \in Walks(roots')
  /\ unread' = walk'.reach \cap Symbols
  /\ pc' = "freshness"
  /\ UNCHANGED <<disk, graph, asked, checked, content, valid, expected, answer, unseen>>

-----------------------------------------------------------------------------
(* graph_freshness.                                                        *)

\* impact refuses what is known to be stale; explore goes on without edges.
FreshnessIs(w) ==
  /\ warning' = w
  /\ pc' = CASE request = "explore" -> "read"
             [] request = "impact" /\ w = "stale" -> "raised"
             [] OTHER -> "walk"

\* No File nodes, or more than 10000.
NoManifest ==
  /\ pc = "freshness" /\ manifest = {}
  /\ FreshnessIs("unverified")
  /\ UNCHANGED <<disk, graph, asked, found, todo, sources, expected, answer, unseen>>

\* Mutant of OutOfBudget: what was not compared counts as fresh.
BudgetIgnored ==
  /\ pc = "freshness" /\ todo # {}
  /\ FreshnessIs("none")
  /\ UNCHANGED <<disk, graph, asked, found, todo, sources, expected, answer, unseen>>

\* 0.5 s have passed or 16 MiB are read, before the next file or in it.
OutOfBudget ==
  /\ pc = "freshness" /\ todo # {}
  /\ FreshnessIs("unverified")
  /\ UNCHANGED <<disk, graph, asked, found, todo, sources, expected, answer, unseen>>

\* The next file of the manifest: its hash is missing, it cannot be read, it
\* differs, or the loop goes on.
Compare(f) ==
  /\ pc = "freshness" /\ f \in todo
  /\ \/ (hash[f] = NoHash \/ disk[f] = Gone) /\ FreshnessIs("unverified") /\ UNCHANGED todo
     \/ hash[f] # NoHash /\ disk[f] \notin {Gone, hash[f]} /\ FreshnessIs("stale") /\ UNCHANGED todo
     \/ disk[f] = hash[f] /\ todo' = todo \ {f} /\ UNCHANGED <<warning, pc>>
  /\ UNCHANGED <<disk, graph, asked, found, sources, expected, answer, unseen>>

AllCompared ==
  /\ pc = "freshness" /\ manifest # {} /\ todo = {}
  /\ FreshnessIs("none")
  /\ UNCHANGED <<disk, graph, asked, found, todo, sources, expected, answer, unseen>>

-----------------------------------------------------------------------------
(* explore: source validation and composition.                             *)

\* Mutant of Vetted: as in op_snippet, a missing hash is no objection.
VettedIfHashed(f, c) == hash[f] = NoHash \/ c = hash[f]

Vetted(f, c) == hash[f] # NoHash /\ c = hash[f]

\* Each file is read once; all its nodes are judged by that content.
ReadNode(n) ==
  LET f == FileOf[n]
      c == IF f \in DOMAIN content THEN content[f] ELSE disk[f]
  IN
  /\ pc = "read" /\ n \in unread
  /\ unread' = unread \ {n}
  /\ content' = [g \in DOMAIN content \cup {f} |-> IF g = f THEN c ELSE content[g]]
  /\ valid' = IF c # Gone /\ Vetted(f, c) THEN valid \cup {n} ELSE valid
  /\ UNCHANGED <<disk, graph, asked, pc, found, checked, expected, answer, unseen>>

\* The order of tuples.
Earlier(r, s) == r[1] < s[1] \/ (r[1] = s[1] /\ r[2] < s[2])

\* sorted(ranges)
Sorted(ranges) ==
  CHOOSE s \in [1..Cardinality(ranges) -> ranges] :
    /\ \A r \in ranges : \E i \in DOMAIN s : s[i] = r
    /\ \A i, j \in DOMAIN s : i < j => Earlier(s[i], s[j])

\* Mutant of Join: a span inside its predecessor shortens it.
JoinNoMax(merged, r) ==
  LET n == Len(merged) IN
  IF n > 0 /\ r[1] <= merged[n][2] + 1
  THEN [merged EXCEPT ![n] = <<@[1], r[2]>>]
  ELSE Append(merged, r)

\* A span that overlaps or touches its predecessor extends it.
Join(merged, r) ==
  LET n == Len(merged) IN
  IF n > 0 /\ r[1] <= merged[n][2] + 1
  THEN [merged EXCEPT ![n] = <<@[1], IF @[2] > r[2] THEN @[2] ELSE r[2]>>]
  ELSE Append(merged, r)

Merged(ranges) ==
  LET s == Sorted(ranges)
      merge[i \in 0..Cardinality(ranges)] == IF i = 0 THEN <<>> ELSE Join(merge[i - 1], s[i])
  IN merge[Cardinality(ranges)]

Ranges(f) == {span[n] : n \in {m \in valid : FileOf[m] = f}}

\* str.splitlines also ends a line at a form feed: item -> line it is a part of.
SplitLines(f) ==
  [i \in 1..(IF f \in FormFeeds THEN Length + 1 ELSE Length) |->
     IF f \in FormFeeds /\ i > 1 THEN i - 1 ELSE i]

\* Items first to last of the source f with content c, under their numbers.
Text(f, c, first, last) ==
  {[file |-> f, content |-> c, number |-> i, line |-> SplitLines(f)[i]] :
     i \in {j \in DOMAIN SplitLines(f) : first <= j /\ j <= last}}

SourceLines ==
  UNION {UNION {Text(f, content[f], r[1], r[2]) : r \in ToSet(Merged(Ranges(f)))} :
           f \in {FileOf[n] : n \in valid}}

\* Mutant of Evidence: the ends need not have been validated.
EvidenceOfWalk == IF warning # "none" THEN {} ELSE walk.edges

\* CALLS evidence is left out altogether when a dependency is in doubt.
Evidence == IF warning # "none" THEN {} ELSE {e \in walk.edges : {e[1], e[2]} \subseteq valid}

\* Mutant of Partial: nodes that were dropped do not count.
PartialWalk == warning # "none" \/ walk.cut \/ HasMore

Partial == warning # "none" \/ walk.cut \/ HasMore \/ Cardinality(valid) < Cardinality(walk.reach)

\* The pieces offered to add(), in the answer.  With a short answer max_chars left
\* no room for some of them, and only a part of these sets is sent.
Compose ==
  /\ pc = "read" /\ unread = {}
  /\ \E short \in BOOLEAN :
       answer' = [names |-> roots \cap valid, edges |-> Evidence, lines |-> SourceLines,
                  truncated |-> Partial \/ short]
  /\ pc' = "done"
  /\ UNCHANGED <<disk, graph, asked, found, checked, sources, expected, unseen>>

-----------------------------------------------------------------------------
(* impact and op_snippet.                                                  *)

\* Mutant of Affected: names without a row are not left out.
AffectedAll ==
  /\ pc = "walk"
  /\ walk' \in Walks({symbol})
  /\ answer' = [Nothing EXCEPT !.names = walk'.reach, !.truncated = walk'.cut]
  /\ pc' = "done"
  /\ UNCHANGED <<disk, graph, asked, candidates, roots, checked, sources, expected, unseen>>

\* bounded_walk over callers and _nodes; a name without a row is left out.
Affected ==
  /\ pc = "walk"
  /\ walk' \in Walks({symbol})
  /\ IF symbol \in Symbols
     THEN /\ answer' = [Nothing EXCEPT !.names = walk'.reach \cap Symbols, !.truncated = walk'.cut]
          /\ pc' = "done"
     ELSE pc' = "raised" /\ UNCHANGED answer
  /\ UNCHANGED <<disk, graph, asked, candidates, roots, checked, sources, expected, unseen>>

\* The closure of op_snippet.
SnippetRow ==
  /\ pc = "row"
  /\ IF symbol \in Symbols
     THEN expected' = hash[FileOf[symbol]] /\ pc' = "read_row"
     ELSE pc' = "raised" /\ UNCHANGED expected
  /\ UNCHANGED <<disk, graph, asked, found, checked, sources, answer, unseen>>

\* Mutant of Admits: the file is compared with the graph of now.
AdmitsCurrent(f) == disk[f] # Gone /\ (hash[f] = NoHash \/ disk[f] = hash[f])

\* A row without a hash is served unchecked.
Admits(f) == disk[f] # Gone /\ (expected = NoHash \/ disk[f] = expected)

\* The rest of op_snippet, in its executor thread.
SnippetReads ==
  LET f == FileOf[symbol] IN
  /\ pc = "read_row"
  /\ IF Admits(f)
     THEN /\ answer' = [Nothing EXCEPT !.names = {symbol},
                          !.lines = Text(f, disk[f], span[symbol][1], span[symbol][2])]
          /\ pc' = "done"
     ELSE pc' = "raised" /\ UNCHANGED answer
  /\ UNCHANGED <<disk, graph, asked, found, checked, sources, expected, unseen>>

Next ==
  \/ \E f \in Files, c \in Contents : Edit(f, c)
  \/ Reindex
  \/ Search \/ NoManifest \/ OutOfBudget \/ (\E f \in todo : Compare(f)) \/ AllCompared
  \/ (\E n \in unread : ReadNode(n)) \/ Compose
  \/ Affected \/ SnippetRow \/ SnippetReads

Spec == Init /\ [][Next]_vars
-----------------------------------------------------------------------------
Lines == [file : Files, content : Versions, number : Nat, line : Nat]

\* Every variable has its type.
TypeOK ==
  /\ disk \in [Files -> Contents] /\ hash \in [Files -> Versions \cup {NoHash}]
  /\ manifest \in {{}, Files} /\ span \in SpanTables
  /\ request \in {"explore", "impact", "snippet"} /\ (request # "explore" => symbol \in Names)
  /\ pc \in {"search", "freshness", "read", "walk", "row", "read_row", "done", "raised"}
  /\ roots \subseteq candidates /\ candidates \subseteq Symbols
  /\ walk.reach \subseteq Names /\ walk.edges \subseteq Calls /\ walk.cut \in BOOLEAN
  /\ todo \subseteq manifest /\ warning \in {"none", "stale", "unverified"}
  /\ DOMAIN content \subseteq Files /\ content \in [DOMAIN content -> Contents]
  /\ unread \subseteq Symbols /\ valid \subseteq Symbols
  /\ expected \in Versions \cup {NoHash}
  /\ answer.names \subseteq Symbols /\ answer.edges \subseteq Calls
  /\ answer.lines \subseteq Lines /\ answer.truncated \in BOOLEAN
  /\ unseen \subseteq Files

\* Source text comes from the content that the graph, or the row of a snippet,
\* was made from, whatever happened to the file since; explore serves nothing
\* of a file without a hash (context.py:111, daemon.py:228).
SourceIsIndexed ==
  \A t \in answer.lines :
    IF request = "snippet" THEN expected \in {NoHash, t.content} ELSE t.content = hash[t.file]

\* CALLS evidence without a warning: each file of the graph has been as indexed
\* at some moment of the request, also those no node of the answer is in
\* (context.py:14-38, 142, 173).
EvidenceIsFresh ==
  pc = "done" /\ warning = "none" /\ (answer.edges # {} \/ request = "impact")
    => unseen = {}

\* An edge of explore connects two symbols whose own sources were validated,
\* and the answer has no edge at all once a dependency is in doubt.
EvidenceHasSources ==
  \A e \in answer.edges : \A n \in {e[1], e[2]} :
    /\ warning = "none" /\ n \in Symbols
    /\ FileOf[n] \in DOMAIN content /\ content[FileOf[n]] = hash[FileOf[n]]

NodeLines(n) == {k \in 1..Length : span[n][1] <= k /\ k <= span[n][2]}

\* An answer that is not marked truncated is complete: explore has each match as
\* an entry point, each edge of the walk and each source line of each node;
\* impact has each symbol that reaches its argument within the depth.
HonestAnswer ==
  pc = "done" /\ ~answer.truncated =>
    CASE request = "explore" ->
           /\ answer.names = candidates
           /\ answer.edges = EdgesAt(Within(candidates, Depth - 1))
           /\ \A n \in Within(candidates, Depth) :
                n \in Symbols /\ \A k \in NodeLines(n) :
                  \E t \in answer.lines : t.file = FileOf[n] /\ t.line = k
      [] request = "impact" -> answer.names = Within({symbol}, Depth) \cap Symbols
      [] OTHER -> TRUE

\* The merged spans of a file cover the lines of its nodes, each line once, with
\* a gap between any two spans (context.py:147-152).
SpansCoverOnce ==
  pc = "read" /\ unread = {} =>
    \A f \in Files :
      LET merged == Merged(Ranges(f)) IN
      /\ UNION {r[1]..r[2] : r \in ToSet(merged)} = UNION {r[1]..r[2] : r \in Ranges(f)}
      /\ \A i \in 1..(Len(merged) - 1) : merged[i][2] + 1 < merged[i + 1][1]

\* ADR 0007: "Results can be incomplete, with explicit truncation/freshness
\* information."  impact drops the modules that call at top level, which have no
\* node row, without either (context.py:180).
ImpactSaysIncomplete ==
  pc = "done" /\ request = "impact" /\ ~answer.truncated /\ warning = "none"
    => answer.names = Within({symbol}, Depth)

\* "fresh line-numbered source": a line stands under its number.
LinesAreNumbered == \A t \in answer.lines : t.number = t.line
=============================================================================
