---------------------------- MODULE BoundedWalk ----------------------------
(***************************************************************************)
(* bounded_walk of context.py: the breadth-first walk over CALLS edges     *)
(* that explore and impact build their answers from.  Each round queries   *)
(* the edges at the frontier, in order and up to a limit, and takes them   *)
(* one by one.  Depth, nodes and edges are limited at the same time, and   *)
(* the answer says whether a limit left something out.                     *)
(*                                                                         *)
(* Qualified names are numbers: all the code uses of them is their order.  *)
(***************************************************************************)
EXTENDS Naturals, Sequences, FiniteSets

CONSTANTS
  Names,      \* qualified names
  Graphs,     \* sets of CALLS edges <<source, target>>
  RootLists,  \* lists of entry points
  Depths,     \* values of the depth parameter
  Limits,     \* values of the max_nodes parameter
  MaxDepth,   \* MAX_DEPTH, 10 in the code
  MaxNodes    \* 200 in the code

ASSUME NamesAssumption  == Names \subseteq Nat /\ IsFiniteSet(Names)
ASSUME GraphsAssumption == Graphs \subseteq SUBSET (Names \X Names)
ASSUME RootsAssumption  == RootLists \subseteq Seq(Names)
ASSUME LimitsAssumption ==
  /\ Depths \subseteq Nat /\ Limits \subseteq Nat
  /\ MaxDepth \in Nat \ {0} /\ MaxNodes \in Nat \ {0}

VARIABLES
  calls, roots, direction, depth, limit, \* arguments, the last two clamped
  pc,         \* "query", "rows" or "done"
  round,      \* rounds begun
  rows,       \* edges fetched in this round and not yet taken
  frontier,   \* nodes first reached in the previous round
  following,  \* nodes first reached in this round
  paths,      \* node -> the path it was first reached by
  edges,      \* edges of the answer
  truncated

arguments == <<calls, roots, direction, depth, limit>>
vars == <<arguments, pc, round, rows, frontier, following, paths, edges, truncated>>

Directions == {"both", "callers", "callees"}

\* Mutant of Clamp: the lower bound is forgotten.
ClampTop(x, top) == IF x > top THEN top ELSE x

Clamp(x, top) == IF x < 1 THEN 1 ELSE IF x > top THEN top ELSE x

\* roots[:max_nodes]
Entries == {roots[i] : i \in {j \in DOMAIN roots : j <= limit}}

Init ==
  /\ calls \in Graphs /\ roots \in RootLists /\ direction \in Directions
  /\ \E d \in Depths : depth = Clamp(d, MaxDepth)
  /\ \E n \in Limits : limit = Clamp(n, MaxNodes)
  /\ pc = "query" /\ round = 0
  /\ rows = {} /\ following = {} /\ edges = {}
  /\ paths = [n \in Entries |-> <<n>>]
  /\ frontier = Entries
  /\ truncated = (Len(roots) > limit)

-----------------------------------------------------------------------------
\* Mutant of EdgesAt: callers are followed when callees are asked for.
EdgesEitherWay(S) == {e \in calls : e[1] \in S \/ e[2] \in S}

\* WHERE source IN (...) OR target IN (...), as the direction asks.
EdgesAt(S) ==
  {e \in calls : \/ direction \in {"both", "callees"} /\ e[1] \in S
                 \/ direction \in {"both", "callers"} /\ e[2] \in S}

\* ORDER BY source, target
Precedes(e, f) == e[1] < f[1] \/ (e[1] = f[1] /\ e[2] < f[2])

\* LIMIT n
First(n, E) == {e \in E : Cardinality({f \in E : Precedes(f, e)}) < n}

Remaining == 2 * limit - Cardinality(edges)

\* Mutant of Query: LIMIT remaining, by which an overflow goes unseen.
QueryNoMore ==
  /\ pc = "query" /\ round < depth /\ frontier # {}
  /\ rows' = First(Remaining, EdgesAt(frontier))
  /\ pc' = "rows" /\ round' = round + 1
  /\ UNCHANGED <<arguments, frontier, following, paths, edges, truncated>>

\* One more row than may be taken is asked for, to see that there is one.
Query ==
  /\ pc = "query" /\ round < depth /\ frontier # {}
  /\ rows' = First(Remaining, EdgesAt(frontier))
  /\ truncated' = (truncated \/ rows' # EdgesAt(frontier))
  /\ pc' = "rows" /\ round' = round + 1
  /\ UNCHANGED <<arguments, frontier, following, paths, edges>>

Parent(e) == IF e[1] \in frontier THEN e[1] ELSE e[2]
Child(e)  == IF e[1] \in frontier THEN e[2] ELSE e[1]

Reached == DOMAIN paths

\* Mutant of Full: one node too many.
FullLate == Cardinality(Reached) > limit

Full == Cardinality(Reached) >= limit

\* Mutant of Drop: the edge is kept although its end is not.
DropNodeOnly(e) ==
  /\ truncated' = TRUE
  /\ edges' = edges \cup {e}
  /\ UNCHANGED <<paths, following>>

\* No room for the edge's new end.
Drop(e) ==
  /\ truncated' = TRUE
  /\ UNCHANGED <<paths, following, edges>>

Reach(e) ==
  /\ paths' = [n \in Reached \cup {Child(e)} |->
                 IF n \in Reached THEN paths[n]
                 ELSE Append(paths[Parent(e)], Child(e))]
  /\ following' = following \cup {Child(e)}
  /\ edges' = edges \cup {e}
  /\ UNCHANGED truncated

Keep(e) ==
  /\ edges' = edges \cup {e}
  /\ UNCHANGED <<paths, following, truncated>>

\* The next row, in the query's order.
TakeRow(e) ==
  /\ pc = "rows" /\ e \in rows
  /\ \A f \in rows : ~Precedes(f, e)
  /\ rows' = rows \ {e}
  /\ \/ Child(e) \in Reached /\ Keep(e)
     \/ Child(e) \notin Reached /\ Full /\ Drop(e)
     \/ Child(e) \notin Reached /\ ~Full /\ Reach(e)
  /\ UNCHANGED <<arguments, pc, round, frontier>>

EndRound ==
  /\ pc = "rows" /\ rows = {}
  /\ frontier' = following /\ following' = {}
  /\ IF Cardinality(edges) >= 2 * limit
     THEN truncated' = TRUE /\ pc' = "done"
     ELSE pc' = "query" /\ UNCHANGED truncated
  /\ UNCHANGED <<arguments, round, rows, paths, edges>>

Finish ==
  /\ pc = "query" /\ (round = depth \/ frontier = {})
  /\ pc' = "done"
  /\ UNCHANGED <<arguments, round, rows, frontier, following, paths, edges, truncated>>

Next == Query \/ (\E e \in rows : TakeRow(e)) \/ EndRound \/ Finish

Spec == Init /\ [][Next]_vars

-----------------------------------------------------------------------------
\* The walk may go from a to b.
Follows(a, b) ==
  \/ direction \in {"both", "callees"} /\ <<a, b>> \in calls
  \/ direction \in {"both", "callers"} /\ <<b, a>> \in calls

\* Every variable has its type.
TypeOK ==
  /\ calls \in Graphs /\ roots \in RootLists /\ direction \in Directions
  /\ depth \in 1..MaxDepth /\ limit \in 1..MaxNodes
  /\ pc \in {"query", "rows", "done"} /\ round \in 0..depth
  /\ rows \subseteq calls /\ edges \subseteq calls
  /\ Reached \subseteq Names /\ paths \in [Reached -> Seq(Names)]
  /\ frontier \subseteq Reached /\ following \subseteq Reached
  /\ truncated \in BOOLEAN

\* Each path of the answer is a path of calls in the direction asked for: it
\* leads from an entry point to its node, repeats no node, passes only nodes of
\* the answer and is no longer than the depth (context.py:45, 71).
IsCallPath(p, n) ==
  /\ p # <<>> /\ p[1] \in Entries /\ p[Len(p)] = n
  /\ \A i \in 1..(Len(p) - 1) : Follows(p[i], p[i + 1])
  /\ \A i, j \in DOMAIN p : p[i] = p[j] => i = j
PathsAreCallPaths ==
  \A n \in Reached :
    /\ IsCallPath(paths[n], n)
    /\ \A i \in DOMAIN paths[n] : paths[n][i] \in Reached
    /\ Len(paths[n]) <= depth + 1

\* An edge of the answer has both its ends in the answer (context.py:67-73).
EdgesHaveEnds == \A e \in edges : {e[1], e[2]} \subseteq Reached

\* Nodes and edges stay within their limits (context.py:68, 57).
WithinLimits ==
  /\ Cardinality(Reached) <= limit
  /\ Cardinality(edges) <= 2 * limit

\* One call further.
Neighbours(S) == {b \in Names : \E a \in S : Follows(a, b)}

\* Nodes at most k calls away from an entry point.
Within(k) ==
  LET reach[i \in Nat] ==
        IF i = 0 THEN Entries ELSE reach[i - 1] \cup Neighbours(reach[i - 1])
  IN reach[k]

\* An answer that is not truncated is complete to its depth: it has each node
\* within reach, by a shortest path, and each edge at a node that was expanded.
\* (That the depth itself leaves something out is not reported.)
HonestTruncation ==
  pc = "done" /\ ~truncated =>
    /\ Reached = Within(depth)
    /\ \A n \in Reached, k \in 0..depth : n \in Within(k) => Len(paths[n]) <= k + 1
    /\ edges = EdgesAt(Within(depth - 1))
=============================================================================
