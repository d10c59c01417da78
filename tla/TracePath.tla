----------------------------- MODULE TracePath -----------------------------
(***************************************************************************)
(* trace_path of traverse.py: a recursive query whose rows are call paths  *)
(* from one symbol, extended by one edge in each iteration, under a depth  *)
(* cap and a guard against cycles (INV-2).  An iteration sees the rows of  *)
(* the one before; the query ends with an iteration that adds none.        *)
(***************************************************************************)
EXTENDS Naturals, Sequences

CONSTANTS
  Names,     \* qualified names
  Graphs,    \* sets of CALLS edges <<source, target>>
  Depths,    \* values of the depth parameter
  MaxDepth   \* MAX_DEPTH, 10 in the code

ASSUME GraphAssumption == Graphs \subseteq SUBSET (Names \X Names)
ASSUME DepthAssumption == Depths \subseteq Nat /\ MaxDepth \in Nat \ {0}

VARIABLES
  calls, start, direction, depth, \* arguments, the last clamped
  walk,  \* rows of the result, each a path: node and depth follow from it
  last   \* rows of the last iteration

arguments == <<calls, start, direction, depth>>
vars == <<arguments, walk, last>>

Init ==
  /\ calls \in Graphs /\ start \in Names /\ direction \in {"callers", "callees"}
  /\ \E d \in Depths : depth = IF d < 1 THEN 1 ELSE IF d > MaxDepth THEN MaxDepth ELSE d
  /\ walk = {<<start>>}
  /\ last = walk

\* The joined edge leads from a to b.
Joins(a, b) == IF direction = "callees" THEN <<a, b>> \in calls ELSE <<b, a>> \in calls

Has(path, n) == \E i \in DOMAIN path : path[i] = n

\* Mutant of Extensions: only a return to the start is guarded against.
NotBackToStart ==
  UNION {{Append(p, b) : b \in {n \in Names : Joins(p[Len(p)], n) /\ n # start}} :
           p \in {q \in last : Len(q) - 1 < depth}}

\* Mutant of Extensions: the cap counts nodes, not edges.
OneShort ==
  UNION {{Append(p, b) : b \in {n \in Names : Joins(p[Len(p)], n) /\ ~Has(p, n)}} :
           p \in {q \in last : Len(q) < depth}}

\* One row per edge that leaves a path's node, within depth and to a new node.
Extensions ==
  UNION {{Append(p, b) : b \in {n \in Names : Joins(p[Len(p)], n) /\ ~Has(p, n)}} :
           p \in {q \in last : Len(q) - 1 < depth}}

Iterate ==
  /\ last # {}
  /\ last' = Extensions
  /\ walk' = walk \cup last'
  /\ UNCHANGED arguments

Next == Iterate

Spec == Init /\ [][Next]_vars

-----------------------------------------------------------------------------
\* A path of calls from the start within depth that visits no node twice.
IsSimplePath(p) ==
  /\ p # <<>> /\ p[1] = start
  /\ Len(p) <= depth + 1
  /\ \A i \in 1..(Len(p) - 1) : Joins(p[i], p[i + 1])
  /\ \A i, j \in DOMAIN p : p[i] = p[j] => i = j

\* Every row, of a finished query or not, is a simple call path within the
\* depth cap, on cyclic graphs too (INV-2).
RowsAreSimplePaths == \A p \in walk : p \in Seq(Names) /\ IsSimplePath(p)

\* All sequences of n names.
Sequences(n) == [1..n -> Names]

\* A finished query has found all of them, so all reachable symbols.
FindsEverySimplePath ==
  last = {} => \A n \in 1..(depth + 1) :
                 {p \in Sequences(n) : IsSimplePath(p)} \subseteq walk
=============================================================================
