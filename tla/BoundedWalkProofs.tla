------------------------- MODULE BoundedWalkProofs -------------------------
(***************************************************************************)
(* What the answers of bounded_walk consist of, for every graph, list of   *)
(* entry points, direction and limits: paths of calls, and edges between   *)
(* nodes of the answer, within the limits; and that one which is not       *)
(* marked truncated is complete to its depth.                              *)
(***************************************************************************)
EXTENDS BoundedWalk, SequenceTheorems, FiniteSetTheorems, Recursion, TLAPS

ArgumentsOK ==
  /\ calls \in SUBSET (Names \X Names)
  /\ Entries \subseteq Names
  /\ direction \in Directions
  /\ depth \in Nat

\* Nodes of the answer, and the part of them that a round works on.
NodesOK ==
  /\ Reached \subseteq Names
  /\ paths \in [Reached -> Seq(Names)]
  /\ frontier \subseteq Reached /\ following \subseteq Reached

\* A round fetches edges at its frontier; the nodes it first reaches are one
\* call further away than the frontier.
RoundOK ==
  /\ round \in Nat
  /\ pc = "query" => /\ following = {} /\ round <= depth
                     /\ \A n \in frontier : Len(paths[n]) <= round + 1
  /\ pc = "rows"  => /\ rows \subseteq EdgesAt(frontier) /\ round <= depth
                     /\ \A n \in frontier : Len(paths[n]) <= round
                     /\ \A n \in following : Len(paths[n]) <= round + 1

\* The inductive invariant.
WalkInv == ArgumentsOK /\ NodesOK /\ RoundOK /\ PathsAreCallPaths /\ EdgesHaveEnds

-----------------------------------------------------------------------------
\* A fetched edge leads from a node of the frontier to the edge's other end, in
\* the direction asked for unless that end has been reached before.
LEMMA EdgeLeads ==
  ASSUME ArgumentsOK, NodesOK, NEW e \in EdgesAt(frontier)
  PROVE  /\ e \in calls /\ Parent(e) \in frontier /\ Child(e) \in Names
         /\ {e[1], e[2]} = {Parent(e), Child(e)}
         /\ Child(e) \notin Reached => Follows(Parent(e), Child(e))
<1>1. e \in calls /\ e = <<e[1], e[2]>> /\ e[1] \in Names /\ e[2] \in Names
  BY DEF EdgesAt, ArgumentsOK
<1>2. \/ direction \in {"both", "callees"} /\ e[1] \in frontier
      \/ direction \in {"both", "callers"} /\ e[2] \in frontier
  BY DEF EdgesAt
<1>3. CASE e[1] \in frontier
  <2>1. Parent(e) = e[1] /\ Child(e) = e[2]
    BY <1>3 DEF Parent, Child
  <2>2. e[2] \notin Reached => direction \in {"both", "callees"}
    BY <1>2 DEF NodesOK
  <2> QED BY <1>1, <1>3, <2>1, <2>2 DEF Follows
<1>4. CASE e[1] \notin frontier
  <2>1. Parent(e) = e[2] /\ Child(e) = e[1]
    BY <1>4 DEF Parent, Child
  <2> QED BY <1>1, <1>2, <1>4, <2>1 DEF Follows
<1> QED BY <1>3, <1>4

\* A call path is extended by a call to a node that is not on it.
LEMMA CallPathExtends ==
  ASSUME NEW p \in Seq(Names), NEW a \in Names, NEW b \in Names,
         IsCallPath(p, a), Follows(a, b), \A i \in DOMAIN p : p[i] # b
  PROVE  IsCallPath(Append(p, b), b)
<1> DEFINE q == Append(p, b)
<1>1. Len(p) \in Nat /\ Len(p) # 0 /\ DOMAIN p = 1..Len(p) /\ p[Len(p)] = a
  BY EmptySeq, LenProperties DEF IsCallPath
<1>2. /\ q \in Seq(Names) /\ q # <<>> /\ Len(q) = Len(p) + 1
      /\ \A i \in 1..Len(p) : q[i] = p[i]
      /\ q[Len(p) + 1] = b
  BY AppendProperties
<1>3. DOMAIN q = 1..(Len(p) + 1)
  BY <1>2, LenProperties
<1> HIDE DEF q
<1>4. q[1] \in Entries /\ q[Len(q)] = b
  BY <1>1, <1>2 DEF IsCallPath
<1>5. ASSUME NEW i \in 1..(Len(q) - 1) PROVE Follows(q[i], q[i + 1])
  <2>1. i \in 1..Len(p)
    BY <1>1, <1>2
  <2>2. CASE i = Len(p)
    BY <1>1, <1>2, <2>1, <2>2
  <2>3. CASE i # Len(p)
    <3>1. \A m \in Nat : \A k \in 1..m : k # m => k \in 1..(m - 1) /\ k + 1 \in 1..m
      OBVIOUS
    <3>2. i \in 1..(Len(p) - 1) /\ i + 1 \in 1..Len(p)
      BY <1>1, <2>1, <2>3, <3>1
    <3> QED BY <1>2, <2>1, <3>2 DEF IsCallPath
  <2> QED BY <2>2, <2>3
<1>6. ASSUME NEW i \in DOMAIN q, NEW j \in DOMAIN q, q[i] = q[j] PROVE i = j
  <2>1. \A k \in 1..Len(p) : q[k] # b
    BY <1>1, <1>2
  <2>2. CASE i \in 1..Len(p) /\ j \in 1..Len(p)
    BY <1>1, <1>2, <1>6, <2>2 DEF IsCallPath
  <2>3. CASE i = Len(p) + 1 \/ j = Len(p) + 1
    BY <1>1, <1>2, <1>3, <1>6, <2>1, <2>3
  <2> QED BY <1>1, <1>3, <2>2, <2>3
<1>7. IsCallPath(q, b)
  BY <1>2, <1>4, <1>5, <1>6 DEF IsCallPath
<1> QED BY <1>7 DEF q

-----------------------------------------------------------------------------
LEMMA WalkInit == Init => WalkInv
<1> SUFFICES ASSUME Init PROVE WalkInv
  OBVIOUS
<1>1. Entries \subseteq Names
  <2>1. roots \in Seq(Names)
    BY RootsAssumption DEF Init
  <2> QED BY <2>1, LenProperties, ElementOfSeq DEF Entries
<1>2. depth \in Nat
  BY LimitsAssumption DEF Init, Clamp
<1>3. ArgumentsOK
  BY <1>1, <1>2, GraphsAssumption DEF Init, ArgumentsOK
<1>4. Reached = Entries /\ frontier = Entries /\ following = {}
  BY DEF Init, Reached
<1>5. \A n \in Reached : paths[n] = <<n>> /\ n \in Names
  BY <1>1, <1>4 DEF Init
<1>6. NodesOK
  BY <1>1, <1>4 DEF Init, NodesOK
<1>7. RoundOK
  BY <1>2, <1>4, <1>5 DEF Init, RoundOK
<1>8. PathsAreCallPaths
  <2> SUFFICES ASSUME NEW n \in Entries
               PROVE  /\ IsCallPath(<<n>>, n)
                      /\ \A i \in DOMAIN <<n>> : <<n>>[i] \in Entries
                      /\ Len(<<n>>) <= depth + 1
    BY <1>4, <1>5 DEF PathsAreCallPaths
  <2>1. <<n>> # <<>> /\ Len(<<n>>) = 1 /\ <<n>>[1] = n /\ DOMAIN <<n>> = {1}
    OBVIOUS
  <2> QED BY <1>2, <2>1 DEF IsCallPath
<1>9. EdgesHaveEnds
  BY DEF Init, EdgesHaveEnds
<1> QED BY <1>3, <1>6, <1>7, <1>8, <1>9 DEF WalkInv

\* A step that leaves the arguments, the paths and the edges as they are.
LEMMA UntouchedAnswer ==
  ASSUME WalkInv, UNCHANGED <<arguments, paths, edges>>
  PROVE  ArgumentsOK' /\ PathsAreCallPaths' /\ EdgesHaveEnds'
<1>1. Entries' = Entries /\ Reached' = Reached
  BY DEF arguments, Entries, Reached
<1> QED BY <1>1 DEF arguments, WalkInv, ArgumentsOK, PathsAreCallPaths, IsCallPath,
                     Follows, EdgesHaveEnds

LEMMA QueryStep == WalkInv /\ Query => WalkInv'
<1> SUFFICES ASSUME WalkInv, Query PROVE WalkInv'
  OBVIOUS
<1>1. UNCHANGED <<arguments, frontier, following, paths, edges>>
  BY DEF Query
<1>2. ArgumentsOK' /\ PathsAreCallPaths' /\ EdgesHaveEnds'
  BY <1>1, UntouchedAnswer
<1>3. NodesOK'
  BY <1>1 DEF WalkInv, NodesOK, Reached
<1>4. RoundOK'
  <2>1. EdgesAt(frontier)' = EdgesAt(frontier)
    BY <1>1 DEF arguments, EdgesAt
  <2>2. rows' \subseteq EdgesAt(frontier)'
    BY <2>1 DEF Query, First
  <2>3. /\ round \in Nat /\ following = {} /\ pc' = "rows" /\ round' = round + 1
        /\ round < depth /\ depth \in Nat /\ \A n \in frontier : Len(paths[n]) <= round + 1
    BY DEF WalkInv, RoundOK, ArgumentsOK, Query
  <2>4. round' \in Nat /\ round' <= depth' /\ following' = {}
    BY <1>1, <2>3 DEF arguments
  <2>5. \A n \in frontier' : Len(paths'[n]) <= round'
    BY <1>1, <2>3
  <2> QED BY <2>2, <2>3, <2>4, <2>5 DEF RoundOK
<1> QED BY <1>2, <1>3, <1>4 DEF WalkInv

LEMMA EndRoundStep == WalkInv /\ EndRound => WalkInv'
<1> SUFFICES ASSUME WalkInv, EndRound PROVE WalkInv'
  OBVIOUS
<1>1. UNCHANGED <<arguments, round, rows, paths, edges>>
  BY DEF EndRound
<1>2. ArgumentsOK' /\ PathsAreCallPaths' /\ EdgesHaveEnds'
  BY <1>1, UntouchedAnswer
<1>3. NodesOK'
  BY <1>1 DEF WalkInv, NodesOK, Reached, EndRound
<1>4. RoundOK'
  BY <1>1 DEF WalkInv, RoundOK, EndRound, arguments
<1> QED BY <1>2, <1>3, <1>4 DEF WalkInv

LEMMA FinishStep == WalkInv /\ Finish => WalkInv'
<1> SUFFICES ASSUME WalkInv, Finish PROVE WalkInv'
  OBVIOUS
<1>1. UNCHANGED <<arguments, round, rows, frontier, following, paths, edges>>
  BY DEF Finish
<1>2. ArgumentsOK' /\ PathsAreCallPaths' /\ EdgesHaveEnds'
  BY <1>1, UntouchedAnswer
<1>3. NodesOK'
  BY <1>1 DEF WalkInv, NodesOK, Reached
<1>4. RoundOK'
  BY <1>1 DEF WalkInv, RoundOK, Finish, arguments
<1> QED BY <1>2, <1>3, <1>4 DEF WalkInv

LEMMA TakeRowStep == ASSUME NEW e \in rows PROVE WalkInv /\ TakeRow(e) => WalkInv'
<1> SUFFICES ASSUME WalkInv, TakeRow(e) PROVE WalkInv'
  OBVIOUS
<1> USE DEF WalkInv
<1>1. /\ pc = "rows" /\ rows' \subseteq rows
      /\ UNCHANGED <<calls, roots, direction, depth, limit, pc, round, frontier>>
  BY DEF TakeRow, arguments
<1>2. /\ e \in EdgesAt(frontier) /\ rows \subseteq EdgesAt(frontier)
      /\ round \in Nat /\ round <= depth /\ depth \in Nat
      /\ \A n \in frontier : Len(paths[n]) <= round
      /\ \A n \in following : Len(paths[n]) <= round + 1
  BY <1>1 DEF RoundOK, ArgumentsOK
<1>3. /\ e \in calls /\ Parent(e) \in frontier /\ Child(e) \in Names
      /\ {e[1], e[2]} = {Parent(e), Child(e)}
      /\ Child(e) \notin Reached => Follows(Parent(e), Child(e))
  BY <1>2, EdgeLeads
<1>4. Entries' = Entries /\ EdgesAt(frontier)' = EdgesAt(frontier)
  BY <1>1 DEF Entries, EdgesAt
<1>5. ArgumentsOK'
  BY <1>1, <1>4 DEF ArgumentsOK
<1>6. \A p, n : IsCallPath(p, n)' = IsCallPath(p, n)
  BY <1>1, <1>4 DEF IsCallPath, Follows
<1>7. CASE (Child(e) \in Reached /\ Keep(e)) \/ Drop(e)
  <2>1. UNCHANGED <<paths, following>> /\ Reached' = Reached
    BY <1>7 DEF Keep, Drop, Reached
  <2>2. NodesOK' /\ RoundOK'
    BY <1>1, <1>2, <1>4, <2>1 DEF NodesOK, RoundOK
  <2>3. PathsAreCallPaths'
    BY <1>1, <1>6, <2>1 DEF PathsAreCallPaths
  <2>4. EdgesHaveEnds'
    <3>1. Child(e) \in Reached => {e[1], e[2]} \subseteq Reached
      BY <1>3 DEF NodesOK
    <3> QED BY <1>7, <2>1, <3>1 DEF EdgesHaveEnds, Keep, Drop
  <2> QED BY <1>5, <2>2, <2>3, <2>4
<1>8. CASE Child(e) \notin Reached /\ Reach(e)
  <2> DEFINE P == Parent(e)
             C == Child(e)
  <2>1. /\ P \in Reached /\ P \in Names /\ C \in Names /\ Follows(P, C)
        /\ paths[P] \in Seq(Names) /\ IsCallPath(paths[P], P) /\ Len(paths[P]) <= round
        /\ \A i \in DOMAIN paths[P] : paths[P][i] \in Reached
    BY <1>2, <1>3, <1>8 DEF NodesOK, PathsAreCallPaths
  <2> DEFINE q == Append(paths[P], C)
  <2>2. \A i \in DOMAIN paths[P] : paths[P][i] # C
    BY <1>8, <2>1
  <2>3. IsCallPath(q, C)
    BY <2>1, <2>2, CallPathExtends
  <2>4. /\ q \in Seq(Names) /\ Len(q) = Len(paths[P]) + 1 /\ Len(paths[P]) \in Nat
        /\ \A i \in 1..Len(paths[P]) : q[i] = paths[P][i]
        /\ q[Len(paths[P]) + 1] = C
    BY <2>1, AppendProperties, LenProperties
  <2>5. \A i \in DOMAIN q : q[i] \in Reached \cup {C}
    <3>1. DOMAIN q = 1..(Len(paths[P]) + 1) /\ DOMAIN paths[P] = 1..Len(paths[P])
      BY <2>1, <2>4, LenProperties
    <3>2. \A i \in DOMAIN q : i \in DOMAIN paths[P] \/ i = Len(paths[P]) + 1
      BY <2>4, <3>1
    <3> QED BY <2>1, <2>4, <3>1, <3>2
  <2>6. Len(q) <= round + 1 /\ Len(q) <= depth + 1
    BY <1>2, <2>1, <2>4
  <2>7. paths' = [n \in Reached \cup {C} |-> IF n \in Reached THEN paths[n] ELSE q]
    BY <1>8 DEF Reach
  <2> HIDE DEF P, C, q
  <2>8. following' = following \cup {C} /\ edges' = edges \cup {e} /\ C \notin Reached
    BY <1>8 DEF Reach, C
  <2>9. Reached' = Reached \cup {C}
    BY <2>7 DEF Reached
  <2>10. (\A n \in Reached : paths'[n] = paths[n]) /\ paths'[C] = q
    BY <2>7, <2>8
  <2>11. NodesOK'
    <3>1. paths' \in [Reached \cup {C} -> Seq(Names)]
      BY <2>4, <2>7 DEF NodesOK
    <3> QED BY <1>1, <2>1, <2>8, <2>9, <3>1 DEF NodesOK
  <2>12. RoundOK'
    <3>1. frontier \subseteq Reached /\ following \subseteq Reached
      BY DEF NodesOK
    <3>2. \A n \in frontier : Len(paths'[n]) <= round
      BY <1>2, <2>10, <3>1
    <3>3. \A n \in following \cup {C} : Len(paths'[n]) <= round + 1
      BY <1>2, <2>6, <2>10, <3>1
    <3> QED BY <1>1, <1>2, <1>4, <2>8, <3>2, <3>3 DEF RoundOK
  <2>13. PathsAreCallPaths'
    <3>1. ASSUME NEW n \in Reached
          PROVE  /\ IsCallPath(paths[n], n)'
                 /\ \A i \in DOMAIN paths'[n] : paths'[n][i] \in Reached'
                 /\ Len(paths'[n]) <= depth' + 1
      BY <1>1, <1>6, <2>9, <2>10 DEF PathsAreCallPaths
    <3>2. ASSUME NEW n, n = C
          PROVE  /\ IsCallPath(paths[n], n)'
                 /\ \A i \in DOMAIN paths'[n] : paths'[n][i] \in Reached'
                 /\ Len(paths'[n]) <= depth' + 1
      <4>1. paths'[n] = q
        BY <2>10, <3>2
      <4>2. IsCallPath(q, n)
        BY <2>3, <3>2
      <4>3. IsCallPath(paths[n], n)'
        BY <1>6, <4>1, <4>2
      <4> QED BY <1>1, <2>5, <2>6, <2>9, <4>1, <4>3
    <3>3. ASSUME NEW n \in Reached' PROVE n \in Reached \/ n = C
      BY <2>9, <3>3
    <3> QED BY <3>1, <3>2, <3>3 DEF PathsAreCallPaths
  <2>14. EdgesHaveEnds'
    <3>1. {e[1], e[2]} \subseteq Reached \cup {C}
      BY <1>3, <2>1 DEF P, C
    <3> QED BY <2>8, <2>9, <3>1 DEF EdgesHaveEnds
  <2> QED BY <1>5, <2>11, <2>12, <2>13, <2>14
<1> QED BY <1>7, <1>8 DEF TakeRow

\* The invariant that carries both theorems.
THEOREM WalkInvariant == Spec => []WalkInv
<1>1. WalkInv /\ [Next]_vars => WalkInv'
  <2> SUFFICES ASSUME WalkInv, [Next]_vars PROVE WalkInv'
    OBVIOUS
  <2>1. CASE UNCHANGED vars
    <3>1. UNCHANGED <<arguments, pc, round, rows, frontier, following, paths, edges>>
      BY <2>1 DEF vars
    <3>2. ArgumentsOK' /\ PathsAreCallPaths' /\ EdgesHaveEnds'
      BY <3>1, UntouchedAnswer
    <3>3. EdgesAt(frontier)' = EdgesAt(frontier)
      BY <3>1 DEF arguments, EdgesAt
    <3>4. NodesOK' /\ RoundOK'
      BY <3>1, <3>3 DEF WalkInv, NodesOK, RoundOK, Reached, arguments
    <3> QED BY <3>2, <3>4 DEF WalkInv
  <2>2. CASE Query
    BY <2>2, QueryStep
  <2>3. ASSUME NEW e \in rows, TakeRow(e) PROVE WalkInv'
    BY <2>3, TakeRowStep
  <2>4. CASE EndRound
    BY <2>4, EndRoundStep
  <2>5. CASE Finish
    BY <2>5, FinishStep
  <2> QED BY <2>1, <2>2, <2>3, <2>4, <2>5 DEF Next
<1> QED BY <1>1, WalkInit, PTL DEF Spec

\* Every path an answer offers as evidence is a path of calls (context.py:71).
THEOREM PathsCorrect == Spec => []PathsAreCallPaths
<1>1. WalkInv => PathsAreCallPaths
  BY DEF WalkInv
<1> QED BY <1>1, WalkInvariant, PTL

\* No limit, in whatever round it is met, leaves an edge without its end
\* (context.py:67-73).
THEOREM EdgesComplete == Spec => []EdgesHaveEnds
<1>1. WalkInv => EdgesHaveEnds
  BY DEF WalkInv
<1> QED BY <1>1, WalkInvariant, PTL

-----------------------------------------------------------------------------
(* The limits.                                                             *)

\* ORDER BY is a strict order on the edges of a graph.
LEMMA PrecedesIsOrder ==
  ASSUME NEW e \in Names \X Names, NEW f \in Names \X Names, NEW g \in Names \X Names
  PROVE  /\ ~Precedes(e, e)
         /\ Precedes(e, f) /\ Precedes(f, g) => Precedes(e, g)
         /\ e # f => Precedes(e, f) \/ Precedes(f, e)
<1>1. /\ e = <<e[1], e[2]>> /\ f = <<f[1], f[2]>>
      /\ e[1] \in Nat /\ e[2] \in Nat /\ f[1] \in Nat /\ f[2] \in Nat
      /\ g[1] \in Nat /\ g[2] \in Nat
  <2>1. \A x \in Names \X Names : x = <<x[1], x[2]>> /\ x[1] \in Names /\ x[2] \in Names
    OBVIOUS
  <2>2. \A n \in Names : n \in Nat
    BY NamesAssumption
  <2> QED BY <2>1, <2>2
<1>2. ~Precedes(e, e)
  BY <1>1 DEF Precedes
<1>3. Precedes(e, f) /\ Precedes(f, g) => Precedes(e, g)
  BY <1>1 DEF Precedes
<1>4. e # f => Precedes(e, f) \/ Precedes(f, e)
  <2>1. e # f => e[1] # f[1] \/ e[2] # f[2]
    BY <1>1
  <2> QED BY <1>1, <2>1 DEF Precedes
<1> QED BY <1>2, <1>3, <1>4

LEMMA EdgesAreFinite ==
  ASSUME NEW E \in SUBSET (Names \X Names)
  PROVE  IsFiniteSet(E) /\ Cardinality(E) \in Nat
<1>1. IsFiniteSet(Names \X Names)
  BY NamesAssumption, FS_Product
<1> QED BY <1>1, FS_Subset, FS_CardinalityType

\* LIMIT n gives at most n rows: their ranks in the order are distinct numbers
\* below n.
LEMMA FirstIsLimited ==
  ASSUME NEW E \in SUBSET (Names \X Names), NEW n \in Nat
  PROVE  First(n, E) \subseteq E /\ Cardinality(First(n, E)) <= n
<1> DEFINE below(e) == {f \in E : Precedes(f, e)}
           rank == [e \in First(n, E) |-> Cardinality(below(e))]
<1>1. First(n, E) \subseteq E
  BY DEF First
<1>2. \A e \in E : IsFiniteSet(below(e)) /\ Cardinality(below(e)) \in Nat
  BY EdgesAreFinite
<1>3. rank \in [First(n, E) -> 0..(n - 1)]
  BY <1>1, <1>2 DEF First
<1>4. ASSUME NEW e \in E, NEW f \in E, Precedes(e, f)
      PROVE  Cardinality(below(e)) < Cardinality(below(f))
  <2>1. below(e) \subseteq below(f) /\ e \in below(f) /\ e \notin below(e)
    BY <1>4, PrecedesIsOrder
  <2>2. below(e) \in SUBSET below(f) /\ below(e) # below(f)
    BY <2>1
  <2> HIDE DEF below
  <2>3. Cardinality(below(e)) <= Cardinality(below(f)) /\ Cardinality(below(e)) # Cardinality(below(f))
    BY <1>2, <2>2, FS_Subset
  <2> QED BY <1>2, <2>3
<1>5. \A e, f \in First(n, E) : rank[e] = rank[f] => e = f
  <2> SUFFICES ASSUME NEW e \in First(n, E), NEW f \in First(n, E), e # f PROVE rank[e] # rank[f]
    OBVIOUS
  <2>1. Precedes(e, f) \/ Precedes(f, e)
    BY <1>1, PrecedesIsOrder
  <2>2. Cardinality(below(e)) < Cardinality(below(f)) \/ Cardinality(below(f)) < Cardinality(below(e))
    BY <1>1, <1>4, <2>1
  <2> HIDE DEF below
  <2> QED BY <1>1, <1>2, <2>2
<1>6. rank \in Injection(First(n, E), 0..(n - 1))
  BY <1>3, <1>5 DEF Injection, IsInjective
<1>7. IsFiniteSet(0..(n - 1)) /\ Cardinality(0..(n - 1)) = n
  BY FS_Interval
<1> HIDE DEF rank
<1>8. Cardinality(First(n, E)) <= Cardinality(0..(n - 1))
  BY <1>6, <1>7, FS_Injection
<1> QED BY <1>1, <1>7, <1>8

\* roots[:max_nodes] is no longer than max_nodes.
LEMMA EntriesAreLimited ==
  ASSUME roots \in Seq(Names), limit \in Nat
  PROVE  IsFiniteSet(Entries) /\ Cardinality(Entries) <= limit
<1> DEFINE I == {j \in DOMAIN roots : j <= limit}
           f == [j \in I |-> roots[j]]
<1>1. I \subseteq 1..limit
  BY LenProperties
<1>2. IsFiniteSet(1..limit) /\ Cardinality(1..limit) = limit
  BY FS_Interval
<1>3. IsFiniteSet(I) /\ Cardinality(I) <= limit
  BY <1>1, <1>2, FS_Subset
<1>4. f \in Surjection(I, Entries)
  BY DEF Entries, Surjection
<1> HIDE DEF I, f
<1>5. IsFiniteSet(Entries) /\ Cardinality(Entries) <= Cardinality(I)
  BY <1>3, <1>4, FS_Surjection
<1> QED BY <1>3, <1>5, FS_CardinalityType

\* The rows of a round fit beside the edges there are.
LimitInv ==
  /\ limit \in Nat
  /\ IsFiniteSet(Reached) /\ Cardinality(Reached) <= limit
  /\ IsFiniteSet(edges) /\ Cardinality(edges) <= 2 * limit
  /\ pc = "rows" => IsFiniteSet(rows) /\ Cardinality(edges) + Cardinality(rows) <= 2 * limit

LEMMA LimitInit == Init => LimitInv
<1> SUFFICES ASSUME Init PROVE LimitInv
  OBVIOUS
<1>1. limit \in Nat /\ roots \in Seq(Names)
  BY LimitsAssumption, RootsAssumption DEF Init, Clamp
<1>2. Reached = Entries /\ edges = {} /\ pc = "query"
  BY DEF Init, Reached
<1>3. Cardinality({}) = 0 /\ IsFiniteSet({})
  BY FS_EmptySet
<1> QED BY <1>1, <1>2, <1>3, EntriesAreLimited DEF LimitInv

LEMMA LimitStep == WalkInv /\ LimitInv /\ [Next]_vars => LimitInv'
<1> SUFFICES ASSUME WalkInv, LimitInv, [Next]_vars PROVE LimitInv'
  OBVIOUS
<1> USE DEF LimitInv
<1>1. Cardinality(edges) \in Nat /\ Cardinality(Reached) \in Nat
  BY FS_CardinalityType
<1>2. CASE UNCHANGED vars
  BY <1>2 DEF vars, arguments, Reached
<1>3. CASE Query
  <2>1. UNCHANGED <<limit, paths, edges>> /\ rows' = First(Remaining, EdgesAt(frontier))
    BY <1>3 DEF Query, arguments
  <2>2. EdgesAt(frontier) \in SUBSET (Names \X Names) /\ Remaining \in Nat
    BY <1>1 DEF WalkInv, ArgumentsOK, EdgesAt, Remaining
  <2>3. rows' \in SUBSET (Names \X Names) /\ Cardinality(rows') <= Remaining
    BY <2>1, <2>2, FirstIsLimited
  <2>4. IsFiniteSet(rows') /\ Cardinality(rows') \in Nat
    BY <2>3, EdgesAreFinite
  <2> QED BY <1>1, <2>1, <2>3, <2>4 DEF Remaining, Reached
<1>4. ASSUME NEW e \in rows, TakeRow(e) PROVE LimitInv'
  <2>1. /\ pc = "rows" /\ pc' = "rows" /\ rows' = rows \ {e} /\ limit' = limit
    BY <1>4 DEF TakeRow, arguments
  <2>2. IsFiniteSet(rows') /\ Cardinality(rows') = Cardinality(rows) - 1 /\ Cardinality(rows) \in Nat
    BY <2>1, FS_RemoveElement, FS_CardinalityType
  <2>3. /\ IsFiniteSet(edges \cup {e})
        /\ Cardinality(edges \cup {e}) \in {Cardinality(edges), Cardinality(edges) + 1}
    BY FS_AddElement
  <2>4. edges' \in {edges, edges \cup {e}}
    BY <1>4 DEF TakeRow, Keep, Drop, Reach
  <2>5. IsFiniteSet(Reached') /\ Cardinality(Reached') <= limit
    <3>1. CASE Reached' = Reached
      BY <3>1
    <3>2. CASE ~Full /\ Reached' = Reached \cup {Child(e)}
      <4>1. Cardinality(Reached) < limit
        BY <1>1, <3>2 DEF Full
      <4>2. /\ IsFiniteSet(Reached \cup {Child(e)})
            /\ Cardinality(Reached \cup {Child(e)}) \in {Cardinality(Reached), Cardinality(Reached) + 1}
        BY FS_AddElement
      <4> QED BY <1>1, <3>2, <4>1, <4>2
    <3> QED BY <1>4, <3>1, <3>2 DEF TakeRow, Keep, Drop, Reach, Reached
  <2>6. IsFiniteSet(edges') /\ Cardinality(edges') + Cardinality(rows') <= 2 * limit
    <3>1. CASE edges' = edges
      BY <1>1, <2>1, <2>2, <3>1
    <3>2. CASE edges' = edges \cup {e}
      BY <1>1, <2>1, <2>2, <2>3, <3>2
    <3> QED BY <2>4, <3>1, <3>2
  <2>7. Cardinality(edges') \in Nat /\ Cardinality(rows') \in Nat
    BY <2>2, <2>6, FS_CardinalityType
  <2>8. Cardinality(edges') <= 2 * limit
    BY <2>6, <2>7
  <2> QED BY <2>1, <2>2, <2>5, <2>6, <2>8
<1>5. CASE EndRound
  BY <1>5 DEF EndRound, arguments, Reached
<1>6. CASE Finish
  BY <1>6 DEF Finish, arguments, Reached
<1> QED BY <1>2, <1>3, <1>4, <1>5, <1>6 DEF Next

LEMMA LimitInvariant == Spec => []LimitInv
BY LimitInit, LimitStep, WalkInvariant, PTL DEF Spec

\* Whatever the graph, no answer has more nodes than max_nodes or more than twice
\* as many edges, in whatever round and row a limit is met (context.py:57, 68).
THEOREM LimitsKept == Spec => []WithinLimits
<1>1. LimitInv => WithinLimits
  BY DEF LimitInv, WithinLimits
<1> QED BY <1>1, LimitInvariant, PTL

\* Every variable keeps its type.
THEOREM TypeCorrect == Spec => []TypeOK
<1>1. Init => TypeOK
  <2> SUFFICES ASSUME Init PROVE TypeOK
    OBVIOUS
  <2>1. depth \in 1..MaxDepth /\ limit \in 1..MaxNodes
    BY LimitsAssumption DEF Init, Clamp
  <2>2. Len(roots) \in Nat
    BY RootsAssumption, LenProperties DEF Init
  <2>3. NodesOK
    BY WalkInit DEF WalkInv
  <2> QED BY <2>1, <2>2, <2>3 DEF Init, TypeOK, NodesOK
<1>2. WalkInv /\ WalkInv' /\ TypeOK /\ [Next]_vars => TypeOK'
  <2> SUFFICES ASSUME WalkInv, NodesOK', TypeOK, [Next]_vars PROVE TypeOK'
    BY DEF WalkInv
  <2>1. /\ UNCHANGED arguments /\ pc' \in {"query", "rows", "done"} /\ truncated' \in BOOLEAN
        /\ round' \in 0..depth
    <3>1. round \in Nat /\ depth \in Nat /\ round <= depth
      BY LimitsAssumption DEF TypeOK
    <3>2. CASE Query
      BY <3>1, <3>2 DEF TypeOK, Query
    <3>3. CASE EndRound \/ Finish
      BY <3>1, <3>3 DEF TypeOK, EndRound, Finish
    <3>4. CASE \E e \in rows : TakeRow(e)
      BY <3>1, <3>4 DEF TypeOK, TakeRow, Keep, Drop, Reach
    <3>5. CASE UNCHANGED vars
      BY <3>5 DEF TypeOK, vars
    <3> QED BY <3>2, <3>3, <3>4, <3>5 DEF Next
  <2>2. rows' \subseteq calls /\ edges' \subseteq calls
    BY DEF TypeOK, Next, Query, First, EdgesAt, TakeRow, Keep, Drop, Reach, EndRound, Finish,
         vars
  <2> QED BY <2>1, <2>2 DEF TypeOK, NodesOK, arguments
<1> QED BY <1>1, <1>2, WalkInvariant, PTL DEF Spec

-----------------------------------------------------------------------------
(* Completeness.                                                           *)

\* Within satisfies its recursion.
LEMMA WithinUnfolds ==
  ASSUME Entries \subseteq Names
  PROVE  /\ Within(0) = Entries
         /\ \A k \in Nat : Within(k) \subseteq Names /\ Within(k + 1) = Within(k) \cup Neighbours(Within(k))
<1> DEFINE U == SUBSET Names
           step == [p \in Nat \X U |-> p[2] \cup Neighbours(p[2])]
           reach[i \in Nat] == IF i = 0 THEN Entries ELSE reach[i - 1] \cup Neighbours(reach[i - 1])
<1>1. \A S \in U : S \cup Neighbours(S) \in U
  BY DEF Neighbours
<1>2. step \in [Nat \X U -> U]
  BY <1>1
<1>3. Entries \in U
  OBVIOUS
<1>4. \A i \in Nat, S \in U : step[<<i, S>>] = S \cup Neighbours(S)
  OBVIOUS
<1> HIDE DEF U, step, reach
<1>5. PICK f \in [Nat -> U] : Recurs(f, Entries, step)
  BY <1>2, <1>3, RecursionExists
<1>6. f[0] = Entries /\ \A i \in Nat \ {0} : f[i] = step[<<i, f[i - 1]>>]
  BY <1>5 DEF Recurs
<1>7. ASSUME NEW i \in Nat, i # 0 PROVE f[i] = f[i - 1] \cup Neighbours(f[i - 1]) /\ f[i] \in U
  <2>1. i - 1 \in Nat /\ f[i - 1] \in U /\ f[i] \in U
    BY <1>7
  <2> QED BY <1>4, <1>6, <1>7, <2>1
<1>8. f = [i \in Nat |-> IF i = 0 THEN Entries ELSE f[i - 1] \cup Neighbours(f[i - 1])]
  BY <1>6, <1>7
<1>9. reach = [i \in Nat |-> IF i = 0 THEN Entries ELSE reach[i - 1] \cup Neighbours(reach[i - 1])]
  BY <1>8 DEF reach
<1>10. \A k : Within(k) = reach[k]
  BY DEF Within, reach
<1>11. reach[0] = Entries
  BY <1>9
<1>12. ASSUME NEW k \in Nat PROVE reach[k + 1] = reach[k] \cup Neighbours(reach[k])
  <2>1. k + 1 \in Nat /\ k + 1 # 0 /\ (k + 1) - 1 = k
    OBVIOUS
  <2> QED BY <1>9, <2>1
<1>13. \A k \in Nat : reach[k] \subseteq Names
  <2> DEFINE S == {k \in Nat : reach[k] \subseteq Names}
  <2>1. 0 \in S
    BY <1>11
  <2>2. \A k \in Nat : k \in S => k + 1 \in S
    BY <1>12 DEF Neighbours
  <2> HIDE DEF S
  <2>3. Nat \subseteq S
    BY <2>1, <2>2, NatInductionSet
  <2> QED BY <2>3 DEF S
<1> QED BY <1>10, <1>11, <1>12, <1>13
LEMMA WithinGrows ==
  ASSUME Entries \subseteq Names, NEW i \in Nat, NEW j \in Nat, i <= j
  PROVE  Within(i) \subseteq Within(j)
<1> DEFINE S == {d \in Nat : Within(i) \subseteq Within(i + d)}
<1>1. 0 \in S
  OBVIOUS
<1>2. ASSUME NEW d \in Nat, d \in S PROVE d + 1 \in S
  <2>1. i + (d + 1) = (i + d) + 1 /\ i + d \in Nat
    OBVIOUS
  <2>2. Within((i + d) + 1) = Within(i + d) \cup Neighbours(Within(i + d))
    BY <2>1, WithinUnfolds
  <2> QED BY <1>2, <2>1, <2>2
<1> HIDE DEF S
<1>3. Nat \subseteq S
  BY <1>1, <1>2, NatInductionSet
<1>4. j - i \in Nat /\ i + (j - i) = j
  OBVIOUS
<1> QED BY <1>3, <1>4 DEF S

\* The nodes expanded in the first r rounds of a walk that nothing cut short.
Before(r) == IF r = 0 THEN {} ELSE Within(r - 1)

LEMMA BeforeGrows ==
  ASSUME Entries \subseteq Names, NEW r \in Nat
  PROVE  Before(r) \subseteq Within(r) /\ Neighbours(Before(r)) \subseteq Within(r)
<1>1. CASE r = 0
  BY <1>1 DEF Before, Neighbours
<1>2. CASE r # 0
  <2>1. r - 1 \in Nat /\ (r - 1) + 1 = r
    BY <1>2
  <2>2. Within((r - 1) + 1) = Within(r - 1) \cup Neighbours(Within(r - 1))
    BY <2>1, WithinUnfolds
  <2> QED BY <1>2, <2>1, <2>2 DEF Before
<1> QED BY <1>1, <1>2

\* A round that reaches nothing new is the last one that could.
LEMMA NothingFurther ==
  ASSUME Entries \subseteq Names, NEW r \in Nat, Within(r) \subseteq Before(r)
  PROVE  /\ Before(r) = Within(r)
         /\ \A k \in Nat : r <= k + 1 => Within(k) = Within(r)
<1>1. Before(r) = Within(r) /\ Neighbours(Within(r)) \subseteq Within(r)
  BY BeforeGrows
<1> DEFINE S == {d \in Nat : Within(r + d) = Within(r)}
<1>2. 0 \in S
  OBVIOUS
<1>3. ASSUME NEW d \in Nat, d \in S PROVE d + 1 \in S
  <2>1. r + (d + 1) = (r + d) + 1 /\ r + d \in Nat
    OBVIOUS
  <2>2. Within((r + d) + 1) = Within(r + d) \cup Neighbours(Within(r + d))
    BY <2>1, WithinUnfolds
  <2> QED BY <1>1, <1>3, <2>1, <2>2
<1> HIDE DEF S
<1>4. Nat \subseteq S
  BY <1>2, <1>3, NatInductionSet
<1>5. ASSUME NEW k \in Nat, r <= k + 1 PROVE Within(k) = Within(r)
  <2>1. CASE r <= k
    <3>1. k - r \in Nat /\ r + (k - r) = k
      BY <2>1
    <3> QED BY <1>4, <3>1 DEF S
  <2>2. CASE ~(r <= k)
    <3>1. r # 0 /\ k = r - 1
      BY <1>5, <2>2
    <3> QED BY <1>1, <3>1 DEF Before
  <2> QED BY <2>1, <2>2
<1> QED BY <1>1, <1>5

\* What the operators say in the next state is what they say in this one.
LEMMA GraphStands ==
  ASSUME UNCHANGED arguments
  PROVE  /\ \A k : Within(k)' = Within(k)
         /\ \A S : EdgesAt(S)' = EdgesAt(S)
<1>1. UNCHANGED <<calls, roots, direction, depth, limit>>
  BY DEF arguments
<1>2. Entries' = Entries
  BY <1>1 DEF Entries
<1>3. \A S : Neighbours(S)' = Neighbours(S)
  BY <1>1 DEF Neighbours, Follows
<1>4. \A k : Within(k)' = Within(k)
  BY <1>2, <1>3 DEF Within
<1> QED BY <1>1, <1>4 DEF EdgesAt

LEMMA EdgesAtUnion == \A S, T : EdgesAt(S \cup T) = EdgesAt(S) \cup EdgesAt(T)
BY DEF EdgesAt

\* A node one call from the frontier is an end of one of the frontier's edges,
\* the one the walk takes for the child unless that one is in the frontier too.
LEMMA NeighboursAreChildren ==
  ASSUME ArgumentsOK
  PROVE  Neighbours(frontier) \subseteq frontier \cup {Child(e) : e \in EdgesAt(frontier)}
<1> SUFFICES ASSUME NEW a \in frontier, NEW b \in Names, Follows(a, b), b \notin frontier
             PROVE  \E e \in EdgesAt(frontier) : Child(e) = b
  BY DEF Neighbours
<1>1. CASE direction \in {"both", "callees"} /\ <<a, b>> \in calls
  <2>1. <<a, b>> \in EdgesAt(frontier)
    BY <1>1 DEF EdgesAt
  <2>2. Child(<<a, b>>) = b
    BY DEF Child
  <2> QED BY <2>1, <2>2
<1>2. CASE direction \in {"both", "callers"} /\ <<b, a>> \in calls
  <2>1. <<b, a>> \in EdgesAt(frontier)
    BY <1>2 DEF EdgesAt
  <2>2. Child(<<b, a>>) = b
    BY DEF Child
  <2> QED BY <2>1, <2>2
<1> QED BY <1>1, <1>2 DEF Follows

-----------------------------------------------------------------------------
\* While nothing was left out: a node that is k calls away from an entry point
\* has a path of at most k calls,
ShortestPaths == \A n \in Reached, k \in Nat : n \in Within(k) => Len(paths[n]) <= k + 1

\* between rounds the walk has all that the rounds so far reach and expand,
RoundsDone(r) ==
  /\ Reached = Within(r)
  /\ frontier = Within(r) \ Before(r)
  /\ edges = EdgesAt(Before(r))

\* and within a round what is not in the answer yet is in the rows to come.
RoundUnderWay ==
  /\ round # 0
  /\ Reached = Within(round - 1) \cup following
  /\ following \cap Within(round - 1) = {}
  /\ following \subseteq Within(round)
  /\ frontier = Within(round - 1) \ Before(round - 1)
  /\ edges \cup rows = EdgesAt(Within(round - 1))
  /\ Within(round) \subseteq Reached \cup {Child(e) : e \in rows}

CompleteInv ==
  ~truncated =>
    /\ ShortestPaths
    /\ pc = "query" => RoundsDone(round)
    /\ pc = "rows"  => RoundUnderWay
    /\ pc = "done"  => Reached = Within(depth) /\ edges = EdgesAt(Within(depth - 1))

LEMMA CompleteInit == Init => CompleteInv
<1> SUFFICES ASSUME Init PROVE CompleteInv
  OBVIOUS
<1>1. Entries \subseteq Names
  BY WalkInit DEF WalkInv, ArgumentsOK
<1>2. Within(0) = Entries
  BY <1>1, WithinUnfolds
<1>3. Reached = Entries /\ \A n \in Reached : paths[n] = <<n>>
  BY DEF Init, Reached
<1>4. EdgesAt(Before(0)) = {}
  BY DEF Before, EdgesAt
<1>5. \A n : Len(<<n>>) = 1
  OBVIOUS
<1>6. \A n \in Reached : Len(paths[n]) = 1
  BY <1>3, <1>5
<1>7. ShortestPaths
  <2>1. \A k \in Nat : 1 <= k + 1
    OBVIOUS
  <2> QED BY <1>6, <2>1 DEF ShortestPaths
<1> QED BY <1>2, <1>3, <1>4, <1>7 DEF Init, CompleteInv, RoundsDone, Before

LEMMA CompleteQuery == WalkInv /\ CompleteInv /\ Query => CompleteInv'
<1> SUFFICES ASSUME WalkInv, CompleteInv, Query, ~truncated' PROVE CompleteInv'
  BY DEF CompleteInv
<1>1. /\ UNCHANGED <<arguments, frontier, following, paths, edges>>
      /\ ~truncated /\ pc = "query" /\ pc' = "rows" /\ round' = round + 1 /\ round \in Nat
      /\ rows' = EdgesAt(frontier) /\ following = {} /\ Entries \subseteq Names
  BY DEF Query, WalkInv, ArgumentsOK, RoundOK
<1>2. ShortestPaths /\ RoundsDone(round)
  BY <1>1 DEF CompleteInv
<1>3. \A k : Within(k)' = Within(k)
  BY <1>1, GraphStands
<1>4. ShortestPaths'
  BY <1>1, <1>2, <1>3 DEF ShortestPaths, Reached
<1>5. round' # 0 /\ round' - 1 = round /\ round' \in Nat
  BY <1>1
<1>6. edges' \cup rows' = EdgesAt(Within(round))
  <2>1. Before(round) \cup frontier = Within(round)
    BY <1>1, <1>2, BeforeGrows DEF RoundsDone
  <2>2. EdgesAt(Before(round) \cup frontier) = EdgesAt(Before(round)) \cup EdgesAt(frontier)
    BY EdgesAtUnion
  <2> QED BY <1>1, <1>2, <2>1, <2>2 DEF RoundsDone
<1>8. Within(round + 1) \subseteq Reached \cup {Child(e) : e \in EdgesAt(frontier)}
  <2>1. Within(round + 1) = Within(round) \cup Neighbours(Within(round))
    BY <1>1, WithinUnfolds
  <2>2. Neighbours(Within(round)) \subseteq Neighbours(Before(round)) \cup Neighbours(frontier)
    BY <1>2 DEF RoundsDone, Neighbours
  <2>3. Neighbours(Before(round)) \subseteq Within(round)
    BY <1>1, BeforeGrows
  <2>4. frontier \subseteq Reached /\ Reached = Within(round)
    BY <1>2 DEF RoundsDone
  <2>5. Neighbours(frontier) \subseteq frontier \cup {Child(e) : e \in EdgesAt(frontier)}
    BY NeighboursAreChildren DEF WalkInv
  <2> QED BY <2>1, <2>2, <2>3, <2>4, <2>5
<1>9. {Child(e) : e \in rows}' = {Child(e) : e \in EdgesAt(frontier)}
  BY <1>1 DEF Child
<1>10. /\ Within(round)' = Within(round + 1) /\ Within(round - 1)' = Within(round)
       /\ Before(round - 1)' = Before(round)
  BY <1>1, <1>3, <1>5 DEF Before
<1>11. EdgesAt(Within(round - 1))' = EdgesAt(Within(round))
  BY <1>1, <1>10 DEF EdgesAt, arguments
<1>12. RoundUnderWay'
  <2>1. Reached' = Reached /\ Reached = Within(round) /\ frontier = Within(round) \ Before(round)
    BY <1>1, <1>2 DEF Reached, RoundsDone
  <2> QED BY <1>1, <1>5, <1>6, <1>8, <1>9, <1>10, <1>11, <2>1 DEF RoundUnderWay
<1> QED BY <1>1, <1>4, <1>12 DEF CompleteInv

LEMMA CompleteTakeRow ==
  ASSUME NEW e \in rows
  PROVE  WalkInv /\ CompleteInv /\ TakeRow(e) => CompleteInv'
<1> SUFFICES ASSUME WalkInv, CompleteInv, TakeRow(e), ~truncated' PROVE CompleteInv'
  BY DEF CompleteInv
<1>1. /\ UNCHANGED <<arguments, frontier, pc, round>> /\ pc = "rows" /\ rows' = rows \ {e}
      /\ ~truncated /\ edges' = edges \cup {e}
      /\ (Child(e) \in Reached /\ Keep(e)) \/ (Child(e) \notin Reached /\ Reach(e))
  BY DEF TakeRow, Keep, Reach, Drop, CompleteInv
<1>2. ShortestPaths /\ RoundUnderWay
  BY <1>1 DEF CompleteInv
<1>3. /\ \A k : Within(k)' = Within(k) /\ Before(k)' = Before(k)
      /\ \A S : EdgesAt(S)' = EdgesAt(S)
  BY <1>1, GraphStands DEF Before
<1>4. \A f : Child(f)' = Child(f)
  BY <1>1 DEF Child
<1>5. round \in Nat \ {0} /\ round - 1 \in Nat /\ (round - 1) + 1 = round /\ Entries \subseteq Names
  BY <1>2 DEF WalkInv, RoundOK, RoundUnderWay, ArgumentsOK
<1>6. edges' \cup rows' = edges \cup rows
  BY <1>1
<1>7. CASE Child(e) \in Reached /\ Keep(e)
  <2>1. UNCHANGED <<paths, following>> /\ Reached' = Reached
    BY <1>7 DEF Keep, Reached
  <2>2. ShortestPaths'
    BY <1>2, <1>3, <2>1 DEF ShortestPaths
  <2>3. Reached \cup {Child(f) : f \in rows} \subseteq Reached \cup {Child(f) : f \in rows'}
    BY <1>1, <1>7
  <2>4. {Child(f) : f \in rows}' = {Child(f) : f \in rows'}
    BY <1>4
  <2>5. RoundUnderWay'
    BY <1>1, <1>2, <1>3, <1>6, <2>1, <2>3, <2>4 DEF RoundUnderWay
  <2> QED BY <1>1, <2>2, <2>5 DEF CompleteInv
<1>8. CASE Child(e) \notin Reached /\ Reach(e)
  <2>1. /\ following' = following \cup {Child(e)} /\ Reached' = Reached \cup {Child(e)}
        /\ \A n \in Reached : paths'[n] = paths[n]
        /\ paths'[Child(e)] = Append(paths[Parent(e)], Child(e))
    BY <1>8 DEF Reach, Reached
  <2>2. /\ Parent(e) \in frontier /\ Child(e) \in Names /\ Follows(Parent(e), Child(e))
        /\ frontier \subseteq Reached /\ paths \in [Reached -> Seq(Names)]
        /\ Len(paths[Parent(e)]) <= round
    BY <1>1, <1>8, EdgeLeads DEF WalkInv, RoundOK, NodesOK
  <2>3. Len(paths'[Child(e)]) <= round + 1
    BY <2>1, <2>2, <1>5, AppendProperties, LenProperties
  <2>4. ASSUME NEW k \in Nat, Child(e) \in Within(k) PROVE Len(paths'[Child(e)]) <= k + 1
    <3>1. CASE k <= round - 1
      BY <1>2, <1>5, <1>8, <2>4, <3>1, WithinGrows DEF RoundUnderWay
    <3>2. CASE round <= k
      <4>1. Len(paths'[Child(e)]) \in Nat
        BY <2>1, <2>2, AppendProperties, LenProperties
      <4> QED BY <1>5, <2>3, <3>2, <4>1
    <3> QED BY <1>5, <3>1, <3>2
  <2>5. ShortestPaths'
    BY <1>2, <1>3, <2>1, <2>4 DEF ShortestPaths
  <2>6. Child(e) \in Within(round)
    <3>1. Within((round - 1) + 1) = Within(round - 1) \cup Neighbours(Within(round - 1))
      BY <1>5, WithinUnfolds
    <3>2. Parent(e) \in Within(round - 1)
      BY <1>2, <2>2 DEF RoundUnderWay
    <3> QED BY <1>5, <2>2, <3>1, <3>2 DEF Neighbours
  <2>7. Reached \cup {Child(f) : f \in rows} \subseteq Reached' \cup {Child(f) : f \in rows'}
    BY <1>1, <2>1
  <2>8. {Child(f) : f \in rows}' = {Child(f) : f \in rows'}
    BY <1>4
  <2>9. RoundUnderWay'
    BY <1>1, <1>2, <1>3, <1>6, <1>8, <2>1, <2>6, <2>7, <2>8 DEF RoundUnderWay
  <2> QED BY <1>1, <2>5, <2>9 DEF CompleteInv
<1> QED BY <1>1, <1>7, <1>8

LEMMA CompleteEndRound == WalkInv /\ CompleteInv /\ EndRound => CompleteInv'
<1> SUFFICES ASSUME WalkInv, CompleteInv, EndRound, ~truncated' PROVE CompleteInv'
  BY DEF CompleteInv
<1>1. /\ UNCHANGED <<arguments, round, paths, edges>> /\ pc = "rows" /\ pc' = "query"
      /\ rows = {} /\ frontier' = following /\ ~truncated
  BY DEF EndRound
<1>2. ShortestPaths /\ RoundUnderWay
  BY <1>1 DEF CompleteInv
<1>3. /\ \A k : Within(k)' = Within(k) /\ Before(k)' = Before(k)
      /\ \A S : EdgesAt(S)' = EdgesAt(S)
  BY <1>1, GraphStands DEF Before
<1>4. ShortestPaths'
  BY <1>1, <1>2, <1>3 DEF ShortestPaths, Reached
<1>5. round # 0 /\ round \in Nat /\ Before(round) = Within(round - 1) /\ Entries \subseteq Names
  BY <1>2 DEF RoundUnderWay, Before, WalkInv, RoundOK, ArgumentsOK
<1>6. Before(round) \subseteq Within(round)
  BY <1>5, BeforeGrows
<1>7. RoundsDone(round)'
  BY <1>1, <1>2, <1>3, <1>5, <1>6 DEF RoundUnderWay, RoundsDone, Reached
<1> QED BY <1>1, <1>4, <1>7 DEF CompleteInv

LEMMA CompleteFinish == WalkInv /\ TypeOK /\ CompleteInv /\ Finish => CompleteInv'
<1> SUFFICES ASSUME WalkInv, TypeOK, CompleteInv, Finish, ~truncated' PROVE CompleteInv'
  BY DEF CompleteInv
<1>1. /\ UNCHANGED <<arguments, round, frontier, paths, edges>> /\ pc = "query" /\ pc' = "done"
      /\ ~truncated /\ (round = depth \/ frontier = {})
  BY DEF Finish
<1>2. ShortestPaths /\ RoundsDone(round)
  BY <1>1 DEF CompleteInv
<1>3. /\ round \in Nat /\ depth \in Nat /\ depth # 0 /\ round <= depth /\ depth - 1 \in Nat
      /\ depth' = depth /\ Entries \subseteq Names
  BY <1>1, LimitsAssumption DEF WalkInv, RoundOK, ArgumentsOK, TypeOK, arguments
<1>4. /\ \A k : Within(k)' = Within(k)
      /\ \A S : EdgesAt(S)' = EdgesAt(S)
  BY <1>1, GraphStands
<1>5. ShortestPaths'
  BY <1>1, <1>2, <1>4 DEF ShortestPaths, Reached
<1>6. Reached = Within(depth) /\ edges = EdgesAt(Within(depth - 1))
  <2>1. CASE round = depth
    BY <1>2, <1>3, <2>1 DEF RoundsDone, Before
  <2>2. CASE frontier = {}
    <3>1. Before(round) = Within(round)
      BY <1>2, <1>3, <2>2, NothingFurther DEF RoundsDone
    <3>2. Within(depth) = Within(round) /\ Within(depth - 1) = Within(round)
      BY <1>3, <3>1, NothingFurther
    <3> QED BY <1>2, <3>1, <3>2 DEF RoundsDone
  <2> QED BY <1>1, <2>1, <2>2
<1> QED BY <1>1, <1>3, <1>4, <1>5, <1>6 DEF CompleteInv, Reached

LEMMA CompleteInvariant == Spec => []CompleteInv
<1>1. WalkInv /\ TypeOK /\ CompleteInv /\ [Next]_vars => CompleteInv'
  <2> SUFFICES ASSUME WalkInv, TypeOK, CompleteInv, [Next]_vars PROVE CompleteInv'
    OBVIOUS
  <2>1. CASE UNCHANGED vars
    <3>1. UNCHANGED <<arguments, pc, round, rows, frontier, following, paths, edges, truncated>>
      BY <2>1 DEF vars
    <3>2. /\ \A k : Within(k)' = Within(k) /\ Before(k)' = Before(k)
          /\ \A S : EdgesAt(S)' = EdgesAt(S)
      BY <3>1, GraphStands DEF Before
    <3>3. \A f : Child(f)' = Child(f)
      BY <3>1 DEF Child
    <3>4. depth' = depth /\ Reached' = Reached
      BY <3>1 DEF arguments, Reached
    <3>5. {Child(f) : f \in rows}' = {Child(f) : f \in rows}
      BY <3>1, <3>3
    <3>6. ShortestPaths' = ShortestPaths
      BY <3>1, <3>2, <3>4 DEF ShortestPaths
    <3>7. RoundsDone(round)' = RoundsDone(round)
      BY <3>1, <3>2, <3>4 DEF RoundsDone
    <3>8. RoundUnderWay' = RoundUnderWay
      BY <3>1, <3>2, <3>4, <3>5 DEF RoundUnderWay
    <3> QED BY <3>1, <3>2, <3>4, <3>6, <3>7, <3>8 DEF CompleteInv
  <2> QED BY <2>1, CompleteQuery, CompleteTakeRow, CompleteEndRound, CompleteFinish DEF Next
<1> QED BY <1>1, CompleteInit, WalkInvariant, TypeCorrect, PTL DEF Spec

\* An answer that does not say it was truncated is complete to its depth, on every
\* graph: each node within reach by a shortest path, and each edge at a node that
\* the walk expanded (context.py:48-76).
THEOREM AnswersAreHonest == Spec => []HonestTruncation
<1>1. TypeOK /\ CompleteInv => HonestTruncation
  <2> SUFFICES ASSUME TypeOK, CompleteInv, pc = "done", ~truncated PROVE HonestTruncation
    BY DEF HonestTruncation
  <2>1. \A k \in 0..depth : k \in Nat
    BY LimitsAssumption DEF TypeOK
  <2> QED BY <2>1 DEF CompleteInv, ShortestPaths, HonestTruncation
<1> QED BY <1>1, CompleteInvariant, TypeCorrect, PTL
=============================================================================
