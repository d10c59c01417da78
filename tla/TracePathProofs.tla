-------------------------- MODULE TracePathProofs --------------------------
(***************************************************************************)
(* What a trace of calls returns, for every graph, start, direction and    *)
(* depth: exactly the simple call paths from the start within the depth.   *)
(***************************************************************************)
EXTENDS TracePath, SequenceTheorems, TLAPS

\* The simple paths of n nodes.
SimplePaths(n) == {p \in Seq(Names) : Len(p) = n /\ IsSimplePath(p)}

ArgumentsOK ==
  /\ calls \in Graphs /\ start \in Names
  /\ direction \in {"callers", "callees"}
  /\ depth \in Nat

\* After k iterations the result holds the simple paths of up to k edges, and
\* the last iteration those of k edges.
AfterIterations(k) ==
  /\ last = SimplePaths(k + 1)
  /\ \A p : p \in walk <=> \E n \in 1..(k + 1) : p \in SimplePaths(n)

\* The inductive invariant.
Progress == ArgumentsOK /\ \E k \in Nat : AfterIterations(k)

-----------------------------------------------------------------------------
\* The first n nodes of a simple path are a simple path.
LEMMA PrefixIsSimple ==
  ASSUME NEW p \in Seq(Names), NEW n \in 1..Len(p), IsSimplePath(p),
         ArgumentsOK
  PROVE  [i \in 1..n |-> p[i]] \in SimplePaths(n)
<1> DEFINE q == [i \in 1..n |-> p[i]]
<1>1. n \in Nat \ {0} /\ Len(p) \in Nat /\ n <= Len(p)
  BY LenProperties
<1>2. \A i \in 1..Len(p) : p[i] \in Names
  BY ElementOfSeq
<1>3. q \in Seq(Names)
  <2>1. \A i \in 1..n : i \in 1..Len(p)
    BY <1>1
  <2>2. q \in [1..n -> Names]
    BY <1>2, <2>1
  <2> QED BY <1>1, <2>2, SeqDef
<1>4. Len(q) = n
  BY <1>1, <1>3, LenProperties
<1>5. DOMAIN q = 1..n /\ DOMAIN p = 1..Len(p)
  BY LenProperties
<1>6. \A i \in 1..n : q[i] = p[i] /\ i \in 1..Len(p)
  BY <1>1
<1>7. IsSimplePath(q)
  <2>1. q # <<>>
    BY <1>1, <1>4, EmptySeq
  <2>2. q[1] = start
    BY <1>1, <1>6 DEF IsSimplePath
  <2>3. Len(q) <= depth + 1
    BY <1>1, <1>4 DEF IsSimplePath, ArgumentsOK
  <2>4. \A i \in 1..(Len(q) - 1) : Joins(q[i], q[i + 1])
    <3> SUFFICES ASSUME NEW i \in 1..(n - 1) PROVE Joins(q[i], q[i + 1])
      BY <1>4
    <3>1. i \in 1..n /\ i + 1 \in 1..n /\ i \in 1..(Len(p) - 1)
      BY <1>1
    <3> QED BY <3>1, <1>6 DEF IsSimplePath
  <2>5. \A i, j \in DOMAIN q : q[i] = q[j] => i = j
    BY <1>5, <1>6 DEF IsSimplePath
  <2> QED BY <2>1, <2>2, <2>3, <2>4, <2>5 DEF IsSimplePath
<1> QED BY <1>3, <1>4, <1>7 DEF SimplePaths

\* A path is extended to each longer simple path that it begins.
LEMMA ExtensionIsSimple ==
  ASSUME NEW p \in Seq(Names), NEW b \in Names, ArgumentsOK,
         IsSimplePath(p), Joins(p[Len(p)], b), ~Has(p, b), Len(p) - 1 < depth
  PROVE  Append(p, b) \in SimplePaths(Len(p) + 1)
<1> DEFINE q == Append(p, b)
<1>1. Len(p) \in Nat /\ Len(p) # 0 /\ DOMAIN p = 1..Len(p)
  BY EmptySeq, LenProperties DEF IsSimplePath
<1>2. /\ q \in Seq(Names) /\ q # <<>> /\ Len(q) = Len(p) + 1
      /\ \A i \in 1..Len(p) : q[i] = p[i]
      /\ q[Len(p) + 1] = b
  BY AppendProperties
<1>3. DOMAIN q = 1..(Len(p) + 1)
  BY <1>2, LenProperties
<1> HIDE DEF q
<1>4. q[1] = start
  BY <1>1, <1>2 DEF IsSimplePath
<1>5. Len(q) <= depth + 1
  BY <1>1, <1>2 DEF ArgumentsOK
<1>6. ASSUME NEW i \in 1..(Len(q) - 1) PROVE Joins(q[i], q[i + 1])
  <2>1. i \in 1..Len(p)
    BY <1>1, <1>2
  <2>2. CASE i = Len(p)
    BY <1>2, <2>1, <2>2
  <2>3. CASE i # Len(p)
    <3>1. \A m \in Nat : \A k \in 1..m : k # m => k \in 1..(m - 1) /\ k + 1 \in 1..m
      OBVIOUS
    <3>2. i \in 1..(Len(p) - 1) /\ i + 1 \in 1..Len(p)
      BY <1>1, <2>1, <2>3, <3>1
    <3> QED BY <1>2, <2>1, <3>2 DEF IsSimplePath
  <2> QED BY <2>2, <2>3
<1>7. ASSUME NEW i \in DOMAIN q, NEW j \in DOMAIN q, q[i] = q[j] PROVE i = j
  <2>1. \A k \in 1..Len(p) : q[k] # b
    BY <1>1, <1>2 DEF Has
  <2>2. CASE i \in 1..Len(p) /\ j \in 1..Len(p)
    BY <1>1, <1>2, <1>7, <2>2 DEF IsSimplePath
  <2>3. CASE i = Len(p) + 1 \/ j = Len(p) + 1
    BY <1>1, <1>2, <1>3, <1>7, <2>1, <2>3
  <2> QED BY <1>1, <1>3, <2>2, <2>3
<1>8. IsSimplePath(q)
  BY <1>2, <1>4, <1>5, <1>6, <1>7 DEF IsSimplePath
<1> QED BY <1>2, <1>8 DEF SimplePaths, q

\* Each simple path of more than one node extends a shorter one.
LEMMA SimpleIsExtension ==
  ASSUME NEW n \in Nat \ {0}, NEW q \in SimplePaths(n + 1), ArgumentsOK
  PROVE  \E p \in SimplePaths(n) :
           /\ Len(p) - 1 < depth
           /\ \E b \in Names : Joins(p[Len(p)], b) /\ ~Has(p, b) /\ q = Append(p, b)
<1> DEFINE p == [i \in 1..n |-> q[i]]
<1>1. q \in Seq(Names) /\ Len(q) = n + 1 /\ IsSimplePath(q)
  BY DEF SimplePaths
<1>2. DOMAIN q = 1..(n + 1) /\ \A i \in 1..(n + 1) : q[i] \in Names
  BY <1>1, LenProperties, ElementOfSeq
<1>3. p \in SimplePaths(n)
  <2>1. n \in 1..Len(q)
    BY <1>1
  <2> QED BY <1>1, <2>1, PrefixIsSimple
<1>4. p \in Seq(Names) /\ Len(p) = n /\ DOMAIN p = 1..n
  BY <1>3, LenProperties DEF SimplePaths
<1>5. \A i \in 1..n : p[i] = q[i]
  OBVIOUS
<1> HIDE DEF p
<1>6. Len(p) - 1 < depth
  BY <1>1, <1>4 DEF IsSimplePath, ArgumentsOK
<1>7. q[n + 1] \in Names
  BY <1>2
<1>8. Joins(p[Len(p)], q[n + 1])
  <2>1. n \in 1..(Len(q) - 1) /\ n \in 1..n
    BY <1>1
  <2>2. Joins(q[n], q[n + 1])
    BY <1>1, <2>1 DEF IsSimplePath
  <2> QED BY <1>4, <1>5, <2>1, <2>2
<1>9. ~Has(p, q[n + 1])
  <2> SUFFICES ASSUME NEW i \in 1..n, q[i] = q[n + 1] PROVE FALSE
    BY <1>4, <1>5 DEF Has
  <2>1. i \in DOMAIN q /\ n + 1 \in DOMAIN q
    BY <1>2
  <2>2. i = n + 1
    BY <1>1, <2>1 DEF IsSimplePath
  <2> QED BY <2>2
<1>10. q = Append(p, q[n + 1])
  <2> DEFINE r == Append(p, q[n + 1])
  <2>1. /\ r \in Seq(Names) /\ Len(r) = n + 1
        /\ \A i \in 1..n : r[i] = p[i]
        /\ r[n + 1] = q[n + 1]
    BY <1>4, <1>7, AppendProperties
  <2>2. \A i \in 1..(n + 1) : r[i] = q[i]
    BY <1>5, <2>1
  <2> HIDE DEF r
  <2>3. r = q
    BY <1>1, <2>1, <2>2, SeqEqual
  <2> QED BY <2>3 DEF r
<1> QED BY <1>3, <1>6, <1>7, <1>8, <1>9, <1>10

-----------------------------------------------------------------------------
LEMMA ProgressInit == Init => Progress
<1> SUFFICES ASSUME Init PROVE Progress
  OBVIOUS
<1>1. ArgumentsOK
  BY DepthAssumption DEF Init, ArgumentsOK
<1>2. SimplePaths(1) = {<<start>>}
  <2>1. <<start>> \in SimplePaths(1)
    BY <1>1 DEF SimplePaths, IsSimplePath, ArgumentsOK
  <2>2. ASSUME NEW p \in SimplePaths(1) PROVE p = <<start>>
    <3>1. p \in Seq(Names) /\ Len(p) = 1 /\ p[1] = start
      BY DEF SimplePaths, IsSimplePath
    <3> QED BY <3>1, <1>1, SeqEqual DEF ArgumentsOK
  <2> QED BY <2>1, <2>2
<1>3. AfterIterations(0)
  BY <1>2 DEF Init, AfterIterations
<1> QED BY <1>1, <1>3 DEF Progress

\* An iteration finds the simple paths that have one node more.
LEMMA ExtensionsAreNext ==
  ASSUME NEW k \in Nat, ArgumentsOK, last = SimplePaths(k + 1)
  PROVE  Extensions = SimplePaths(k + 2)
<1>1. ASSUME NEW q \in Extensions PROVE q \in SimplePaths(k + 2)
  <2>1. PICK p \in last, b \in Names :
          /\ Len(p) - 1 < depth /\ Joins(p[Len(p)], b) /\ ~Has(p, b)
          /\ q = Append(p, b)
    BY <1>1 DEF Extensions
  <2>2. p \in Seq(Names) /\ IsSimplePath(p) /\ Len(p) = k + 1
    BY <2>1 DEF SimplePaths
  <2>3. q \in SimplePaths(Len(p) + 1)
    BY <2>1, <2>2, ExtensionIsSimple
  <2> QED BY <2>2, <2>3
<1>2. ASSUME NEW q \in SimplePaths(k + 2) PROVE q \in Extensions
  <2>1. k + 1 \in Nat \ {0} /\ (k + 1) + 1 = k + 2
    OBVIOUS
  <2>2. PICK p \in SimplePaths(k + 1) :
          /\ Len(p) - 1 < depth
          /\ \E b \in Names : Joins(p[Len(p)], b) /\ ~Has(p, b) /\ q = Append(p, b)
    BY <2>1, SimpleIsExtension
  <2> QED BY <2>2 DEF Extensions
<1> QED BY <1>1, <1>2

LEMMA ProgressStep == Progress /\ [Next]_vars => Progress'
<1> SUFFICES ASSUME Progress, [Next]_vars PROVE Progress'
  OBVIOUS
<1>1. PICK k \in Nat : AfterIterations(k)
  BY DEF Progress
<1>2. ArgumentsOK
  BY DEF Progress
<1>3. CASE UNCHANGED vars
  <2>1. UNCHANGED <<calls, start, direction, depth, walk, last>>
    BY <1>3 DEF vars, arguments
  <2>2. \A n : SimplePaths(n)' = SimplePaths(n)
    BY <2>1 DEF SimplePaths, IsSimplePath, Joins
  <2>3. AfterIterations(k)' /\ ArgumentsOK'
    BY <1>1, <1>2, <2>1, <2>2 DEF AfterIterations, ArgumentsOK
  <2> QED BY <2>3 DEF Progress
<1>4. CASE Next
  <2>1. UNCHANGED <<calls, start, direction, depth>>
    BY <1>4 DEF Next, Iterate, arguments
  <2>2. ArgumentsOK'
    BY <1>2, <2>1 DEF ArgumentsOK
  <2>3. \A n : SimplePaths(n)' = SimplePaths(n)
    BY <2>1 DEF SimplePaths, IsSimplePath, Joins
  <2>4. last' = SimplePaths(k + 2)
    BY <1>1, <1>2, <1>4, ExtensionsAreNext DEF Next, Iterate, AfterIterations
  <2>5. \A p : p \in walk' <=> \E n \in 1..(k + 2) : p \in SimplePaths(n)
    <3>1. walk' = walk \cup SimplePaths(k + 2)
      BY <1>4, <2>4 DEF Next, Iterate
    <3>2. \A n : n \in 1..(k + 2) <=> n \in 1..(k + 1) \/ n = k + 2
      OBVIOUS
    <3> QED BY <1>1, <3>1, <3>2 DEF AfterIterations
  <2>6. k + 1 \in Nat /\ (k + 1) + 1 = k + 2
    OBVIOUS
  <2>7. AfterIterations(k + 1)'
    BY <2>3, <2>4, <2>5, <2>6 DEF AfterIterations
  <2> QED BY <2>2, <2>6, <2>7 DEF Progress
<1> QED BY <1>3, <1>4

\* Each iteration completes the simple paths of one length more.
THEOREM IterationsProgress == Spec => []Progress
<1> QED BY ProgressInit, ProgressStep, PTL DEF Spec

\* The depth cap and the cycle guard do what INV-2 asks of them (traverse.py:25-26).
THEOREM RowsSimple == Spec => []RowsAreSimplePaths
<1>1. Progress => RowsAreSimplePaths
  BY DEF Progress, AfterIterations, SimplePaths, RowsAreSimplePaths
<1> QED BY <1>1, IterationsProgress, PTL

\* They cost no answer: the finished query has every simple path within depth.
THEOREM FindsEverything == Spec => []FindsEverySimplePath
<1>1. Progress => FindsEverySimplePath
  <2> SUFFICES ASSUME Progress, last = {}, NEW n \in 1..(depth + 1),
                      NEW p \in Sequences(n), IsSimplePath(p)
               PROVE  p \in walk
    BY DEF FindsEverySimplePath
  <2>1. PICK k \in Nat : AfterIterations(k)
    BY DEF Progress
  <2>2. n \in Nat \ {0} /\ ArgumentsOK
    BY DEF Progress, ArgumentsOK
  <2>3. p \in Seq(Names) /\ Len(p) = n
    BY <2>2, SeqDef, LenProperties DEF Sequences
  <2>4. n <= k + 1
    <3> SUFFICES ASSUME k + 1 < n PROVE FALSE
      BY <2>2
    <3>1. k + 1 \in 1..Len(p)
      BY <2>2, <2>3
    <3>2. [i \in 1..(k + 1) |-> p[i]] \in SimplePaths(k + 1)
      BY <2>2, <2>3, <3>1, PrefixIsSimple
    <3> QED BY <2>1, <3>2 DEF AfterIterations
  <2> QED BY <2>1, <2>2, <2>3, <2>4 DEF AfterIterations, SimplePaths
<1> QED BY <1>1, IterationsProgress, PTL
=============================================================================
