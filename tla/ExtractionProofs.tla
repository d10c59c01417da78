-------------------------- MODULE ExtractionProofs --------------------------
(***************************************************************************)
(* For every set of files and of helper processes: no process of a         *)
(* CodeGraph command outlives its clean-up, whatever forks, ignores        *)
(* signals or holds the pipes; the symbols of a snapshot keep distinct     *)
(* identities, and each resolved call is evidence once or quarantined; and *)
(* the parser's two name searches agree with Python's scoping, but for the *)
(* cases that the properties except.                                       *)
(***************************************************************************)
EXTENDS Extraction, FiniteSetTheorems, Recursion, TLAPS

\* From the kill on, until the next command, nothing of the group is left.
Gone == {"parse", "start", "reap", "read", "prepare", "prepared", "raised"}

ProcessInv ==
  /\ pipes \subseteq live /\ live \subseteq started /\ started \subseteq Processes
  /\ pc \in Gone => live = {}

LEMMA InitProcess == Init => ProcessInv
BY DEF Init, ProcessInv

LEMMA NextProcess == ProcessInv /\ [Next]_vars => ProcessInv'
<1> SUFFICES ASSUME ProcessInv, [Next]_vars PROVE ProcessInv'
  OBVIOUS
<1> USE DEF ProcessInv, Gone
<1>1. CASE ParseFile
  BY <1>1 DEF ParseFile, process
<1>2. CASE Start
  BY <1>2 DEF Start, Launches, Fails, process, Processes
<1>3. CASE Poll
  BY <1>3 DEF Poll, process
<1>4. CASE Wait
  BY <1>4 DEF Wait, process
<1>5. CASE Terminate
  BY <1>5 DEF Terminate, process
<1>6. CASE Grace
  BY <1>6 DEF Grace, process
<1>7. CASE Kill
  BY <1>7 DEF Kill
<1>8. CASE Reap
  BY <1>8 DEF Reap, Fails, process
<1>9. CASE ReadSnapshot
  BY <1>9 DEF ReadSnapshot, process
<1>10. CASE Prepare
  BY <1>10 DEF Prepare, process
<1>11. CASE Cancel \/ Deadline
  BY <1>11 DEF Cancel, Deadline, process
<1>12. CASE \E h \in Helpers : Forks(h)
  <2>1. PICK h \in Helpers : Forks(h)
    BY <1>12
  <2>2. live # {} /\ live' = live \cup {h} /\ started' = started \cup {h} /\ pc' = pc
    BY <2>1 DEF Forks
  <2>3. pipes' \subseteq pipes \cup {h}
    BY <2>1 DEF Forks
  <2> QED BY <2>2, <2>3 DEF Processes
<1>13. CASE \E p \in live : Exits(p)
  BY <1>13 DEF Exits
<1>14. CASE UNCHANGED vars
  BY <1>14 DEF vars, process
<1> QED BY <1>1, <1>2, <1>3, <1>4, <1>5, <1>6, <1>7, <1>8, <1>9, <1>10, <1>11, <1>12, <1>13,
     <1>14
        DEF Next, Caught

\* No process of a command is left when the next command starts, when the
\* database is read or when the job has failed (codegraph_import.py:143-158).
THEOREM GroupIsGone == Spec => []NoSurvivors
<1>1. ProcessInv => NoSurvivors
  BY DEF ProcessInv, NoSurvivors, Gone
<1> QED BY <1>1, InitProcess, NextProcess, PTL DEF Spec

-----------------------------------------------------------------------------
FileInv ==
  /\ \A i \in DOMAIN tree : i \in Nat \ {0}
  /\ source = "codegraph" /\ Prepared => graph.identity = [i \in Ids |-> Identity(i)]
  /\ pc = "parse" => source = "native"

LEMMA InitFile == Init => FileInv
<1> SUFFICES ASSUME Init PROVE FileInv
  OBVIOUS
<1>1. tree \in NativeFiles \cup CodegraphFiles /\ ~Prepared
  BY DEF Init, Prepared
<1> QED BY <1>1, FilesAssumption DEF Init, FileInv

LEMMA NextFile == FileInv /\ [Next]_vars => FileInv'
<1> SUFFICES ASSUME FileInv, [Next]_vars PROVE FileInv'
  OBVIOUS
<1>1. tree' = tree /\ source' = source
  BY DEF Next, Caught, ParseFile, Start, Poll, Wait, Terminate, Grace, Kill, Reap, ReadSnapshot,
       Prepare,
         Cancel, Deadline, Forks, Exits, vars
<1>2. Ids' = Ids /\ \A i : Identity(i)' = Identity(i)
  <2>1. Ids' = Ids
    BY <1>1 DEF Ids
  <2>2. \A i : Path(i)' = Path(i)
    BY <1>1 DEF Path
  <2>3. \A i : Representative(i)' <=> Representative(i)
    BY <2>1, <2>2 DEF Representative
  <2> QED BY <2>1, <2>2, <2>3 DEF Identity
<1>3. pc' = "parse" => pc = "parse"
  BY DEF Next, Caught, ParseFile, Start, Poll, Wait, Terminate, Grace, Kill, Reap, ReadSnapshot,
       Prepare,
         Cancel, Deadline, Forks, Exits, vars, Fails
<1>4. CASE Prepare
  <2>1. graph'.identity = [i \in Ids |-> Identity(i)]
    BY <1>4 DEF Prepare
  <2> QED BY <1>1, <1>2, <1>3, <2>1 DEF FileInv
<1>5. CASE ParseFile
  BY <1>1, <1>3, <1>5 DEF FileInv, ParseFile
<1>6. CASE ~Prepare /\ ~ParseFile
  <2>1. graph' = graph /\ (Prepared' => Prepared)
    BY <1>6 DEF Next, Caught, Start, Poll, Wait, Terminate, Grace, Kill, Reap, ReadSnapshot,
                Cancel, Deadline, Forks, Exits, vars, Fails, Prepared
  <2> QED BY <1>1, <1>2, <1>3, <2>1 DEF FileInv
<1> QED BY <1>4, <1>5, <1>6

\* Definitions of the same name keep identities of their own, and the last has
\* the name (codegraph_import.py:100-106).
THEOREM IdentitiesUnique == Spec => []IdentitiesAreUnique
<1>1. FileInv => IdentitiesAreUnique
  <2> SUFFICES ASSUME FileInv, source = "codegraph", Prepared, NEW i \in Ids, NEW j \in Ids
               PROVE /\ graph.identity[i] = graph.identity[j] => i = j
                     /\ i < j /\ Path(i) = Path(j) => graph.identity[i] # <<"name", Path(i)>>
    BY DEF IdentitiesAreUnique
  <2>1. i \in Nat /\ j \in Nat
    BY DEF FileInv, Ids, Of
  <2>2. graph.identity[i] = Identity(i) /\ graph.identity[j] = Identity(j)
    BY DEF FileInv
  <2>3. \A x \in Ids : Identity(x) = IF Representative(x) THEN <<"name", Path(x)>> ELSE <<"id", x>>
    BY DEF Identity
  <2>4. ASSUME Identity(i) = Identity(j) PROVE i = j
    <3>1. CASE Representative(i) /\ Representative(j)
      <4>1. Path(i) = Path(j)
        BY <2>3, <2>4, <3>1
      <4>2. j <= i /\ i <= j
        BY <3>1, <4>1 DEF Representative
      <4> QED BY <2>1, <4>2
    <3>2. CASE ~Representative(i) /\ ~Representative(j)
      BY <2>3, <2>4, <3>2
    <3>3. CASE Representative(i) /\ ~Representative(j)
      BY <2>3, <2>4, <3>3
    <3>4. CASE ~Representative(i) /\ Representative(j)
      BY <2>3, <2>4, <3>4
    <3> QED BY <3>1, <3>2, <3>3, <3>4
  <2>5. ASSUME i < j, Path(i) = Path(j) PROVE Identity(i) # <<"name", Path(i)>>
    <3>1. ~Representative(i)
      BY <2>1, <2>5 DEF Representative
    <3> QED BY <2>3, <3>1
  <2> QED BY <2>2, <2>4, <2>5
<1> QED BY <1>1, InitFile, NextFile, PTL DEF Spec

-----------------------------------------------------------------------------
(* Syntax trees.                                                           *)

LEMMA GreatestIsMax ==
  ASSUME NEW n \in Nat, NEW S, S \subseteq 0..n, S # {}
  PROVE  Max(S) \in S /\ \A k \in S : k <= Max(S)
<1>1. PICK m \in S : \A k \in S : k <= m
  BY GreatestNumber
<1>2. \A k \in S : m >= k
  BY <1>1
<1>3. Max(S) \in S /\ \A k \in S : Max(S) >= k
  BY <1>2 DEF Max
<1> QED BY <1>3

\* The nodes from each node up to the module, which Around takes its nodes from.
Lineage(t) ==
  LET around[j \in 0..Len(t)] == IF j = 0 THEN {} ELSE around[t[j].up] \cup {j}
  IN around

LEMMA AroundIsLineage == \A t, i, K : Around(t, i, K) = Lineage(t)[Outer(t, i)] \cap Of(t, K)
BY DEF Around, Lineage

LEMMA LineageUnfolds ==
  ASSUME NEW t, WellFormed(t)
  PROVE  Lineage(t) = [j \in 0..Len(t) |-> IF j = 0 THEN {} ELSE Lineage(t)[t[j].up] \cup {j}]
<1> DEFINE N == Len(t)
           V == SUBSET (0..N)
           Up(j) == t[j].up
           step == [p \in (0..N) \X [0..N -> V] |-> IF p[1] = 0 THEN {} ELSE p[2][Up(p[1])] \cup {p[1]}]
           around[j \in 0..N] == IF j = 0 THEN {} ELSE around[t[j].up] \cup {j}
<1>1. N \in Nat /\ \A j \in 1..N : Up(j) \in 0..N /\ Up(j) < j
  BY DEF WellFormed
<1>2. Lineage(t) = around
  BY DEF Lineage
<1>3. \A j : Up(j) = t[j].up
  OBVIOUS
<1> HIDE DEF N, Up, around
<1>4. \A i \in 0..N, f \in [0..N -> V] : step[<<i, f>>] = IF i = 0 THEN {} ELSE f[Up(i)] \cup {i}
  OBVIOUS
<1>5. step \in [(0..N) \X [0..N -> V] -> V]
  <2> SUFFICES ASSUME NEW i \in 0..N, NEW f \in [0..N -> V]
               PROVE  (IF i = 0 THEN {} ELSE f[Up(i)] \cup {i}) \in V
    OBVIOUS
  <2>1. CASE i # 0
    <3>1. Up(i) \in 0..N
      BY <1>1, <2>1
    <3>2. f[Up(i)] \in V
      BY <3>1
    <3> QED BY <2>1, <3>2
  <2> QED BY <2>1
<1> HIDE DEF step
<1>6. LooksBack(step, N, V)
  <2> SUFFICES ASSUME NEW i \in 0..N, NEW f \in [0..N -> V], NEW g \in [0..N -> V],
                      \A k \in 0..N : k < i => f[k] = g[k]
               PROVE  step[<<i, f>>] = step[<<i, g>>]
    BY DEF LooksBack
  <2>1. i # 0 => f[Up(i)] = g[Up(i)]
    BY <1>1
  <2> HIDE DEF V
  <2> QED BY <1>4, <2>1
<1>7. PICK f \in [0..N -> V] : RecursBack(f, step, N)
  <2>1. {} \in V
    OBVIOUS
  <2> HIDE DEF V
  <2> QED BY <1>1, <1>5, <1>6, <2>1, CourseOfValues
<1>8. f = [j \in 0..N |-> IF j = 0 THEN {} ELSE f[t[j].up] \cup {j}]
  <2>1. \A j \in 0..N : f[j] = IF j = 0 THEN {} ELSE f[t[j].up] \cup {j}
    BY <1>3, <1>4, <1>7 DEF RecursBack
  <2> HIDE DEF V
  <2> QED BY <1>7, <2>1
<1>9. around = [j \in 0..N |-> IF j = 0 THEN {} ELSE around[t[j].up] \cup {j}]
  BY <1>8 DEF around
<1> QED BY <1>2, <1>9 DEF N

Line(t, j) == Lineage(t)[j]

LEMMA LineUnfolds ==
  ASSUME NEW t, WellFormed(t)
  PROVE  Line(t, 0) = {} /\ \A j \in 1..Len(t) : Line(t, j) = Line(t, t[j].up) \cup {j}
<1> DEFINE N == Len(t)
           L == Lineage(t)
           G == [j \in 0..N |-> IF j = 0 THEN {} ELSE L[t[j].up] \cup {j}]
<1>1. L = G
  BY LineageUnfolds
<1>2. N \in Nat
  BY DEF WellFormed
<1> HIDE DEF N, L
<1>3. G[0] = {} /\ \A j \in 1..N : G[j] = L[t[j].up] \cup {j}
  BY <1>2
<1> HIDE DEF G
<1>4. L[0] = {} /\ \A j \in 1..N : L[j] = L[t[j].up] \cup {j}
  BY <1>1, <1>3
<1> QED BY <1>4 DEF Line, L, N

\* A node's line ends at it, and contains the lines of its members.
LEMMA LineIsInitial ==
  ASSUME NEW t, WellFormed(t), NEW j \in 0..Len(t)
  PROVE  /\ Line(t, j) \subseteq 1..j
         /\ j # 0 => j \in Line(t, j)
         /\ \A s \in Line(t, j) : Line(t, s) = Line(t, j) \cap (1..s)
<1> DEFINE N == Len(t)
           L(i) == Line(t, i)
           Initial(i) == /\ L(i) \subseteq 1..i
                         /\ \A s \in L(i) : L(s) = L(i) \cap (1..s)
           S == {i \in Nat : i \in 0..N => Initial(i)}
<1>1. N \in Nat /\ \A i \in 1..N : t[i].up \in 0..(i - 1)
  BY DEF WellFormed
<1>2. L(0) = {} /\ \A i \in 1..N : L(i) = L(t[i].up) \cup {i}
  BY LineUnfolds
<1> HIDE DEF L, N
<1>3. ASSUME NEW i \in Nat, \A k \in 0..(i - 1) : k \in S PROVE i \in S
  <2> SUFFICES ASSUME i \in 0..N PROVE Initial(i)
    OBVIOUS
  <2>1. CASE i = 0
    BY <1>2, <2>1
  <2>2. CASE i # 0
    <3> DEFINE u == t[i].up
    <3>1. u \in Nat /\ u < i /\ u \in 0..(i - 1) /\ u \in 0..N /\ i \in 1..N
      BY <1>1, <2>2
    <3>2. L(i) = L(u) \cup {i}
      BY <1>2, <3>1
    <3> HIDE DEF u
    <3>3. Initial(u)
      BY <1>3, <3>1
    <3>4. L(i) \subseteq 1..i
      BY <3>1, <3>2, <3>3
    <3>5. ASSUME NEW s \in L(u) PROVE L(s) = L(i) \cap (1..s)
      <4>1. s \in 1..u /\ i \notin 1..s /\ L(s) = L(u) \cap (1..s)
        BY <3>1, <3>3
      <4> QED BY <3>2, <4>1
    <3>6. L(i) = L(i) \cap (1..i)
      BY <3>4
    <3> QED BY <3>2, <3>4, <3>5, <3>6
  <2> QED BY <2>1, <2>2
<1>4. S \subseteq Nat
  OBVIOUS
<1>5. Nat \subseteq S
  <2> HIDE DEF S
  <2> QED BY <1>3, <1>4, StrongInductionSet
<1>6. j \in Nat /\ Initial(j)
  BY <1>1, <1>5 DEF N
<1>7. j # 0 => j \in L(j)
  <2>1. j # 0 => j \in 1..N
    BY <1>1 DEF N
  <2> QED BY <1>2, <2>1
<1> QED BY <1>6, <1>7 DEF L
LEMMA OuterPrecedes ==
  ASSUME NEW t, WellFormed(t), NEW i \in DOMAIN t
  PROVE  /\ Len(t) \in Nat /\ i \in 1..Len(t)
         /\ Outer(t, i) \in 0..(i - 1) /\ Outer(t, i) \in 0..Len(t)
         /\ t[i].kind # "header" => Outer(t, i) = t[i].up
<1>1. /\ Len(t) \in Nat /\ i \in 1..Len(t) /\ DOMAIN t = 1..Len(t)
      /\ \A j \in 1..Len(t) : t[j].up \in 0..(j - 1)
  BY DEF WellFormed
<1>2. CASE t[i].kind # "header"
  BY <1>1, <1>2 DEF Outer
<1>3. CASE t[i].kind = "header"
  <2>1. t[i].up # 0
    <3>1. "module" \notin Parents("header")
      BY DEF Parents, Statements
    <3> QED BY <1>3, <3>1 DEF WellFormed
  <2>2. t[i].up \in 1..Len(t) /\ t[i].up < i
    BY <1>1, <2>1
  <2>3. t[t[i].up].up \in 0..(t[i].up - 1)
    BY <1>1, <2>2
  <2>4. t[t[i].up].up \in 0..(i - 1) /\ t[t[i].up].up \in 0..Len(t)
    BY <1>1, <2>2, <2>3
  <2> QED BY <1>1, <1>3, <2>4 DEF Outer
<1> QED BY <1>2, <1>3

\* The nodes around a node come before it; those around a node among them are
\* the earlier ones.
LEMMA AroundNests ==
  ASSUME NEW t, WellFormed(t), NEW i \in DOMAIN t
  PROVE  /\ \A K : Around(t, i, K) \subseteq 1..(i - 1) /\ Around(t, i, K) \subseteq Of(t, K)
         /\ \A K, J : Around(t, i, K) \cap Of(t, J) \subseteq Around(t, i, J)
         /\ \A K, J : \A s \in Around(t, i, K) :
              t[s].kind # "header" => Around(t, s, J) = {r \in Around(t, i, J) : r < s}
<1> DEFINE o == Outer(t, i)
<1>1. Len(t) \in Nat /\ i \in 1..Len(t) /\ o \in 0..(i - 1) /\ o \in 0..Len(t)
  BY OuterPrecedes
<1>2. \A j, K : Around(t, j, K) = Line(t, Outer(t, j)) \cap Of(t, K)
  BY AroundIsLineage DEF Line
<1>3. Line(t, o) \subseteq 1..o /\ \A s \in Line(t, o) : Line(t, s) = Line(t, o) \cap (1..s)
  BY <1>1, LineIsInitial
<1>4. ASSUME NEW K PROVE Around(t, i, K) \subseteq 1..(i - 1) /\ Around(t, i, K) \subseteq Of(t, K)
  <2>1. 1..o \subseteq 1..(i - 1)
    BY <1>1
  <2> QED BY <1>2, <1>3, <2>1
<1>5. ASSUME NEW K, NEW J PROVE Around(t, i, K) \cap Of(t, J) \subseteq Around(t, i, J)
  BY <1>2
<1>6. ASSUME NEW K, NEW J, NEW s \in Around(t, i, K), t[s].kind # "header"
      PROVE  Around(t, s, J) = {r \in Around(t, i, J) : r < s}
  <2>1. s \in Line(t, o) /\ s \in DOMAIN t
    BY <1>2 DEF Of
  <2>2. Outer(t, s) = t[s].up /\ s \in 1..Len(t) /\ Outer(t, s) \in 0..(s - 1) /\ Outer(t, s) \in 0..Len(t)
    BY <1>6, <2>1, OuterPrecedes
  <2>3. Line(t, s) = Line(t, t[s].up) \cup {s}
    BY <2>2, LineUnfolds
  <2>4. Line(t, Outer(t, s)) \subseteq 1..Outer(t, s)
    BY <2>2, LineIsInitial
  <2>5. Line(t, t[s].up) = Line(t, s) \ {s}
    <3>1. s \notin 1..Outer(t, s)
      BY <2>2
    <3> QED BY <2>2, <2>3, <2>4, <3>1
  <2>6. Line(t, s) = Line(t, o) \cap (1..s)
    BY <1>3, <2>1
  <2>7. \A r \in Line(t, o) : r \in 1..s /\ r # s <=> r < s
    BY <1>1, <1>3, <2>2
  <2>8. Line(t, t[s].up) = {r \in Line(t, o) : r < s}
    BY <2>5, <2>6, <2>7
  <2> QED BY <1>2, <2>2, <2>8
<1> QED BY <1>4, <1>5, <1>6

\* Inner is the last of the nodes around, or the module.
LEMMA InnerIsLast ==
  ASSUME NEW t, WellFormed(t), NEW i \in DOMAIN t, NEW K
  PROVE  /\ Inner(t, i, K) \in Around(t, i, K) \cup {0}
         /\ \A s \in Around(t, i, K) : s <= Inner(t, i, K)
         /\ Inner(t, i, K) \in 0..(i - 1)
<1> DEFINE S == Around(t, i, K) \cup {0}
<1>1. i \in 1..Len(t) /\ Len(t) \in Nat /\ Around(t, i, K) \subseteq 1..(i - 1)
  BY OuterPrecedes, AroundNests
<1>2. i - 1 \in Nat /\ S \subseteq 0..(i - 1) /\ S # {}
  BY <1>1
<1>3. Max(S) \in S /\ \A k \in S : k <= Max(S)
  BY <1>2, GreatestIsMax
<1> QED BY <1>2, <1>3 DEF Inner

-----------------------------------------------------------------------------
(* Shadowed parameters.                                                    *)

\* A parameter is one of a def or lambda, which is the scope it belongs to.
LEMMA ParameterScope ==
  ASSUME NEW t, WellFormed(t), NEW j \in DOMAIN t, t[j].kind = "param"
  PROVE  LET s == t[j].up IN
         s \in DOMAIN t /\ t[s].kind \in {"def", "lambda"} /\ Inner(t, j, Scopes) = s
<1> DEFINE s == t[j].up
<1>1. /\ s \in 0..(j - 1) /\ (IF s = 0 THEN "module" ELSE t[s].kind) \in Parents("param")
      /\ j \in 1..Len(t) /\ Len(t) \in Nat /\ DOMAIN t = 1..Len(t)
  BY DEF WellFormed
<1>2. Parents("param") = {"def", "lambda"}
  BY DEF Parents, Statements
<1> HIDE DEF s
<1>3. s # 0 /\ s \in 1..Len(t) /\ t[s].kind \in {"def", "lambda"}
  <2>1. s # 0
    BY <1>1, <1>2
  <2>2. s \in 1..Len(t)
    BY <1>1, <2>1
  <2> QED BY <1>1, <1>2, <2>1, <2>2
<1>4. Outer(t, j) = s /\ s \in 0..Len(t)
  BY <1>3, OuterPrecedes DEF s
<1>5. Around(t, j, Scopes) = Line(t, s) \cap Of(t, Scopes)
  BY <1>4, AroundIsLineage DEF Line
<1>6. s \in Line(t, s) /\ Line(t, s) \subseteq 1..s
  BY <1>3, <1>4, LineIsInitial
<1>7. s \in Around(t, j, Scopes) /\ Around(t, j, Scopes) \subseteq 1..s
  BY <1>1, <1>3, <1>5, <1>6 DEF Of, Scopes
<1>8. Inner(t, j, Scopes) \in Around(t, j, Scopes) \cup {0} /\ s <= Inner(t, j, Scopes)
  BY <1>7, InnerIsLast
<1> QED BY <1>1, <1>3, <1>7, <1>8 DEF s

LEMMA ParameterBinds ==
  ASSUME NEW t, WellFormed(t), NEW s, NEW name, Parameter(t, s, name)
  PROVE  s \in DOMAIN t /\ t[s].kind \in {"def", "lambda"} /\ Bound(t, s, name)
<1>1. PICK j \in DOMAIN t : t[j].kind = "param" /\ t[j].name = name /\ t[j].up = s
  BY DEF Parameter, Of
<1>2. s \in DOMAIN t /\ t[s].kind \in {"def", "lambda"} /\ Inner(t, j, Scopes) = s
  BY <1>1, ParameterScope
<1> QED BY <1>1, <1>2 DEF Bound, Of, Binders

\* A comprehension binds its targets.
LEMMA TargetBinds ==
  ASSUME NEW t, WellFormed(t), NEW s \in DOMAIN t, NEW i, Masked(t, i, s)
  PROVE  Bound(t, s, t[i].name)
<1>1. PICK j \in DOMAIN t : t[j].kind = "target" /\ t[j].name = t[i].name /\ t[j].up = s
  BY DEF Masked, Of
<1>2. Outer(t, j) = s /\ s \in 0..Len(t) /\ s \in 1..Len(t) /\ t[s].kind \in Comprehensions
  BY <1>1, OuterPrecedes DEF Masked
<1>3. Around(t, j, Scopes) = Line(t, s) \cap Of(t, Scopes)
  BY <1>2, AroundIsLineage DEF Line
<1>4. s \in Line(t, s) /\ Line(t, s) \subseteq 1..s
  BY <1>2, LineIsInitial
<1>5. s \in Around(t, j, Scopes) /\ Around(t, j, Scopes) \subseteq 1..s
  BY <1>2, <1>3, <1>4 DEF Of, Scopes, Comprehensions
<1>6. Inner(t, j, Scopes) \in Around(t, j, Scopes) \cup {0} /\ s <= Inner(t, j, Scopes)
  BY <1>1, <1>5, InnerIsLast
<1>7. Inner(t, j, Scopes) = s
  BY <1>2, <1>5, <1>6
<1> QED BY <1>1, <1>7 DEF Bound, Of, Binders

\* The scopes around a call: those Python looks in, and those it passes over.
LEMMA ScopesAround ==
  ASSUME NEW t, WellFormed(t), NEW i \in DOMAIN t
  PROVE  /\ Around(t, i, Scopes) = Around(t, i, Functions) \cup Around(t, i, {"class"})
         /\ Around(t, i, Functions) \cap Around(t, i, {"class"}) = {}
         /\ Around(t, i, Scopes) \subseteq 1..(i - 1) /\ Around(t, i, Scopes) \subseteq DOMAIN t
         /\ \A s \in Around(t, i, Scopes) :
              /\ s \in Nat \ {0} /\ t[s].kind \in Scopes
              /\ s \in Around(t, i, Functions) <=> t[s].kind \in Functions
              /\ Around(t, s, Functions) = {r \in Around(t, i, Functions) : r < s}
         /\ Inner(t, i, Scopes) \in Around(t, i, Scopes) \cup {0}
         /\ \A s \in Around(t, i, Scopes) : s <= Inner(t, i, Scopes)
<1>1. /\ \A K : Around(t, i, K) \subseteq 1..(i - 1) /\ Around(t, i, K) \subseteq Of(t, K)
      /\ \A K, J : Around(t, i, K) \cap Of(t, J) \subseteq Around(t, i, J)
  BY AroundNests
<1>2. Scopes = Functions \cup {"class"} /\ Functions = {"def", "lambda", "genexpr", "listcomp"}
  BY DEF Scopes, Functions
<1>3. \A s \in Around(t, i, Scopes) : t[s].kind \in Scopes /\ s \in DOMAIN t
  BY <1>1 DEF Of
<1>4. Around(t, i, Functions) \subseteq Around(t, i, Scopes) /\ Around(t, i, {"class"}) \subseteq Around(t, i, Scopes)
  BY <1>1, <1>2 DEF Of
<1>5. \A s \in Around(t, i, Scopes) : t[s].kind \in Functions => s \in Around(t, i, Functions)
  BY <1>1, <1>3 DEF Of
<1>6. \A s \in Around(t, i, Scopes) : t[s].kind = "class" => s \in Around(t, i, {"class"})
  BY <1>1, <1>3 DEF Of
<1>7. \A s \in Around(t, i, Functions) : t[s].kind \in Functions
  BY <1>1 DEF Of
<1>8. \A s \in Around(t, i, {"class"}) : t[s].kind = "class"
  BY <1>1 DEF Of
<1>9. \A s \in Around(t, i, Scopes) :
        /\ s \in Nat \ {0}
        /\ Around(t, s, Functions) = {r \in Around(t, i, Functions) : r < s}
  <2> SUFFICES ASSUME NEW s \in Around(t, i, Scopes)
               PROVE  s \in Nat \ {0} /\ Around(t, s, Functions) = {r \in Around(t, i, Functions) : r < s}
    OBVIOUS
  <2>1. t[s].kind # "header"
    BY <1>3 DEF Scopes
  <2>2. s \in 1..(i - 1)
    BY <1>1
  <2> QED BY <2>1, <2>2, AroundNests
<1> QED BY <1>1, <1>2, <1>3, <1>4, <1>5, <1>6, <1>7, <1>8, <1>9, InnerIsLast

-----------------------------------------------------------------------------
(* The tables that scopes are given.                                       *)

\* What table of Table says of a scope, given the tables of the scopes before.
TopOf(t, f, i) == f[Max({s \in Around(t, i, Tabled) : f[s] # 0} \cup {0})]

UsedBefore(t, f, i) == {f[j] : j \in {c \in Alike(t, i) : c < i}}

FoundFor(t, f, i) ==
  {c \in Alike(t, i) : /\ Inner(t, c, Tabled) = TopOf(t, f, i)
                       /\ t[i].kind = "genexpr" \/ c \notin UsedBefore(t, f, i)}

TableStep(t, f, i) ==
  IF i = 0 \/ t[i].kind \notin Tabled THEN 0
  ELSE IF FoundFor(t, f, i) = {} THEN 0 ELSE First(t, FoundFor(t, f, i))

LEMMA FirstIsFirst ==
  ASSUME NEW t, WellFormed(t), NEW found, found \subseteq DOMAIN t, found # {}
  PROVE  First(t, found) \in found /\ \A d \in found : t[First(t, found)].place <= t[d].place
<1> DEFINE Places == {t[c].place : c \in found}
<1>1. \A c \in found : t[c].place \in Nat
  BY DEF WellFormed
<1>2. Places \subseteq Nat /\ Places # {}
  BY <1>1
<1>3. PICK m \in Places : \A p \in Places : m <= p
  <2> HIDE DEF Places
  <2> QED BY <1>2, LeastNumber
<1>4. \E c \in found : \A d \in found : t[c].place <= t[d].place
  BY <1>3
<1> QED BY <1>4 DEF First

\* What the step looks at are the tables of earlier scopes.
LEMMA TableLooksBack ==
  ASSUME NEW t, WellFormed(t), NEW f, NEW g, NEW i \in 0..Len(t),
         \A k \in 0..Len(t) : k < i => f[k] = g[k]
  PROVE  TableStep(t, f, i) = TableStep(t, g, i)
<1>1. CASE i = 0
  BY <1>1 DEF TableStep
<1>2. CASE i # 0
  <2>1. Len(t) \in Nat /\ i \in DOMAIN t /\ DOMAIN t = 1..Len(t) /\ i \in Nat
    BY <1>2 DEF WellFormed
  <2>2. \A s \in Around(t, i, Tabled) : f[s] = g[s] /\ s \in 1..(i - 1)
    <3>1. Around(t, i, Tabled) \subseteq 1..(i - 1)
      BY <2>1, AroundNests
    <3>2. \A s \in 1..(i - 1) : s \in 0..Len(t) /\ s < i
      BY <2>1
    <3> QED BY <3>1, <3>2
  <2>3. {s \in Around(t, i, Tabled) : f[s] # 0} = {s \in Around(t, i, Tabled) : g[s] # 0}
    BY <2>2
  <2> DEFINE S == {s \in Around(t, i, Tabled) : g[s] # 0} \cup {0}
  <2>4. Max(S) \in S
    <3>1. S \subseteq 0..(i - 1) /\ S # {} /\ i - 1 \in Nat
      BY <1>2, <2>1, <2>2
    <3> HIDE DEF S
    <3> QED BY <3>1, GreatestIsMax
  <2>5. f[0] = g[0]
    BY <1>2, <2>1
  <2>6. TopOf(t, f, i) = TopOf(t, g, i)
    <3>1. f[Max(S)] = g[Max(S)]
      BY <2>2, <2>4, <2>5
    <3> QED BY <2>3, <3>1 DEF TopOf
  <2>7. UsedBefore(t, f, i) = UsedBefore(t, g, i)
    <3>1. \A c \in Alike(t, i) : c < i => f[c] = g[c]
      BY <2>1 DEF Alike, Of
    <3> QED BY <3>1 DEF UsedBefore
  <2>8. FoundFor(t, f, i) = FoundFor(t, g, i)
    BY <2>6, <2>7 DEF FoundFor
  <2> QED BY <2>8 DEF TableStep
<1> QED BY <1>1, <1>2

LEMMA TableUnfolds ==
  ASSUME NEW t, WellFormed(t)
  PROVE  Table(t)[0] = 0 /\ \A i \in DOMAIN t : Table(t)[i] = TableStep(t, Table(t), i)
<1> DEFINE N == Len(t)
           U == [0..N -> 0..N]
           step == [p \in (0..N) \X U |-> TableStep(t, p[2], p[1])]
           table[i \in 0..N] ==
             IF i = 0 \/ t[i].kind \notin Tabled THEN 0
             ELSE LET top   == table[Max({s \in Around(t, i, Tabled) : table[s] # 0} \cup {0})]
                      used  == {table[j] : j \in {c \in Alike(t, i) : c < i}}
                      found == {c \in Alike(t, i) : /\ Inner(t, c, Tabled) = top
                                                    /\ t[i].kind = "genexpr" \/ c \notin used}
                  IN IF found = {} THEN 0 ELSE First(t, found)
           Unfolded(f) == [i \in 0..N |-> TableStep(t, f, i)]
<1>1. N \in Nat /\ DOMAIN t = 1..N /\ 0 \in 0..N
  BY DEF WellFormed
<1>2. Table(t) = table
  BY DEF Table
<1>3. table = CHOOSE f : f = Unfolded(f)
  BY DEF TableStep, FoundFor, TopOf, UsedBefore
<1> HIDE DEF N, table
<1>4. ASSUME NEW i \in 0..N, NEW f PROVE TableStep(t, f, i) \in 0..N
  <2>1. FoundFor(t, f, i) \subseteq DOMAIN t
    BY DEF FoundFor, Alike, Of
  <2>2. FoundFor(t, f, i) # {} => First(t, FoundFor(t, f, i)) \in DOMAIN t
    BY <2>1, FirstIsFirst
  <2>3. \A c \in DOMAIN t : c \in 0..N
    BY <1>1
  <2> QED BY <1>1, <2>2, <2>3 DEF TableStep
<1>5. \A i \in 0..N, f \in U : step[<<i, f>>] = TableStep(t, f, i)
  OBVIOUS
<1>6. step \in [(0..N) \X U -> 0..N]
  BY <1>4
<1> HIDE DEF step
<1>7. LooksBack(step, N, 0..N)
  <2> SUFFICES ASSUME NEW i \in 0..N, NEW f \in U, NEW g \in U,
                      \A k \in 0..N : k < i => f[k] = g[k]
               PROVE  step[<<i, f>>] = step[<<i, g>>]
    BY DEF LooksBack
  <2>1. TableStep(t, f, i) = TableStep(t, g, i)
    <3> HIDE DEF U
    <3> QED BY TableLooksBack DEF N
  <2> QED BY <1>5, <2>1
<1>8. PICK f \in U : RecursBack(f, step, N)
  BY <1>1, <1>6, <1>7, CourseOfValues
<1>9. f = Unfolded(f)
  BY <1>5, <1>8 DEF RecursBack
<1>10. table = Unfolded(table)
  <2> HIDE DEF Unfolded
  <2> QED BY <1>3, <1>9
<1>11. \A i \in 0..N : table[i] = TableStep(t, table, i)
  <2> DEFINE G == Unfolded(table)
  <2>1. \A i \in 0..N : G[i] = TableStep(t, table, i)
    OBVIOUS
  <2> HIDE DEF G
  <2>2. table = G
    BY <1>10 DEF G
  <2> QED BY <2>1, <2>2
<1>12. TableStep(t, table, 0) = 0 /\ \A i \in DOMAIN t : i \in 0..N
  BY <1>1 DEF TableStep
<1> QED BY <1>1, <1>2, <1>11, <1>12

\* A scope that can have a table.
HasTable(s) == s \in DOMAIN tree /\ tree[s].kind \in Tabled

Distinct(s) ==
  IF tree[s].kind = "genexpr" THEN Siblings(s) = {s}
  ELSE \A c, d \in Siblings(s) : c < d => tree[c].place < tree[d].place

\* A scope that is told apart, as are those around it.
Clean(s) == HasTable(s) /\ Distinct(s) /\ \A r \in Around(tree, s, Tabled) : Distinct(r)

\* A scope that has its own table to itself; as the module has.
Owns(s) == Table(tree)[s] = s /\ (s # 0 => \A j : HasTable(j) /\ Table(tree)[j] = s => j = s)

LEMMA TableOf ==
  ASSUME WellFormed(tree), NEW s, HasTable(s)
  PROVE  LET T     == Table(tree)
             found == FoundFor(tree, T, s)
         IN /\ T[s] = IF found = {} THEN 0 ELSE First(tree, found)
            /\ T[s] # 0 => T[s] \in found
            /\ T[s] = 0 => found = {}
            /\ \A d \in found : T[s] # 0 /\ tree[T[s]].place <= tree[d].place
<1> DEFINE T == Table(tree)
           found == FoundFor(tree, T, s)
<1>1. s # 0 /\ 0 \notin DOMAIN tree
  BY DEF HasTable, WellFormed
<1>2. T[s] = IF found = {} THEN 0 ELSE First(tree, found)
  BY <1>1, TableUnfolds DEF HasTable, TableStep
<1>3. found \subseteq DOMAIN tree
  BY DEF FoundFor, Alike, Of
<1>4. found # {} =>
        First(tree, found) \in found /\ \A d \in found : tree[First(tree, found)].place <= tree[d].place
  BY <1>3, FirstIsFirst
<1> HIDE DEF found, T
<1>5. found # {} => T[s] \in found /\ T[s] # 0
  BY <1>1, <1>2, <1>3, <1>4
<1>6. \A d \in found : T[s] # 0 /\ tree[T[s]].place <= tree[d].place
  BY <1>2, <1>4, <1>5
<1> QED BY <1>2, <1>5, <1>6 DEF found, T

\* If the scope p right around s has its table to itself, or is the module, then
\* the tables looked at for s are the children of p's.
LEMMA TopIs ==
  ASSUME WellFormed(tree), NEW s, HasTable(s), NEW p, p = Inner(tree, s, Tabled), Owns(p)
  PROVE  TopOf(tree, Table(tree), s) = p
<1> DEFINE T == Table(tree)
           S == {r \in Around(tree, s, Tabled) : T[r] # 0} \cup {0}
<1>1. /\ p \in Around(tree, s, Tabled) \cup {0} /\ p \in 0..(s - 1)
      /\ \A r \in Around(tree, s, Tabled) : r <= p
  BY InnerIsLast DEF HasTable
<1>2. s \in Nat /\ Around(tree, s, Tabled) \subseteq 1..(s - 1)
  BY AroundNests, OuterPrecedes DEF HasTable
<1>3. S \subseteq 0..(s - 1) /\ S # {} /\ s - 1 \in Nat
  BY <1>1, <1>2
<1>4. Max(S) \in S /\ \A r \in S : r <= Max(S)
  <2> HIDE DEF S
  <2> QED BY <1>3, GreatestIsMax
<1>5. T[p] = p
  BY DEF Owns
<1>6. p \in S
  BY <1>1, <1>5
<1>7. Max(S) <= p
  BY <1>1, <1>2, <1>4
<1>8. p \in Nat /\ Max(S) \in Nat
  BY <1>3, <1>4, <1>6
<1> HIDE DEF S
<1>9. Max(S) = p
  BY <1>4, <1>6, <1>7, <1>8
<1> QED BY <1>5, <1>9 DEF S, TopOf

\* Only generator expressions may go without a table.
LEMMA MatchedHasTable ==
  ASSUME ~Unmatched(tree), NEW s, HasTable(s), tree[s].kind # "genexpr"
  PROVE  Table(tree)[s] # 0
BY DEF Unmatched, Of, HasTable

\* If p has its table to itself, the children of that table are taken for scopes
\* right inside of p only.
LEMMA InsideOf ==
  ASSUME WellFormed(tree), ~Unmatched(tree), NEW j, HasTable(j),
         NEW p, Owns(p), p = 0 \/ HasTable(p), TopOf(tree, Table(tree), j) = p
  PROVE  Inner(tree, j, Tabled) = p
<1> DEFINE T == Table(tree)
           A == Around(tree, j, Tabled)
           S == {r \in A : T[r] # 0} \cup {0}
<1>1. j \in DOMAIN tree /\ j \in Nat /\ j - 1 \in Nat /\ A \subseteq 1..(j - 1) /\ A \subseteq Of(tree, Tabled)
  <2>1. j \in DOMAIN tree
    BY DEF HasTable
  <2>2. j \in 1..Len(tree) /\ Len(tree) \in Nat
    BY <2>1, OuterPrecedes
  <2>3. A \subseteq 1..(j - 1) /\ A \subseteq Of(tree, Tabled)
    BY <2>1, AroundNests
  <2> QED BY <2>1, <2>2, <2>3
<1>2. S \subseteq 0..(j - 1) /\ S # {}
  BY <1>1
<1>3. Max(S) \in S /\ \A r \in S : r <= Max(S)
  <2> HIDE DEF S
  <2> QED BY <1>1, <1>2, GreatestIsMax
<1>4. T[Max(S)] = p /\ T[p] = p
  BY DEF TopOf, Owns
<1>5. \A r \in A : HasTable(r)
  BY <1>1 DEF Of, HasTable
<1>6. Max(S) = p
  <2>1. CASE Max(S) = 0
    <3>1. T[0] = 0
      BY TableUnfolds
    <3> QED BY <1>4, <2>1, <3>1
  <2>2. CASE Max(S) # 0
    <3>1. HasTable(Max(S))
      BY <1>3, <1>5, <2>2
    <3>2. p # 0
      BY <1>3, <1>4, <2>2
    <3> QED BY <1>4, <3>1, <3>2 DEF Owns
  <2> QED BY <2>1, <2>2
<1>7. p \in Nat /\ p \in A \cup {0} /\ \A r \in A : T[r] # 0 => r <= p
  BY <1>2, <1>3, <1>6
<1> DEFINE Further == {r \in A : r > p}
<1>8. ASSUME Further # {} PROVE FALSE
  <2>1. Further \subseteq Nat
    BY <1>1
  <2>2. PICK r \in Further : \A k \in Further : r <= k
    <3> HIDE DEF Further
    <3> QED BY <1>8, <2>1, LeastNumber
  <2>3. r \in A /\ r > p /\ r \in Nat /\ HasTable(r) /\ T[r] = 0
    BY <1>1, <1>5, <1>7, <2>2
  <2>4. tree[r].kind = "genexpr"
    BY <2>3, MatchedHasTable
  <2>5. Around(tree, r, Tabled) = {k \in A : k < r}
    BY <1>1, <2>3, <2>4, AroundNests
  <2>6. /\ Inner(tree, r, Tabled) \in Around(tree, r, Tabled) \cup {0}
        /\ \A k \in Around(tree, r, Tabled) : k <= Inner(tree, r, Tabled)
        /\ Inner(tree, r, Tabled) \in 0..(r - 1)
    BY <2>3, InnerIsLast DEF HasTable
  <2>7. \A k \in Around(tree, r, Tabled) : k <= p
    BY <1>1, <1>7, <2>2, <2>3, <2>5
  <2>8. p \in Around(tree, r, Tabled) \cup {0}
    BY <1>7, <2>3, <2>5
  <2>9. Inner(tree, r, Tabled) = p
    <3> DEFINE q == Inner(tree, r, Tabled)
    <3>1. q \in Nat /\ q <= p
      BY <1>7, <2>3, <2>6, <2>7
    <3>2. p <= q
      BY <2>6, <2>8, <3>1
    <3> QED BY <1>7, <3>1, <3>2
  <2>10. TopOf(tree, T, r) = p
    BY <2>3, <2>9, TopIs
  <2>11. r \in FoundFor(tree, T, r)
    BY <2>3, <2>4, <2>9, <2>10 DEF FoundFor, Alike, Of, HasTable
  <2> QED BY <2>3, <2>11, TableOf
<1>9. \A r \in A : r <= p
  BY <1>1, <1>7, <1>8
<1>10. /\ Inner(tree, j, Tabled) \in A \cup {0} /\ \A r \in A : r <= Inner(tree, j, Tabled)
       /\ Inner(tree, j, Tabled) \in 0..(j - 1)
  BY <1>1, InnerIsLast
<1> DEFINE q == Inner(tree, j, Tabled)
<1>11. q \in Nat /\ q <= p
  BY <1>1, <1>7, <1>9, <1>10
<1>12. p <= q
  BY <1>7, <1>10, <1>11
<1> QED BY <1>7, <1>11, <1>12

\* Scopes of the same kind, name, line and scope are clean together.
LEMMA SiblingsAreClean ==
  ASSUME WellFormed(tree), NEW s, Clean(s), NEW c \in Siblings(s)
  PROVE  /\ Clean(c) /\ HasTable(c) /\ tree[c].kind = tree[s].kind
         /\ Inner(tree, c, Tabled) = Inner(tree, s, Tabled) /\ c \in Alike(tree, s) /\ s \in Alike(tree, c)
         /\ Siblings(c) = Siblings(s)
<1> DEFINE p == Inner(tree, s, Tabled)
<1>1. /\ c \in DOMAIN tree /\ tree[c].kind = tree[s].kind /\ Inner(tree, c, Tabled) = p
      /\ Alike(tree, c) = Alike(tree, s) /\ c \in Alike(tree, s) /\ s \in Alike(tree, c)
      /\ s \in DOMAIN tree /\ tree[s].kind \in Tabled
  BY DEF Siblings, Alike, Of, Clean, HasTable
<1>2. Siblings(c) = Siblings(s)
  BY <1>1 DEF Siblings
<1>3. ASSUME NEW x \in {c, s}
      PROVE  Around(tree, x, Tabled) = IF p = 0 THEN {} ELSE Around(tree, p, Tabled) \cup {p}
  <2>1. x \in DOMAIN tree /\ Inner(tree, x, Tabled) = p
    BY <1>1, <1>3
  <2>2. x \in Nat /\ Around(tree, x, Tabled) \subseteq 1..(x - 1) /\ Around(tree, x, Tabled) \subseteq Of(tree, Tabled)
    BY <2>1, AroundNests, OuterPrecedes
  <2>3. p \in Around(tree, x, Tabled) \cup {0} /\ \A r \in Around(tree, x, Tabled) : r <= p
    BY <2>1, InnerIsLast
  <2>4. CASE p = 0
    BY <2>2, <2>3, <2>4
  <2>5. CASE p # 0
    <3>1. p \in Around(tree, x, Tabled) /\ tree[p].kind # "header" /\ p \in Nat
      BY <2>2, <2>3, <2>5 DEF Of, Tabled, Scopes
    <3>2. Around(tree, p, Tabled) = {r \in Around(tree, x, Tabled) : r < p}
      BY <2>1, <3>1, AroundNests
    <3>3. \A r \in Around(tree, x, Tabled) : r \in Nat /\ (r < p \/ r = p)
      BY <2>2, <2>3, <3>1
    <3> HIDE DEF p
    <3> QED BY <2>5, <3>1, <3>2, <3>3
  <2> QED BY <2>4, <2>5
<1>4. Around(tree, c, Tabled) = Around(tree, s, Tabled)
  BY <1>3
<1>5. Distinct(c)
  <2>1. tree[s].kind = "genexpr" => c = s
    BY <1>2 DEF Clean, Distinct
  <2> QED BY <1>1, <1>2, <2>1 DEF Clean, Distinct
<1>6. Clean(c)
  BY <1>1, <1>4, <1>5 DEF Clean, HasTable
<1> QED BY <1>1, <1>2, <1>6 DEF HasTable

LEMMA CleanOwns ==
  ASSUME WellFormed(tree), ~Unmatched(tree)
  PROVE  \A s : Clean(s) => Owns(s)
<1> DEFINE T == Table(tree)
           S == {s \in Nat : Clean(s) => Owns(s)}
<1>1. ASSUME NEW s \in Nat, \A k \in Nat : k < s => k \in S PROVE s \in S
  <2> SUFFICES ASSUME Clean(s) PROVE Owns(s)
    OBVIOUS
  <2> DEFINE p == Inner(tree, s, Tabled)
  <2>1. HasTable(s) /\ s \in DOMAIN tree /\ s # 0 /\ s \in Siblings(s)
    BY DEF Clean, HasTable, WellFormed, Siblings, Alike, Of
  <2>2. p \in Nat /\ p < s /\ p \in Around(tree, s, Tabled) \cup {0}
    BY <2>1, InnerIsLast
  <2>3. Owns(p) /\ (p = 0 \/ HasTable(p))
    <3>1. CASE p = 0
      BY <3>1, TableUnfolds DEF Owns
    <3>2. CASE p # 0
      <4>1. p \in Around(tree, s, Tabled) /\ HasTable(p) /\ tree[p].kind # "header"
        BY <2>1, <2>2, <3>2, AroundNests DEF Of, HasTable, Tabled, Scopes
      <4>2. Around(tree, p, Tabled) \subseteq Around(tree, s, Tabled)
        BY <2>1, <4>1, AroundNests
      <4>3. Clean(p)
        BY <4>1, <4>2 DEF Clean
      <4> QED BY <1>1, <2>2, <4>1, <4>3
    <3> QED BY <3>1, <3>2
  <2>4. TopOf(tree, T, s) = p
    BY <2>1, <2>3, TopIs
  \* Whatever has been given the table of s is one of its siblings.
  <2>5. ASSUME NEW j, HasTable(j), T[j] = s
        PROVE  j \in Siblings(s) /\ s \in FoundFor(tree, T, j)
    <3>1. s \in FoundFor(tree, T, j)
      BY <2>1, <2>5, TableOf
    <3>2. TopOf(tree, T, j) = p /\ j \in Alike(tree, s)
      BY <2>5, <3>1 DEF FoundFor, Alike, Of, HasTable
    <3>3. Inner(tree, j, Tabled) = p
      BY <2>3, <2>5, <3>2, InsideOf
    <3> QED BY <3>1, <3>2, <3>3 DEF Siblings
  <2>6. CASE tree[s].kind = "genexpr"
    <3>1. Siblings(s) = {s}
      BY <2>6 DEF Clean, Distinct
    <3>2. FoundFor(tree, T, s) = {s}
      BY <2>4, <2>6, <3>1 DEF FoundFor, Siblings
    <3>3. T[s] = s
      BY <2>1, <3>2, TableOf
    <3> QED BY <2>5, <3>1, <3>3 DEF Owns
  <2>7. CASE tree[s].kind # "genexpr"
    <3>1. \A c \in Siblings(s) : /\ c \in Nat /\ HasTable(c) /\ tree[c].place \in Nat
                                 /\ tree[c].kind # "genexpr" /\ c \in Alike(tree, s) /\ s \in Alike(tree, c)
                                 /\ c < s => Owns(c)
      <4> SUFFICES ASSUME NEW c \in Siblings(s)
                   PROVE  /\ c \in Nat /\ HasTable(c) /\ tree[c].place \in Nat
                          /\ tree[c].kind # "genexpr" /\ c \in Alike(tree, s) /\ s \in Alike(tree, c)
                          /\ c < s => Owns(c)
        OBVIOUS
      <4>1. /\ Clean(c) /\ HasTable(c) /\ tree[c].kind # "genexpr"
            /\ c \in Alike(tree, s) /\ s \in Alike(tree, c)
        BY <2>7, SiblingsAreClean
      <4>2. c \in Nat /\ tree[c].place \in Nat
        BY <4>1 DEF HasTable, WellFormed
      <4> QED BY <1>1, <4>1, <4>2
    <3>2. \A c, d \in Siblings(s) : c < d => tree[c].place < tree[d].place
      BY <2>7 DEF Clean, Distinct
    <3>3. \A c \in Siblings(s) : c < s => c \in UsedBefore(tree, T, s)
      BY <3>1 DEF UsedBefore, Owns
    <3>4. s \notin UsedBefore(tree, T, s)
      <4> SUFFICES ASSUME NEW j \in Alike(tree, s), j < s, T[j] = s PROVE FALSE
        BY DEF UsedBefore
      <4>1. HasTable(j)
        BY <2>1 DEF Alike, Of, HasTable
      <4>2. j \in Siblings(s)
        BY <2>5, <4>1
      <4>3. T[j] = j
        BY <3>1, <4>2 DEF Owns
      <4> QED BY <4>3
    <3>5. FoundFor(tree, T, s) = {c \in Siblings(s) : c \notin UsedBefore(tree, T, s)}
      BY <2>4, <2>7 DEF FoundFor, Siblings
    <3>6. s \in FoundFor(tree, T, s) /\ T[s] # 0
      BY <2>1, <3>4, <3>5, TableOf
    <3>7. T[s] \in Siblings(s) /\ ~(T[s] < s) /\ tree[T[s]].place <= tree[s].place
      BY <2>1, <3>3, <3>5, <3>6, TableOf
    <3>8. T[s] = s
      <4>1. ~(s < T[s])
        BY <2>1, <3>1, <3>2, <3>7
      <4> QED BY <3>1, <3>7, <4>1
    <3>9. ASSUME NEW j, HasTable(j), T[j] = s PROVE j = s
      <4>1. j \in Siblings(s) /\ s \in FoundFor(tree, T, j)
        BY <2>5, <3>9
      <4>2. ~(s < j)
        <5>1. s \notin UsedBefore(tree, T, j)
          BY <3>1, <4>1 DEF FoundFor
        <5> QED BY <3>1, <3>8, <4>1, <5>1 DEF UsedBefore
      <4>3. ~(j < s)
        BY <3>1, <3>9, <4>1 DEF Owns
      <4> QED BY <3>1, <4>1, <4>2, <4>3
    <3> QED BY <3>8, <3>9 DEF Owns
  <2> QED BY <2>6, <2>7
<1>2. Nat \subseteq S
  <2> HIDE DEF S
  <2> QED BY <1>1, StrongInductionSet
<1>3. \A s : Clean(s) => s \in Nat
  BY DEF Clean, HasTable, WellFormed
<1> QED BY <1>2, <1>3

\* The scopes around a call that are told apart have tables of their own.
LEMMA ToldApartOwn ==
  ASSUME WellFormed(tree), ~Unmatched(tree), NEW i \in DOMAIN tree, ToldApart(i)
  PROVE  \A s \in Around(tree, i, Tabled) : Table(tree)[s] = s
<1> SUFFICES ASSUME NEW s \in Around(tree, i, Tabled) PROVE Clean(s)
  BY CleanOwns DEF Owns
<1>1. HasTable(s) /\ tree[s].kind # "header"
  BY AroundNests DEF Of, HasTable, Tabled, Scopes
<1>2. Around(tree, s, Tabled) \subseteq Around(tree, i, Tabled)
  BY <1>1, AroundNests
<1> QED BY <1>1, <1>2 DEF Clean, ToldApart, Distinct

\* What the search does with the scopes around a call, where tables are told apart.
LEMMA SearchedScopes ==
  ASSUME WellFormed(tree), ~Unmatched(tree), NEW i \in DOMAIN tree, ToldApart(i),
         NEW s \in Around(tree, i, Scopes)
  PROVE  LET name == tree[i].name IN
         /\ Parameter(tree, Table(tree)[s], name) <=> Parameter(tree, s, name)
         /\ Masked(tree, i, s) => Bound(tree, s, name) /\ s \in Around(tree, i, Functions)
         /\ Ends(tree, i, s) <=>
              \/ Masked(tree, i, s)
              \/ /\ tree[s].kind # "listcomp" /\ ~Skipped(tree, i, s)
                 /\ \/ Bound(tree, s, name) \/ Merged(tree, s, name)
                    \/ ~\E r \in Around(tree, i, Functions) : r < s /\ Bound(tree, r, name)
<1> DEFINE name == tree[i].name
           own == Table(tree)[s]
<1>1. /\ s \in DOMAIN tree /\ s # 0 /\ tree[s].kind \in Scopes
      /\ s \in Around(tree, i, Functions) <=> tree[s].kind \in Functions
      /\ Around(tree, s, Functions) = {r \in Around(tree, i, Functions) : r < s}
  BY ScopesAround
<1>2. tree[s].kind # "listcomp" => own = s
  <2>1. tree[s].kind # "listcomp" => s \in Around(tree, i, Tabled)
    BY <1>1, AroundNests DEF Of, Tabled
  <2> QED BY <2>1, ToldApartOwn
<1>3. tree[s].kind = "listcomp" => own = 0
  <2>1. tree[s].kind = "listcomp" => TableStep(tree, Table(tree), s) = 0
    BY DEF TableStep, Tabled
  <2> QED BY <1>1, <2>1, TableUnfolds
<1>4. ~Parameter(tree, 0, name) /\ (Parameter(tree, s, name) => tree[s].kind # "listcomp")
  BY ParameterBinds DEF WellFormed
<1>5. Masked(tree, i, s) => Bound(tree, s, name) /\ tree[s].kind \in Comprehensions
  BY <1>1, TargetBinds DEF Masked
<1>6. Comprehensions \subseteq Functions
  BY DEF Comprehensions, Functions
<1>7. IsFree(tree, s, name) <=> /\ ~Bound(tree, s, name) /\ ~Merged(tree, s, name)
                               /\ \E r \in Around(tree, i, Functions) : r < s /\ Bound(tree, r, name)
  BY <1>1 DEF IsFree
<1>8. Ends(tree, i, s) <=> Masked(tree, i, s) \/ (own # 0 /\ ~Skipped(tree, i, s) /\ ~IsFree(tree, own, name))
  BY DEF Ends
<1> HIDE DEF name, own
<1>9. Parameter(tree, own, name) <=> Parameter(tree, s, name)
  BY <1>2, <1>3, <1>4
<1>10. Ends(tree, i, s) <=>
         Masked(tree, i, s) \/ (tree[s].kind # "listcomp" /\ ~Skipped(tree, i, s) /\ ~IsFree(tree, s, name))
  BY <1>1, <1>2, <1>3, <1>8
<1> QED BY <1>1, <1>5, <1>6, <1>7, <1>9, <1>10 DEF name, own

LEMMA QuarantineExactAt ==
  ASSUME WellFormed(tree), ~Unmatched(tree), NEW i \in AllCalls(tree), ToldApart(i)
  PROVE  /\ i \in BoundToParameter /\ ~Hidden(i) => i \in Shadowed(tree)
         /\ i \in Shadowed(tree) => BeforeTarget(i) \/ (i \in BoundToParameter /\ ~Hidden(i))
<1> DEFINE t == tree
           name == t[i].name
           C == Around(t, i, Scopes)
           Fn == Around(t, i, Functions)
           Cl == Around(t, i, {"class"})
           Tb == Around(t, i, Tabled)
           last == Inner(t, i, Scopes)
           found == {s \in 0..Len(t) : Sees(t, i, s) /\ Bound(t, s, name)}
<1>0. i \in DOMAIN t
  BY DEF AllCalls, Of
<1>1. Len(t) \in Nat /\ DOMAIN t = 1..Len(t)
  BY DEF WellFormed
<1>2. C = Fn \cup Cl /\ Fn \cap Cl = {} /\ C \subseteq 1..Len(t)
  BY <1>0, <1>1, ScopesAround
<1>3. \A s \in C : /\ s \in Nat \ {0} /\ s <= last /\ t[s].kind \in Scopes
                   /\ s \in Fn <=> t[s].kind \in Functions
  BY <1>0, ScopesAround
<1>4. \A s \in C : s \in Cl <=> t[s].kind = "class"
  BY <1>2, <1>3 DEF Scopes, Functions
<1>5. Tb \subseteq C /\ \A s \in C : s \in Tb <=> t[s].kind # "listcomp"
  <2>1. Tb \subseteq C
    <3>1. Tb \subseteq Of(t, Scopes)
      BY <1>0, AroundNests DEF Of, Tabled
    <3> QED BY <1>0, <3>1, AroundNests
  <2>2. \A s \in Tb : t[s].kind # "listcomp"
    BY <1>0, AroundNests DEF Of, Tabled
  <2>3. \A s \in C : t[s].kind # "listcomp" => s \in Of(t, Tabled)
    BY <1>1, <1>2, <1>3 DEF Of, Tabled
  <2>4. \A s \in C : t[s].kind # "listcomp" => s \in Tb
    BY <1>0, <2>3, AroundNests
  <2> QED BY <2>1, <2>2, <2>4
<1>6. Resolves(t, i) = IF found = {} THEN {} ELSE {Max(found)}
  BY DEF Resolves
<1>7. found # {} => Max(found) \in found /\ \A s \in found : s <= Max(found)
  <2>1. found \subseteq 0..Len(t)
    OBVIOUS
  <2> HIDE DEF found
  <2> QED BY <1>1, <2>1, GreatestIsMax
<1>8. \A s \in C : s \in found <=> Bound(t, s, name) /\ (s \in Fn \/ s = last)
  <2>1. \A s \in C : s \in 0..Len(t) /\ s # 0
    BY <1>2, <1>3
  <2> QED BY <1>2, <2>1 DEF Sees
<1>9. \A s \in found : s \in Nat /\ (s = 0 \/ s \in C)
  BY <1>2 DEF Sees
<1>10. \A s \in C : Skipped(t, i, s) <=> s \in Cl /\ \E f \in Fn : f > s
  BY <1>4 DEF Skipped
<1>11. \A s : Parameter(t, s, name) => /\ s \in 1..Len(t) /\ t[s].kind \in Functions
                                       /\ t[s].kind # "listcomp" /\ Bound(t, s, name)
  BY <1>1, ParameterBinds DEF Functions
<1>12. \A s \in C :
         /\ Parameter(t, Table(t)[s], name) <=> Parameter(t, s, name)
         /\ Masked(t, i, s) => Bound(t, s, name) /\ s \in Fn
         /\ Ends(t, i, s) <=>
              \/ Masked(t, i, s)
              \/ /\ t[s].kind # "listcomp" /\ ~Skipped(t, i, s)
                 /\ Bound(t, s, name) \/ Merged(t, s, name) \/ ~\E r \in Fn : r < s /\ Bound(t, r, name)
  BY <1>0, SearchedScopes
<1>13. i \in Shadowed(t) <=>
         \E s \in C : Parameter(t, Table(t)[s], name) /\ \A inner \in C : inner > s => ~Ends(t, i, inner)
  BY DEF Shadowed
<1>14. i \in BoundToParameter <=> \E s \in Resolves(t, i) : Parameter(t, s, name)
  BY DEF BoundToParameter
<1>15. /\ BehindClass(i) <=> \E s \in Cl \ {last} : Bound(t, s, name) /\ \A f \in Fn : f < s
       /\ BehindInlined(i) <=>
            \E s \in Tb : Merged(t, s, name) /\ ~Skipped(t, i, s) /\ \A r \in Resolves(t, i) : r < s
       /\ Hidden(i) <=> BehindClass(i) \/ BehindInlined(i)
  BY DEF BehindClass, BehindInlined, Hidden
<1>16. BeforeTarget(i) <=> \E s \in Resolves(t, i) \ {0} : t[s].kind = "listcomp" /\ ~Masked(t, i, s)
  BY DEF BeforeTarget
<1>17. \A s \in C, f \in Fn : s \in Cl /\ ~(f > s) => f < s
  BY <1>2, <1>3
<1> HIDE DEF C, Fn, Cl, Tb, last, found, name, t
<1>18. ASSUME NEW s \in Resolves(t, i), Parameter(t, s, name), ~Hidden(i)
       PROVE  s \in C /\ \A inner \in C : inner > s => ~Ends(t, i, inner)
  <2>1. s = Max(found) /\ s \in found /\ (\A b \in found : b <= s) /\ Resolves(t, i) = {s}
    BY <1>6, <1>7
  <2>2. s \in C /\ s \in Fn /\ s \in Nat /\ Bound(t, s, name)
    BY <1>2, <1>3, <1>9, <1>11, <1>18, <2>1
  <2>3. ASSUME NEW b \in C, b > s, Ends(t, i, b) PROVE FALSE
    <3>1. b \in Nat /\ b \notin found /\ s < b
      BY <1>3, <2>1, <2>2, <2>3
    <3>2. ~Masked(t, i, b)
      BY <1>8, <1>12, <3>1
    <3>3. t[b].kind # "listcomp" /\ ~Skipped(t, i, b) /\ (Bound(t, b, name) \/ Merged(t, b, name))
      BY <1>12, <2>2, <2>3, <3>1, <3>2
    <3>4. CASE Bound(t, b, name)
      <4>1. b \in Cl /\ b # last
        BY <1>2, <1>8, <3>1, <3>4
      <4>2. \A f \in Fn : f < b
        BY <1>10, <1>17, <3>3, <4>1
      <4> QED BY <1>15, <1>18, <3>4, <4>1, <4>2
    <3>5. CASE Merged(t, b, name)
      <4>1. b \in Tb /\ \A r \in Resolves(t, i) : r < b
        BY <1>5, <2>1, <3>1, <3>3
      <4> QED BY <1>15, <1>18, <3>3, <3>5, <4>1
    <3> QED BY <3>3, <3>4, <3>5
  <2> QED BY <2>2, <2>3
<1>19. ASSUME NEW s \in C, Parameter(t, s, name),
              \A inner \in C : inner > s => ~Ends(t, i, inner)
       PROVE  BeforeTarget(i) \/ (s \in Resolves(t, i) /\ ~Hidden(i))
  <2> DEFINE m == Max(found)
  <2>1. s \in Fn /\ Bound(t, s, name) /\ s \in found /\ s \in Nat
    BY <1>3, <1>8, <1>11, <1>19
  <2>2. m \in found /\ m \in Nat /\ s <= m /\ Resolves(t, i) = {m}
    BY <1>6, <1>7, <1>9, <2>1
  <2> HIDE DEF m
  <2>3. CASE m = s
    <3>1. ASSUME BehindClass(i) PROVE FALSE
      <4>1. PICK c \in Cl \ {last} : Bound(t, c, name) /\ \A f \in Fn : f < c
        BY <1>15, <3>1
      <4>2. c \in C /\ c \in Nat /\ c > s /\ t[c].kind # "listcomp"
        BY <1>2, <1>3, <1>4, <2>1, <4>1
      <4>3. ~Skipped(t, i, c)
        BY <1>2, <1>3, <1>10, <4>1, <4>2
      <4> QED BY <1>12, <1>19, <4>1, <4>2, <4>3
    <3>2. ASSUME BehindInlined(i) PROVE FALSE
      <4>1. PICK b \in Tb : Merged(t, b, name) /\ ~Skipped(t, i, b) /\ \A r \in Resolves(t, i) : r < b
        BY <1>15, <3>2
      <4>2. b \in C /\ b > s /\ t[b].kind # "listcomp"
        BY <1>3, <1>5, <2>1, <2>2, <2>3, <4>1
      <4> QED BY <1>12, <1>19, <4>1, <4>2
    <3> QED BY <1>15, <2>2, <2>3, <3>1, <3>2
  <2>4. CASE m # s
    <3>1. m > s /\ m # 0 /\ m \in C /\ Bound(t, m, name) /\ (m \in Fn \/ m = last)
      BY <1>3, <1>8, <1>9, <2>1, <2>2, <2>4
    <3>2. ~Skipped(t, i, m)
      <4>1. m \in Fn => m \notin Cl
        BY <1>2
      <4>2. m = last => \A f \in Fn : f <= last /\ last \in Nat /\ f \in Nat
        BY <1>2, <1>3, <3>1
      <4> QED BY <1>10, <3>1, <4>1, <4>2
    <3>3. ~Ends(t, i, m)
      BY <1>19, <3>1
    <3>4. t[m].kind = "listcomp" /\ ~Masked(t, i, m)
      BY <1>12, <3>1, <3>2, <3>3
    <3> QED BY <1>16, <2>2, <3>1, <3>4
  <2> QED BY <2>3, <2>4
<1> QED BY <1>12, <1>13, <1>14, <1>18, <1>19 DEF t

LEMMA TreeStays == [Next]_vars => tree' = tree /\ source' = source
BY DEF Next, Caught, ParseFile, Start, Poll, Wait, Terminate, Grace, Kill, Reap, ReadSnapshot,
     Prepare,
       Cancel, Deadline, Forks, Exits, vars

TreeInv == WellFormed(tree)

LEMMA InitTree == Init => TreeInv
<1> SUFFICES ASSUME Init PROVE TreeInv
  OBVIOUS
<1>1. tree \in NativeFiles \cup CodegraphFiles
  BY DEF Init
<1> QED BY <1>1, FilesAssumption DEF TreeInv

LEMMA NextTree == TreeInv /\ [Next]_vars => TreeInv'
BY TreeStays DEF TreeInv

LEMMA QuarantineOfTree == TreeInv => QuarantineIsExact
BY QuarantineExactAt DEF TreeInv, QuarantineIsExact

\* For every file: where its scopes are told apart, the search over symbol tables
\* finds the calls that Python binds to a parameter unless a class or a
\* comprehension beside them hides it, and no others, those apart that come before
\* the target they are bound to (parse_python.py:274-369).
THEOREM Quarantine == Spec => []QuarantineIsExact
BY InitTree, NextTree, QuarantineOfTree, PTL DEF Spec

-----------------------------------------------------------------------------
(* What is loaded.                                                         *)

Loaded == [resolved |-> {},
           identity |-> [i \in Ids |-> Identity(i)],
           evidence |-> {e \in Edges(Rejected) : e.sites # {}},
           rejected |-> {i \in DOMAIN upstream : upstream[i] # Unresolved /\ i \in Rejected}]

\* From a validated database every call has a definition or none, and what is
\* loaded is made of that database; from the native parser, of the file.
LoadInv ==
  /\ source = "native" => pc \in {"parse", "prepared"}
  /\ source = "codegraph" => pc # "parse"
  /\ source = "codegraph" /\ pc \in {"prepare", "prepared"} => upstream \in [AllCalls(tree) -> Ids]
  /\ source = "codegraph" /\ Prepared => graph = Loaded
  /\ source = "native" /\ Prepared => graph.resolved = NativeCalls(tree)

LEMMA InitLoad == Init => LoadInv
BY DEF Init, LoadInv, Prepared

LEMMA LoadedStays ==
  ASSUME tree' = tree, upstream' = upstream, defect' = defect
  PROVE  Loaded' = Loaded
<1>1. Ids' = Ids /\ \A i : Path(i)' = Path(i)
  BY DEF Ids, Path
<1>2. \A i : Representative(i)' <=> Representative(i)
  BY <1>1 DEF Representative
<1>3. \A i : Identity(i)' = Identity(i) /\ Caller(i)' = Caller(i)
  BY <1>1, <1>2 DEF Identity, Caller
<1>4. Rejected' = Rejected
  BY DEF Rejected, Analysed
<1>5. \A s, t, r : Evidence(s, t, r)' = Evidence(s, t, r)
  BY <1>3 DEF Evidence
<1>6. \A r : Edges(r)' = Edges(r)
  BY <1>1, <1>3, <1>5 DEF Edges
<1> QED BY <1>1, <1>3, <1>4, <1>6 DEF Loaded

LEMMA NextLoad == LoadInv /\ [Next]_vars => LoadInv'
<1> SUFFICES ASSUME LoadInv, [Next]_vars PROVE LoadInv'
  OBVIOUS
<1>1. tree' = tree /\ source' = source /\ Ids' = Ids
  BY TreeStays DEF Ids
<1>2. CASE ParseFile
  BY <1>1, <1>2 DEF ParseFile, LoadInv, Prepared, Empty
<1>3. CASE ReadSnapshot
  BY <1>1, <1>3 DEF ReadSnapshot, LoadInv, Prepared
<1>4. CASE Prepare
  <2>1. pc = "prepare" /\ pc' = "prepared" /\ graph' = Loaded /\ upstream' = upstream /\ defect' = defect
    BY <1>4 DEF Prepare, Loaded
  <2>2. Loaded' = Loaded
    BY <1>1, <2>1, LoadedStays
  <2> QED BY <1>1, <2>1, <2>2 DEF LoadInv, Prepared
<1>5. CASE ~ParseFile /\ ~ReadSnapshot /\ ~Prepare
  <2>1. /\ graph' = graph /\ upstream' = upstream /\ defect' = defect
        /\ pc' \in {"parse", "prepare", "prepared"} => pc' = pc
        /\ pc = "parse" \/ pc = "prepared" => pc' = pc
    BY <1>5 DEF Next, Caught, Start, Poll, Wait, Terminate, Grace, Kill, Reap, Cancel, Deadline,
         Forks, Exits,
                vars, Fails
  <2>2. Loaded' = Loaded
    BY <1>1, <2>1, LoadedStays
  <2> QED BY <1>1, <2>1, <2>2 DEF LoadInv, Prepared
<1> QED BY <1>2, <1>3, <1>4, <1>5

\* For every database: a callsite is in the quarantine or in the evidence of
\* exactly one relationship, and in none if Python binds its callee to a
\* parameter, where that is not hidden from the search and scopes are told apart
\* (codegraph_import.py:82-84, 112-118, 200-208).
THEOREM EvidenceAccounted == Spec => []EvidenceIsAccounted
<1>1. TreeInv /\ LoadInv => EvidenceIsAccounted
  <2> SUFFICES ASSUME TreeInv, LoadInv, source = "codegraph", Prepared,
                      NEW i \in DOMAIN upstream, upstream[i] # Unresolved
               PROVE  LET of == {e \in graph.evidence : i \in e.sites} IN
                      IF i \in graph.rejected THEN of = {}
                      ELSE /\ \E e \in of : /\ of = {e} /\ e.source = graph.identity[Caller(i)]
                                            /\ e.target = graph.identity[upstream[i]]
                           /\ i \in BoundToParameter => Hidden(i) \/ ~ToldApart(i)
    BY DEF EvidenceIsAccounted
  <2> DEFINE of == {e \in graph.evidence : i \in e.sites}
             from == Identity(Caller(i))
             to == Identity(upstream[i])
             edge == [source |-> from, target |-> to, sites |-> Evidence(from, to, Rejected)]
  <2>1. /\ upstream \in [AllCalls(tree) -> Ids] /\ i \in AllCalls(tree) /\ upstream[i] \in Ids
        /\ graph = Loaded
    BY DEF LoadInv, Prepared
  <2>2. Caller(i) \in Ids
    <3>1. i \in DOMAIN tree
      BY <2>1 DEF AllCalls, Of
    <3> QED BY <3>1, InnerIsLast, AroundNests DEF Caller, Ids, TreeInv
  <2>3. /\ graph.evidence = {e \in Edges(Rejected) : e.sites # {}}
        /\ graph.rejected = {j \in DOMAIN upstream : upstream[j] # Unresolved /\ j \in Rejected}
        /\ \A j \in Ids : graph.identity[j] = Identity(j)
    BY <2>1 DEF Loaded
  <2>4. \A s, t : i \in Evidence(s, t, Rejected) <=> i \notin Rejected /\ s = from /\ t = to
    BY DEF Evidence
  <2>5. \A e \in Edges(Rejected) : e = [source |-> e.source, target |-> e.target, sites |-> Evidence(e.source, e.target, Rejected)]
    BY DEF Edges
  <2>6. edge \in Edges(Rejected)
    BY <2>1, <2>2 DEF Edges
  <2>7. edge.sites = Evidence(from, to, Rejected) /\ edge.source = from /\ edge.target = to
    OBVIOUS
  <2>8. \A e \in of : i \notin Rejected /\ e = edge
    <3> SUFFICES ASSUME NEW e \in Edges(Rejected), i \in e.sites PROVE i \notin Rejected /\ e = edge
      BY <2>3
    <3>1. i \in Evidence(e.source, e.target, Rejected)
      BY <2>5
    <3> QED BY <2>4, <2>5, <3>1
  <2>9. i \in graph.rejected <=> i \in Rejected
    BY <2>3
  <2>10. ASSUME i \notin Rejected PROVE of = {edge}
    <3>1. i \in edge.sites
      BY <2>4, <2>7, <2>10
    <3>2. edge \in of
      BY <2>3, <2>6, <3>1
    <3> QED BY <2>8, <3>2
  <2>11. ASSUME i \notin Rejected, i \in BoundToParameter, ToldApart(i) PROVE Hidden(i)
    <3>1. i \notin Shadowed(tree) /\ ~Unmatched(tree)
      BY <2>1, <2>11 DEF Rejected, Analysed
    <3> QED BY <2>1, <2>11, <3>1, QuarantineOfTree DEF QuarantineIsExact
  <2>12. graph.identity[Caller(i)] = from /\ graph.identity[upstream[i]] = to
    BY <2>1, <2>2, <2>3
  <2> HIDE DEF of, edge, from, to
  <2>13. IF i \in graph.rejected THEN of = {}
         ELSE /\ \E e \in of : /\ of = {e} /\ e.source = graph.identity[Caller(i)]
                               /\ e.target = graph.identity[upstream[i]]
              /\ i \in BoundToParameter => Hidden(i) \/ ~ToldApart(i)
    BY <2>7, <2>8, <2>9, <2>10, <2>11, <2>12
  <2> QED BY <2>13 DEF of
<1> QED BY <1>1, InitTree, NextTree, InitLoad, NextLoad, PTL DEF Spec

-----------------------------------------------------------------------------
FlagType == cancel \in BOOLEAN /\ late \in BOOLEAN

ControlType ==
  /\ source \in {"native", "codegraph"}
  /\ pc \in {"parse", "start", "poll", "wait", "terminate", "grace", "kill", "reap",
             "read", "prepare", "prepared", "raised"}
  /\ command \in {"version", "index"}
  /\ exit \in {"none", "ok", "failed"}
  /\ outcome \in {"none", "ok", "failed", "cancelled", "timeout", "missing", "wrong version"}
  /\ defect \in {"none", "invalid", "stale", "unparsable"}

GraphType ==
  /\ DOMAIN upstream \subseteq AllCalls(tree)
  /\ graph.resolved \cup graph.rejected \subseteq AllCalls(tree)

LEMMA InitTypes == Init => FlagType /\ ControlType /\ GraphType
<1> SUFFICES ASSUME Init PROVE FlagType /\ ControlType /\ GraphType
  OBVIOUS
<1>1. upstream = <<>> /\ DOMAIN upstream = {} /\ graph.resolved = {} /\ graph.rejected = {}
  BY DEF Init, Empty
<1> QED BY <1>1 DEF Init, FlagType, ControlType, GraphType

LEMMA NextFlags == FlagType /\ [Next]_vars => FlagType'
<1> SUFFICES ASSUME FlagType, [Next]_vars PROVE FlagType'
  OBVIOUS
<1>1. cancel' = cancel \/ cancel' = TRUE
  BY DEF Next, Caught, ParseFile, Start, Poll, Wait, Terminate, Grace, Kill, Reap, ReadSnapshot,
       Prepare,
         Cancel, Deadline, Forks, Exits, vars
<1>2. late' = late \/ late' = TRUE \/ late' = FALSE
  BY DEF Next, Caught, ParseFile, Start, Poll, Wait, Terminate, Grace, Kill, Reap, ReadSnapshot,
       Prepare,
         Cancel, Deadline, Forks, Exits, vars
<1> QED BY <1>1, <1>2, Zenon DEF FlagType

LEMMA NextControl == ControlType /\ [Next]_vars => ControlType'
<1> SUFFICES ASSUME ControlType, [Next]_vars PROVE ControlType'
  OBVIOUS
<1> USE DEF ControlType
<1>1. CASE ParseFile
  BY <1>1 DEF ParseFile, process
<1>2. CASE Start
  BY <1>2 DEF Start, Launches, Fails, process
<1>3. CASE Poll \/ Wait
  BY <1>3 DEF Poll, Wait, process
<1>4. CASE Terminate \/ Grace \/ Kill
  BY <1>4 DEF Terminate, Grace, Kill, process
<1>5. CASE Reap
  BY <1>5 DEF Reap, Fails, process
<1>6. CASE ReadSnapshot \/ Prepare
  BY <1>6 DEF ReadSnapshot, Prepare, process
<1>7. CASE Cancel \/ Deadline
  BY <1>7 DEF Cancel, Deadline, process
<1>8. CASE \E h \in Helpers : Forks(h)
  <2>1. UNCHANGED <<source, pc, command, exit, outcome, defect>>
    BY <1>8 DEF Forks
  <2> QED BY <2>1
<1>9. CASE \E p \in live : Exits(p)
  <2>1. UNCHANGED <<source, pc, command, outcome, defect>> /\ exit' \in {"ok", "failed", exit}
    BY <1>9 DEF Exits
  <2> QED BY <2>1
<1>10. CASE UNCHANGED vars
  <2>1. UNCHANGED <<source, pc, command, exit, outcome, defect>>
    BY <1>10 DEF vars, process
  <2> QED BY <2>1
<1> QED BY <1>1, <1>2, <1>3, <1>4, <1>5, <1>6, <1>7, <1>8, <1>9, <1>10 DEF Next, Caught

LEMMA NextGraph == GraphType /\ [Next]_vars => GraphType'
<1> SUFFICES ASSUME GraphType, [Next]_vars PROVE GraphType'
  OBVIOUS
<1>1. tree' = tree
  BY TreeStays
<1>2. CASE ParseFile
  <2>1. graph'.resolved = NativeCalls(tree) /\ graph'.rejected = {} /\ upstream' = upstream
    BY <1>2 DEF ParseFile, Empty
  <2> QED BY <1>1, <2>1 DEF GraphType, NativeCalls
<1>3. CASE ReadSnapshot
  <2>1. graph' = graph /\ (upstream' = <<>> \/ upstream' \in [AllCalls(tree) -> Ids])
    BY <1>3 DEF ReadSnapshot
  <2>2. DOMAIN <<>> = {}
    OBVIOUS
  <2>3. DOMAIN (upstream') \subseteq AllCalls(tree)
    BY <2>1, <2>2
  <2> QED BY <1>1, <2>1, <2>3 DEF GraphType
<1>4. CASE Prepare
  <2>1. /\ graph'.resolved = {} /\ upstream' = upstream
        /\ graph'.rejected = {i \in DOMAIN upstream : upstream[i] # Unresolved /\ i \in Rejected}
    BY <1>4 DEF Prepare
  <2> QED BY <1>1, <2>1 DEF GraphType
<1>5. CASE ~ParseFile /\ ~ReadSnapshot /\ ~Prepare
  <2>1. graph' = graph /\ upstream' = upstream
    BY <1>5 DEF Next, Caught, Start, Poll, Wait, Terminate, Grace, Kill, Reap, Cancel, Deadline,
         Forks, Exits,
                vars, Fails
  <2> QED BY <1>1, <2>1 DEF GraphType
<1> QED BY <1>2, <1>3, <1>4, <1>5

\* Every variable has its type, whatever the files and the processes
\* (codegraph_import.py:32-45, 112-118).
THEOREM TypeCorrect == Spec => []TypeOK
<1>1. TreeInv /\ ProcessInv /\ FlagType /\ ControlType /\ GraphType => TypeOK
  BY DEF TreeInv, WellFormed, ProcessInv, FlagType, ControlType, GraphType, TypeOK
<1> QED BY <1>1, InitTree, NextTree, InitProcess, NextProcess, InitTypes, NextFlags,
     NextControl,
     NextGraph, PTL DEF Spec

-----------------------------------------------------------------------------
(* The native parser.                                                      *)

LEMMA ResolvesIsLast ==
  ASSUME NEW t, WellFormed(t), NEW i \in DOMAIN t, NEW s \in Resolves(t, i)
  PROVE  /\ s \in 0..Len(t) /\ Sees(t, i, s) /\ Bound(t, s, t[i].name)
         /\ \A b \in 0..Len(t) : Sees(t, i, b) /\ Bound(t, b, t[i].name) => b <= s
<1> DEFINE found == {r \in 0..Len(t) : Sees(t, i, r) /\ Bound(t, r, t[i].name)}
<1>1. found # {} /\ s = Max(found)
  BY DEF Resolves
<1>2. Len(t) \in Nat /\ found \subseteq 0..Len(t)
  BY DEF WellFormed
<1>3. Max(found) \in found /\ \A r \in found : r <= Max(found)
  <2> HIDE DEF found
  <2> QED BY <1>1, <1>2, GreatestIsMax
<1> QED BY <1>1, <1>3

\* No lambda or comprehension stands between a statement and the definition
\* whose body it is in.
LEMMA StatementScope ==
  ASSUME NEW t, WellFormed(t)
  PROVE  \A j \in DOMAIN t : t[j].kind \in Statements => Inner(t, j, Scopes) = Inner(t, j, {"def", "class"})
<1> DEFINE Agree(j) == Around(t, j, Scopes) = {} \/ Inner(t, j, Scopes) \in Around(t, j, {"def", "class"})
           S == {j \in Nat : j \in DOMAIN t /\ t[j].kind \in Statements => Agree(j)}
<1>1. ASSUME NEW j \in Nat, \A k \in Nat : k < j => k \in S PROVE j \in S
  <2> SUFFICES ASSUME j \in DOMAIN t, t[j].kind \in Statements PROVE Agree(j)
    OBVIOUS
  <2> DEFINE u == t[j].up
  <2>1. Outer(t, j) = u /\ u \in 0..(j - 1) /\ u \in 0..Len(t) /\ DOMAIN t = 1..Len(t)
    BY OuterPrecedes DEF Statements, WellFormed
  <2>2. (IF u = 0 THEN "module" ELSE t[u].kind) \in {"module", "def", "class", "block"}
    <3>1. Parents(t[j].kind) = {"module", "def", "class", "block"}
      BY DEF Parents, Statements
    <3> QED BY <3>1 DEF WellFormed
  <2>3. \A K : Around(t, j, K) = Line(t, u) \cap Of(t, K)
    BY <2>1, AroundIsLineage DEF Line
  <2>4. CASE u = 0
    BY <2>3, <2>4, LineUnfolds
  <2>5. CASE u # 0 /\ t[u].kind \in {"def", "class"}
    <3>1. u \in Line(t, u) /\ Line(t, u) \subseteq 1..u /\ u \in DOMAIN t /\ u \in Nat
      BY <2>1, <2>5, LineIsInitial
    <3>2. u \in Around(t, j, Scopes) /\ u \in Around(t, j, {"def", "class"}) /\ Around(t, j, Scopes) \subseteq 1..u
      BY <2>3, <2>5, <3>1 DEF Of, Scopes
    <3>3. Inner(t, j, Scopes) \in Around(t, j, Scopes) /\ u <= Inner(t, j, Scopes)
      <4>1. Inner(t, j, Scopes) \in Around(t, j, Scopes) \cup {0} /\ u <= Inner(t, j, Scopes)
        BY <3>2, InnerIsLast
      <4> QED BY <2>5, <3>1, <4>1
    <3>4. Inner(t, j, Scopes) = u
      BY <3>1, <3>2, <3>3
    <3> QED BY <3>2, <3>4
  <2>6. CASE u # 0 /\ t[u].kind = "block"
    <3>1. u \in DOMAIN t /\ u \in Nat /\ u < j /\ u \in 1..Len(t)
      BY <2>1, <2>6
    <3>2. Agree(u)
      <4>1. u \in S
        BY <1>1, <3>1
      <4> QED BY <2>6, <3>1, <4>1 DEF Statements
    <3>3. Outer(t, u) = t[u].up
      BY <2>6, <3>1, OuterPrecedes
    <3>4. \A K : Around(t, u, K) = Line(t, t[u].up) \cap Of(t, K)
      BY <3>3, AroundIsLineage DEF Line
    <3>5. Line(t, u) = Line(t, t[u].up) \cup {u}
      BY <3>1, LineUnfolds
    <3>6. u \notin Of(t, Scopes) /\ u \notin Of(t, {"def", "class"})
      BY <2>6 DEF Of, Scopes
    <3>7. /\ Around(t, j, Scopes) = Around(t, u, Scopes)
          /\ Around(t, j, {"def", "class"}) = Around(t, u, {"def", "class"})
      BY <2>3, <3>4, <3>5, <3>6
    <3>8. Inner(t, j, Scopes) = Inner(t, u, Scopes)
      BY <3>7 DEF Inner
    <3> QED BY <3>2, <3>7, <3>8
  <2>7. u = 0 \/ (u # 0 /\ t[u].kind \in {"def", "class"}) \/ (u # 0 /\ t[u].kind = "block")
    <3>1. u = 0 \/ t[u].kind \in Kinds
      BY <2>1 DEF WellFormed
    <3> HIDE DEF u
    <3> QED BY <2>2, <3>1 DEF Kinds
  <2> HIDE DEF u, Agree
  <2> QED BY <2>4, <2>5, <2>6, <2>7
<1>2. Nat \subseteq S
  <2> HIDE DEF S
  <2> QED BY <1>1, StrongInductionSet
<1>3. ASSUME NEW j \in DOMAIN t, t[j].kind \in Statements
      PROVE  Inner(t, j, Scopes) = Inner(t, j, {"def", "class"})
  <2>1. Agree(j) /\ j \in Nat
    <3>1. j \in Nat
      BY OuterPrecedes
    <3> QED BY <1>2, <1>3, <3>1
  <2>2. Around(t, j, {"def", "class"}) \subseteq Around(t, j, Scopes)
    <3>1. Around(t, j, {"def", "class"}) \subseteq Of(t, Scopes)
      BY <1>3, AroundNests DEF Of, Scopes
    <3> QED BY <3>1, AroundNests
  <2> DEFINE m == Inner(t, j, Scopes)
             n == Inner(t, j, {"def", "class"})
  <2>3. m \in Around(t, j, Scopes) \cup {0} /\ \A s \in Around(t, j, Scopes) : s <= m
    BY InnerIsLast
  <2>4. n \in Around(t, j, {"def", "class"}) \cup {0} /\ \A s \in Around(t, j, {"def", "class"}) : s <= n
    BY InnerIsLast
  <2>5. m \in 0..(j - 1) /\ n \in 0..(j - 1)
    BY InnerIsLast
  <2>6. CASE Around(t, j, Scopes) = {}
    BY <2>2, <2>3, <2>4, <2>6
  <2>7. CASE m \in Around(t, j, {"def", "class"})
    <3>1. m <= n
      BY <2>4, <2>7
    <3>2. n <= m
      BY <2>2, <2>3, <2>4, <2>5
    <3> QED BY <2>1, <2>5, <3>1, <3>2
  <2> QED BY <2>1, <2>6, <2>7
<1> QED BY <1>3

LEMMA ResolutionAt ==
  ASSUME NEW t, WellFormed(t), NEW i \in AllCalls(t)
  PROVE  /\ Resolves(t, i) = {0} /\ Walked(t, i) /\ t[i].name \in module_defs(t) \cup imported(t)
              => i \in NativeCalls(t)
         /\ i \in NativeCalls(t) =>
              \A s \in Resolves(t, i) \ {0} :
                t[s].kind = "def" => \A j \in Of(t, Binders) :
                  t[j].name = t[i].name /\ Inner(t, j, Scopes) = s => t[j].kind \in {"target", "import"}
<1> DEFINE name == t[i].name
<1>1. i \in DOMAIN t
  BY DEF AllCalls, Of
<1>2. Len(t) \in Nat /\ DOMAIN t = 1..Len(t)
  BY DEF WellFormed
<1>3. i \in NativeCalls(t) <=>
        Walked(t, i) /\ name \notin local_names(t, i) /\ name \in module_defs(t) \cup imported(t)
  BY DEF NativeCalls, Target
<1>4. name \in local_names(t, i) <=>
        \E d \in Around(t, i, {"def"}) : name \in param_names(t, d) \/ name \in body_local_names(t, d)
  BY DEF local_names
<1>5. \A d \in Around(t, i, {"def"}) : d \in Around(t, i, Functions) /\ d \in 1..Len(t)
  <2>1. Around(t, i, {"def"}) \subseteq Of(t, Functions)
    BY <1>1, AroundNests DEF Of, Functions
  <2> QED BY <1>1, <1>2, <2>1, AroundNests DEF Of
<1>6. ASSUME NEW d, name \in param_names(t, d) \/ name \in body_local_names(t, d)
      PROVE  Bound(t, d, name)
  <2>1. CASE name \in param_names(t, d)
    <3>1. Parameter(t, d, name)
      BY <2>1 DEF param_names, Parameter
    <3> QED BY <3>1, ParameterBinds
  <2>2. CASE name \in body_local_names(t, d)
    <3>1. PICK j \in Of(t, {"def", "class", "assign"}) : t[j].name = name /\ Inner(t, j, {"def", "class"}) = d
      BY <2>2 DEF body_local_names
    <3>2. Inner(t, j, Scopes) = d
      BY <3>1, StatementScope DEF Of, Statements
    <3> QED BY <3>1, <3>2 DEF Bound, Of, Binders
  <2> QED BY <1>6, <2>1, <2>2
<1>7. ASSUME Resolves(t, i) = {0}, name \in local_names(t, i) PROVE FALSE
  <2>1. PICK d \in Around(t, i, {"def"}) : Bound(t, d, name)
    BY <1>4, <1>6, <1>7
  <2>2. Sees(t, i, d) /\ d \in 1..Len(t)
    BY <1>5 DEF Sees
  <2>3. d \in 0..Len(t) /\ ~(d <= 0)
    BY <1>2, <2>2
  <2> QED BY <1>1, <1>7, <2>1, <2>2, <2>3, ResolvesIsLast
<1>8. ASSUME NEW s \in Resolves(t, i) \ {0}, t[s].kind = "def",
             NEW j \in Of(t, Binders), t[j].name = name, Inner(t, j, Scopes) = s,
             t[j].kind \notin {"target", "import"}
      PROVE  name \in local_names(t, i)
  <2>1. Sees(t, i, s)
    BY <1>1, ResolvesIsLast
  <2>2. s \in Around(t, i, {"def"})
    <3>1. s \in Around(t, i, Functions) \/ s \in Around(t, i, {"class"})
      BY <2>1 DEF Sees
    <3>2. s \in Of(t, {"def"})
      BY <1>1, <1>8, <3>1, AroundNests DEF Of
    <3> QED BY <1>1, <3>1, <3>2, AroundNests
  <2>3. CASE t[j].kind = "param"
    <3>1. j \in DOMAIN t /\ Parameter(t, t[j].up, name)
      BY <1>8, <2>3 DEF Parameter, Of
    <3>2. Inner(t, j, Scopes) = t[j].up
      BY <2>3, <3>1, ParameterScope
    <3>3. name \in param_names(t, s)
      BY <1>8, <2>3, <3>1, <3>2 DEF param_names, Of
    <3> QED BY <1>4, <2>2, <3>3
  <2>4. CASE t[j].kind \in {"def", "class", "assign"}
    <3>1. Inner(t, j, {"def", "class"}) = s
      BY <1>8, <2>4, StatementScope DEF Of, Statements
    <3>2. name \in body_local_names(t, s)
      BY <1>8, <2>4, <3>1 DEF body_local_names, Of
    <3> QED BY <1>4, <2>2, <3>2
  <2> QED BY <1>8, <2>3, <2>4 DEF Of, Binders
<1>9. ASSUME Resolves(t, i) = {0}, Walked(t, i), name \in module_defs(t) \cup imported(t)
      PROVE  i \in NativeCalls(t)
  BY <1>3, <1>7, <1>9
<1> QED BY <1>3, <1>8, <1>9

\* For every file: a call that Python binds in the module gets its edge, and no
\* call does that Python binds where parse_file looks (parse_python.py:182-258).
THEOREM Resolution == Spec => []NativeResolution
<1>1. TreeInv /\ LoadInv => NativeResolution
  <2> SUFFICES ASSUME TreeInv, LoadInv, source = "native", Prepared, NEW i \in AllCalls(tree)
               PROVE  LET name == tree[i].name IN
                      /\ Resolves(tree, i) = {0} /\ Walked(tree, i) /\ name \in module_defs(tree) \cup imported(tree)
                           => i \in graph.resolved
                      /\ i \in graph.resolved =>
                           \A s \in Resolves(tree, i) \ {0} :
                             tree[s].kind = "def" => \A j \in Of(tree, Binders) :
                               tree[j].name = name /\ Inner(tree, j, Scopes) = s
                                 => tree[j].kind \in {"target", "import"}
    BY DEF NativeResolution
  <2>1. graph.resolved = NativeCalls(tree) /\ WellFormed(tree)
    BY DEF LoadInv, TreeInv
  <2> QED BY <2>1, ResolutionAt
<1> QED BY <1>1, InitTree, NextTree, InitLoad, NextLoad, PTL DEF Spec
=============================================================================
