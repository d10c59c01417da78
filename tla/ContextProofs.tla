--------------------------- MODULE ContextProofs ---------------------------
(***************************************************************************)
(* What explore and snippet serve, for every set of files, graph, budget   *)
(* and sequence of edits: source text of the indexed content only, CALLS   *)
(* evidence only from a graph whose files were all compared, each line of  *)
(* the spans once, and everything asked for unless marked truncated.       *)
(***************************************************************************)
EXTENDS Context, SequenceTheorems, FiniteSetTheorems, Recursion, TLAPS

TypeInv ==
  /\ disk \in [Files -> Contents] /\ hash \in [Files -> Versions \cup {NoHash}]
  /\ manifest \in {{}, Files}
  /\ walk.edges \subseteq Calls
  /\ todo \subseteq manifest /\ unseen \subseteq Files
  /\ valid \subseteq Symbols /\ unread \subseteq Symbols
  /\ DOMAIN content \subseteq Files

\* Where each request can be.
Control ==
  /\ request = "explore" => pc \in {"search", "freshness", "read", "done"}
  /\ request = "impact"  => pc \in {"freshness", "walk", "done", "raised"}
  /\ request = "snippet" => pc \in {"row", "read_row", "done", "raised"} /\ todo = manifest
  /\ request \in {"explore", "impact", "snippet"}
  /\ pc = "read_row" => symbol \in Symbols

\* A file that has not been as indexed differs from it, has not been compared,
\* and there is none left once the comparison has ended without a warning.
Comparison ==
  /\ \A f \in unseen : disk[f] # hash[f]
  /\ pc \in {"search", "freshness"} /\ manifest = Files => unseen \subseteq todo
  /\ pc \in {"read", "walk", "done"} /\ warning = "none" /\ request # "snippet" => unseen = {}

\* Validated nodes were read as indexed, in a request that no reindexing meets.
Validation ==
  /\ valid # {} => request = "explore"
  /\ \A n \in valid : FileOf[n] \in DOMAIN content /\ content[FileOf[n]] = hash[FileOf[n]]

\* Nothing is sent before the end, and edges by explore only.
Sent ==
  /\ pc # "done" => answer = Nothing
  /\ answer.edges # {} => request = "explore"

\* The inductive invariant.
IInv ==
  /\ TypeInv /\ Control /\ Comparison /\ Validation /\ Sent
  /\ SourceIsIndexed /\ EvidenceHasSources

-----------------------------------------------------------------------------
LEMMA InitIInv == Init => IInv
<1> SUFFICES ASSUME Init PROVE IInv
  OBVIOUS
<1> USE DEF Init
<1>1. TypeInv
  <2>1. walk.edges = {}
    BY DEF None
  <2>2. DOMAIN content = {}
    OBVIOUS
  <2> QED BY <2>1, <2>2 DEF TypeInv
<1>2. Control
  BY DEF Control
<1>3. Comparison
  BY DEF Comparison
<1>4. Validation /\ Sent
  BY DEF Validation, Sent, Nothing
<1>5. SourceIsIndexed /\ EvidenceHasSources
  BY DEF SourceIsIndexed, EvidenceHasSources, Nothing
<1> QED BY <1>1, <1>2, <1>3, <1>4, <1>5 DEF IInv

\* A step that leaves the answer empty has nothing to show for it.
LEMMA NothingSent ==
  ASSUME answer' = Nothing
  PROVE  Sent' /\ SourceIsIndexed' /\ EvidenceHasSources'
BY DEF Sent, SourceIsIndexed, EvidenceHasSources, Nothing

LEMMA EditStep ==
  ASSUME IInv, NEW f \in Files, NEW c \in Contents, Edit(f, c)
  PROVE  IInv'
<1> USE DEF IInv
<1>1. pc # "done" /\ answer' = Nothing
  BY DEF Edit, Working, Sent
<1>2. TypeInv'
  BY DEF Edit, TypeInv, graph, asked, found, checked, sources
<1>3. Control'
  BY DEF Edit, Control, asked, checked, graph
<1>4. Comparison'
  <2>1. unseen' \subseteq unseen
    BY DEF Edit
  <2>2. \A g \in unseen' : disk'[g] # hash'[g]
    <3> SUFFICES ASSUME NEW g \in unseen' PROVE disk'[g] # hash[g]
      BY DEF Edit, graph
    <3>1. CASE g = f
      BY <3>1 DEF Edit, TypeInv
    <3>2. CASE g # f
      BY <2>1, <3>2 DEF Edit, TypeInv, Comparison
    <3> QED BY <3>1, <3>2
  <2> QED BY <1>1, <2>1, <2>2 DEF Edit, Comparison, graph, asked, checked
<1>5. Validation'
  BY DEF Edit, Validation, asked, sources, graph
<1> QED BY <1>1, <1>2, <1>3, <1>4, <1>5, NothingSent

LEMMA ReindexStep ==
  ASSUME IInv, Reindex
  PROVE  IInv'
<1> USE DEF IInv
<1>1. request = "snippet" /\ answer' = Nothing
  BY DEF Reindex, Control, Sent
<1>2. TypeInv'
  BY DEF Reindex, TypeInv, asked, found, checked, sources
<1>3. Control'
  BY DEF Reindex, Control, asked, checked
<1>4. Comparison'
  BY <1>1 DEF Reindex, Comparison, asked
<1>5. Validation'
  BY <1>1 DEF Reindex, Validation, asked, sources
<1> QED BY <1>1, <1>2, <1>3, <1>4, <1>5, NothingSent

LEMMA SearchStep ==
  ASSUME IInv, Search
  PROVE  IInv'
<1> USE DEF IInv
<1>1. request = "explore" /\ answer' = Nothing /\ pc = "search" /\ pc' = "freshness"
  BY DEF Search, Control, Sent, asked
<1>2. TypeInv'
  <2>1. walk'.edges \subseteq Calls
    <3>1. PICK S \in SUBSET Symbols : walk' \in Walks(S)
      BY DEF Search, Pages
    <3> QED BY <3>1 DEF Walks, EdgesAt
  <2>2. unread' \subseteq Symbols
    BY DEF Search
  <2> QED BY <2>1, <2>2 DEF Search, TypeInv, graph, asked, checked
<1>3. Control'
  BY <1>1 DEF Search, Control, asked
<1>4. Comparison'
  BY <1>1 DEF Search, Comparison, graph, checked, asked
<1>5. Validation'
  BY DEF Search, Validation, asked, graph
<1> QED BY <1>1, <1>2, <1>3, <1>4, <1>5, NothingSent

\* The steps of graph_freshness.
LEMMA FreshnessStep ==
  ASSUME IInv, NoManifest \/ OutOfBudget \/ (\E f \in todo : Compare(f)) \/ AllCompared
  PROVE  IInv'
<1> USE DEF IInv
<1>1. pc = "freshness" /\ answer' = Nothing /\ request \in {"explore", "impact"}
  BY DEF NoManifest, OutOfBudget, Compare, AllCompared, Sent, Control
<1>2. UNCHANGED <<disk, graph, asked, found, sources, expected, unseen>> /\ todo' \subseteq todo
  BY DEF NoManifest, OutOfBudget, Compare, AllCompared, sources
<1>3. \/ pc' = "freshness"
      \/ request = "explore" /\ pc' = "read"
      \/ request = "impact" /\ pc' \in {"walk", "raised"}
  BY <1>1 DEF NoManifest, OutOfBudget, Compare, AllCompared, FreshnessIs
<1>4. TypeInv'
  BY <1>2 DEF TypeInv, graph, asked, found, sources
<1>5. Control'
  BY <1>1, <1>2, <1>3 DEF Control, asked
<1>6. Comparison'
  <2>1. CASE NoManifest \/ OutOfBudget
    BY <1>1, <1>2, <2>1 DEF NoManifest, OutOfBudget, FreshnessIs, Comparison, graph
  <2>2. CASE \E f \in todo : Compare(f)
    <3>1. PICK f \in todo : Compare(f)
      BY <2>2
    <3>2. CASE disk[f] = hash[f] /\ todo' = todo \ {f} /\ UNCHANGED <<warning, pc>>
      BY <1>1, <1>2, <3>2 DEF Comparison, graph
    <3>3. CASE FreshnessIs("unverified") \/ FreshnessIs("stale")
      BY <1>1, <1>2, <3>3 DEF Comparison, graph, FreshnessIs
    <3> QED BY <3>1, <3>2, <3>3 DEF Compare
  <2>3. CASE AllCompared
    <3>1. unseen = {}
      BY <1>1, <2>3 DEF AllCompared, Comparison, TypeInv
    <3> QED BY <1>1, <1>2, <3>1 DEF Comparison, graph
  <2> QED BY <2>1, <2>2, <2>3
<1>7. Validation'
  BY <1>2 DEF Validation, asked, graph, sources
<1> QED BY <1>1, <1>4, <1>5, <1>6, <1>7, NothingSent

LEMMA ReadStep ==
  ASSUME IInv, NEW n \in unread, ReadNode(n)
  PROVE  IInv'
<1> USE DEF IInv
<1>1. request = "explore" /\ pc = "read" /\ answer' = Nothing
  BY DEF ReadNode, Control, Sent
<1>2. PICK f, c :
        /\ f = FileOf[n]
        /\ c = IF f \in DOMAIN content THEN content[f] ELSE disk[f]
        /\ content' = [g \in DOMAIN content \cup {f} |-> IF g = f THEN c ELSE content[g]]
        /\ valid' = IF c # Gone /\ Vetted(f, c) THEN valid \cup {n} ELSE valid
  BY DEF ReadNode
<1>3. f \in Files /\ n \in Symbols
  BY <1>2, GraphAssumption DEF TypeInv
<1>4. TypeInv'
  BY <1>2, <1>3 DEF ReadNode, TypeInv, graph, asked, found, checked
<1>5. Control'
  BY DEF ReadNode, Control, asked, checked, graph
<1>6. Comparison'
  BY <1>1 DEF ReadNode, Comparison, graph, asked, checked
<1>7. Validation'
  <2>1. \A m \in valid : FileOf[m] \in DOMAIN content' /\ content'[FileOf[m]] = hash[FileOf[m]]
    BY <1>2 DEF Validation
  <2>2. n \in valid' \ valid => FileOf[n] \in DOMAIN content' /\ content'[FileOf[n]] = hash[FileOf[n]]
    BY <1>2 DEF Vetted
  <2>3. valid' \subseteq valid \cup {n}
    BY <1>2
  <2>4. hash' = hash /\ request' = request
    BY DEF ReadNode, graph, asked
  <2> QED BY <1>1, <2>1, <2>2, <2>3, <2>4 DEF Validation
<1> QED BY <1>1, <1>4, <1>5, <1>6, <1>7, NothingSent

LEMMA ComposeStep ==
  ASSUME IInv, Compose
  PROVE  IInv'
<1> USE DEF IInv
<1>1. request = "explore" /\ pc = "read" /\ pc' = "done"
  BY DEF Compose, Control
<1>2. UNCHANGED <<disk, graph, asked, found, checked, sources, expected, unseen>>
  BY DEF Compose
<1>3. answer'.lines = SourceLines /\ answer'.edges = Evidence
  BY DEF Compose
<1>4. TypeInv' /\ Control'
  BY <1>1, <1>2 DEF TypeInv, Control, graph, asked, found, checked, sources
<1>5. Comparison'
  BY <1>1, <1>2 DEF Comparison, graph, asked, checked
<1>6. Validation'
  BY <1>2 DEF Validation, graph, asked, sources
<1>7. Sent'
  BY <1>1, <1>2 DEF Sent, asked
<1>8. SourceIsIndexed'
  <2> SUFFICES ASSUME NEW t \in SourceLines PROVE t.content = hash[t.file]
    BY <1>1, <1>2, <1>3 DEF SourceIsIndexed, asked, graph
  <2>1. PICK n \in valid : \E r : t \in Text(FileOf[n], content[FileOf[n]], r[1], r[2])
    BY DEF SourceLines
  <2>2. t.file = FileOf[n] /\ t.content = content[FileOf[n]]
    BY <2>1 DEF Text
  <2> QED BY <2>1, <2>2 DEF Validation
<1>9. EvidenceHasSources'
  <2> SUFFICES ASSUME NEW e \in Evidence, NEW n \in {e[1], e[2]}
               PROVE /\ warning = "none" /\ n \in Symbols
                     /\ FileOf[n] \in DOMAIN content /\ content[FileOf[n]] = hash[FileOf[n]]
    BY <1>2, <1>3 DEF EvidenceHasSources, graph, checked, sources
  <2> QED BY DEF Evidence, Validation, TypeInv
<1> QED BY <1>4, <1>5, <1>6, <1>7, <1>8, <1>9

LEMMA ImpactStep ==
  ASSUME IInv, Affected
  PROVE  IInv'
<1> USE DEF IInv
<1>1. request = "impact" /\ pc = "walk" /\ pc' \in {"done", "raised"}
  BY DEF Affected, Control
<1>2. UNCHANGED <<disk, graph, asked, candidates, roots, checked, sources, expected, unseen>>
  BY DEF Affected
<1>3. answer'.lines = {} /\ answer'.edges = {} /\ (pc' # "done" => answer' = Nothing)
  <2>1. answer = Nothing
    BY <1>1 DEF Sent
  <2>2. CASE symbol \in Symbols
    BY <2>2 DEF Affected, Nothing
  <2>3. CASE symbol \notin Symbols
    BY <2>1, <2>3 DEF Affected, Nothing
  <2> QED BY <2>2, <2>3
<1>4. walk'.edges \subseteq Calls
  <2>1. walk' \in Walks({symbol})
    BY DEF Affected
  <2> QED BY <2>1 DEF Walks, EdgesAt
<1>5. TypeInv' /\ Control'
  BY <1>1, <1>2, <1>4 DEF TypeInv, Control, graph, asked, checked, sources
<1>6. Comparison'
  BY <1>1, <1>2 DEF Comparison, graph, asked, checked
<1>7. Validation'
  BY <1>2 DEF Validation, graph, asked, sources
<1> QED BY <1>3, <1>5, <1>6, <1>7 DEF Sent, SourceIsIndexed, EvidenceHasSources

LEMMA SnippetStep ==
  ASSUME IInv, SnippetRow \/ SnippetReads
  PROVE  IInv'
<1> USE DEF IInv
<1>1. request = "snippet" /\ pc \in {"row", "read_row"} /\ pc' \in {"read_row", "done", "raised"}
  BY DEF SnippetRow, SnippetReads, Control
<1>2. UNCHANGED <<disk, graph, asked, found, checked, sources, unseen>>
  BY DEF SnippetRow, SnippetReads
<1>3. pc' = "read_row" => symbol \in Symbols
  BY DEF SnippetRow, SnippetReads
<1>4. TypeInv' /\ Control'
  BY <1>1, <1>2, <1>3 DEF TypeInv, Control, graph, asked, found, checked, sources
<1>5. Comparison'
  BY <1>1, <1>2 DEF Comparison, graph, asked, checked
<1>6. Validation'
  BY <1>2 DEF Validation, graph, asked, sources
<1>7. CASE answer' = Nothing
  BY <1>4, <1>5, <1>6, <1>7, NothingSent
<1>8. CASE answer' # Nothing
  <2>1. answer = Nothing
    BY <1>1 DEF Sent
  <2>2. /\ SnippetReads /\ Admits(FileOf[symbol]) /\ pc' = "done"
        /\ answer' = [Nothing EXCEPT !.names = {symbol},
                        !.lines = Text(FileOf[symbol], disk[FileOf[symbol]], span[symbol][1], span[symbol][2])]
    BY <1>8, <2>1 DEF SnippetRow, SnippetReads
  <2>3. answer'.edges = {}
        /\ answer'.lines = Text(FileOf[symbol], disk[FileOf[symbol]], span[symbol][1], span[symbol][2])
    BY <2>2 DEF Nothing
  <2>4. \A t \in answer'.lines : t.content = disk[FileOf[symbol]]
    BY <2>3 DEF Text
  <2>5. SourceIsIndexed'
    BY <1>1, <1>2, <2>2, <2>4 DEF SourceIsIndexed, Admits, SnippetReads, asked
  <2>6. EvidenceHasSources' /\ Sent'
    BY <2>2, <2>3 DEF EvidenceHasSources, Sent
  <2> QED BY <1>4, <1>5, <1>6, <2>5, <2>6
<1> QED BY <1>7, <1>8

LEMMA NextIInv == IInv /\ [Next]_vars => IInv'
<1> SUFFICES ASSUME IInv, [Next]_vars PROVE IInv'
  OBVIOUS
<1>1. CASE \E f \in Files, c \in Contents : Edit(f, c)
  BY <1>1, EditStep
<1>2. CASE Reindex
  BY <1>2, ReindexStep
<1>3. CASE Search
  BY <1>3, SearchStep
<1>4. CASE NoManifest \/ OutOfBudget \/ (\E f \in todo : Compare(f)) \/ AllCompared
  BY <1>4, FreshnessStep
<1>5. CASE \E n \in unread : ReadNode(n)
  BY <1>5, ReadStep
<1>6. CASE Compose
  BY <1>6, ComposeStep
<1>7. CASE Affected
  BY <1>7, ImpactStep
<1>8. CASE SnippetRow \/ SnippetReads
  BY <1>8, SnippetStep
<1>9. CASE UNCHANGED vars
  BY <1>9 DEF IInv, TypeInv, Control, Comparison, Validation, Sent, SourceIsIndexed,
       EvidenceHasSources,
              vars, graph, asked, found, checked, sources
<1> QED BY <1>1, <1>2, <1>3, <1>4, <1>5, <1>6, <1>7, <1>8, <1>9 DEF Next

LEMMA Invariant == Spec => []IInv
BY InitIInv, NextIInv, PTL DEF Spec

\* No text of a source is served that the graph, or the row of a snippet, was
\* not made from, whatever is edited when (context.py:111, daemon.py:226).
THEOREM SourceIndexed == Spec => []SourceIsIndexed
<1>1. IInv => SourceIsIndexed
  BY DEF IInv
<1> QED BY <1>1, Invariant, PTL

\* Each end of an edge that explore shows has a validated source, and a graph in
\* doubt shows none (context.py:137-140).
THEOREM EvidenceSourced == Spec => []EvidenceHasSources
<1>1. IInv => EvidenceHasSources
  BY DEF IInv
<1> QED BY <1>1, Invariant, PTL

\* Evidence without a warning means that every file of the graph has been seen as
\* indexed during the request (context.py:14-38).
THEOREM EvidenceFresh == Spec => []EvidenceIsFresh
<1>1. IInv => EvidenceIsFresh
  BY DEF IInv, EvidenceIsFresh, Comparison, Sent
<1> QED BY <1>1, Invariant, PTL

-----------------------------------------------------------------------------
(* The merging of spans.                                                   *)

Spans == Nat \X Nat

LEMMA EarliestSpan ==
  ASSUME NEW R \in SUBSET Spans, R # {}
  PROVE  \E x \in R : \A y \in R \ {x} : Earlier(x, y)
<1> DEFINE Starts == {r[1] : r \in R}
<1>1. Starts \subseteq Nat /\ Starts # {}
  BY DEF Spans
<1>2. PICK a \in Starts : \A k \in Starts : a <= k
  BY <1>1, LeastNumber
<1> DEFINE Ends == {r[2] : r \in {q \in R : q[1] = a}}
<1>3. Ends \subseteq Nat /\ Ends # {}
  BY <1>2 DEF Spans
<1>4. PICK b \in Ends : \A k \in Ends : b <= k
  BY <1>3, LeastNumber
<1>5. PICK x \in R : x[1] = a /\ x[2] = b
  BY <1>4
<1>6. ASSUME NEW y \in R \ {x} PROVE Earlier(x, y)
  <2>1. /\ x \in Nat \X Nat /\ y \in Nat \X Nat
        /\ x[1] \in Nat /\ x[2] \in Nat /\ y[1] \in Nat /\ y[2] \in Nat
    BY DEF Spans
  <2>2. a <= y[1] /\ (y[1] = a => b <= y[2])
    BY <1>2, <1>4
  <2>3. ~(x[1] = y[1] /\ x[2] = y[2])
    BY <2>1
  <2> QED BY <1>5, <2>1, <2>2, <2>3 DEF Earlier
<1> QED BY <1>6

LEMMA EarlierIsTransitive ==
  ASSUME NEW x \in Spans, NEW y \in Spans, NEW z \in Spans, Earlier(x, y), Earlier(y, z)
  PROVE  Earlier(x, z)
<1>1. /\ x[1] \in Nat /\ x[2] \in Nat /\ y[1] \in Nat /\ y[2] \in Nat /\ z[1] \in Nat /\ z[2] \in Nat
  BY DEF Spans
<1> QED BY <1>1 DEF Earlier

InOrder(s, R) ==
  /\ \A r \in R : \E i \in DOMAIN s : s[i] = r
  /\ \A i, j \in DOMAIN s : i < j => Earlier(s[i], s[j])

\* Any finite set of spans can be sorted.
LEMMA SortingExists ==
  ASSUME NEW R \in SUBSET Spans, IsFiniteSet(R)
  PROVE  \E s \in [1..Cardinality(R) -> R] : InOrder(s, R)
<1> DEFINE Sortable(n) == \A Q \in SUBSET Spans :
             IsFiniteSet(Q) /\ Cardinality(Q) = n => \E s \in [1..n -> Q] : InOrder(s, Q)
           S == {n \in Nat : Sortable(n)}
<1>1. 0 \in S
  <2> SUFFICES ASSUME NEW Q \in SUBSET Spans, IsFiniteSet(Q), Cardinality(Q) = 0
               PROVE  \E s \in [1..0 -> Q] : InOrder(s, Q)
    OBVIOUS
  <2>1. Q = {}
    BY FS_EmptySet
  <2>2. [i \in 1..0 |-> i] \in [1..0 -> Q] /\ DOMAIN [i \in 1..0 |-> i] = {}
    OBVIOUS
  <2> QED BY <2>1, <2>2 DEF InOrder
<1>2. ASSUME NEW n \in Nat, n \in S PROVE n + 1 \in S
  <2> SUFFICES ASSUME NEW Q \in SUBSET Spans, IsFiniteSet(Q), Cardinality(Q) = n + 1
               PROVE  \E s \in [1..(n + 1) -> Q] : InOrder(s, Q)
    OBVIOUS
  <2>1. Q # {}
    BY FS_EmptySet
  <2>2. PICK x \in Q : \A y \in Q \ {x} : Earlier(x, y)
    BY <2>1, EarliestSpan
  <2> DEFINE P == Q \ {x}
  <2>3. P \in SUBSET Spans /\ IsFiniteSet(P) /\ Cardinality(P) = n
    <3>1. IsFiniteSet(P) /\ Cardinality(P) = Cardinality(Q) - 1
      BY FS_RemoveElement
    <3>2. (n + 1) - 1 = n
      OBVIOUS
    <3> QED BY <3>1, <3>2
  <2>4. PICK s \in [1..n -> P] : InOrder(s, P)
    BY <1>2, <2>3
  <2> DEFINE t == [i \in 1..(n + 1) |-> IF i = 1 THEN x ELSE s[i - 1]]
  <2>5. t[1] = x /\ \A i \in 1..(n + 1) : i # 1 => i - 1 \in 1..n /\ t[i] = s[i - 1] /\ t[i] \in P
    BY <2>4
  <2>6. t \in [1..(n + 1) -> Q] /\ DOMAIN t = 1..(n + 1)
    BY <2>5
  <2>7. \A i \in 1..n : i + 1 \in 1..(n + 1) /\ t[i + 1] = s[i]
    OBVIOUS
  <2> HIDE DEF t
  <2>8. ASSUME NEW r \in Q PROVE \E i \in DOMAIN t : t[i] = r
    <3>1. CASE r = x
      BY <2>5, <2>6, <3>1
    <3>2. CASE r # x
      <4>1. PICK i \in 1..n : s[i] = r
        BY <2>4, <3>2 DEF InOrder
      <4> QED BY <2>6, <2>7, <4>1
    <3> QED BY <3>1, <3>2
  <2>9. ASSUME NEW i \in 1..(n + 1), NEW j \in 1..(n + 1), i < j PROVE Earlier(t[i], t[j])
    <3>1. j # 1 /\ t[j] = s[j - 1] /\ t[j] \in Q \ {x} /\ j - 1 \in 1..n
      BY <2>5, <2>9
    <3>2. CASE i = 1
      BY <2>2, <2>5, <3>1, <3>2
    <3>3. CASE i # 1
      <4>1. i - 1 \in 1..n /\ t[i] = s[i - 1] /\ i - 1 < j - 1
        BY <2>5, <2>9, <3>3
      <4> QED BY <2>4, <3>1, <4>1 DEF InOrder
    <3> QED BY <3>2, <3>3
  <2>10. InOrder(t, Q)
    BY <2>6, <2>8, <2>9 DEF InOrder
  <2> QED BY <2>6, <2>10
<1> HIDE DEF S
<1>3. Nat \subseteq S
  BY <1>1, <1>2, NatInductionSet
<1>4. Cardinality(R) \in Nat
  BY FS_CardinalityType
<1> QED BY <1>3, <1>4 DEF S

LEMMA SortedIsInOrder ==
  ASSUME NEW R \in SUBSET Spans, IsFiniteSet(R)
  PROVE  Sorted(R) \in [1..Cardinality(R) -> R] /\ InOrder(Sorted(R), R)
BY SortingExists DEF Sorted, InOrder

\* A line is in one of the spans of a list, and between any two spans is a gap.
Covers(M, k) == \E i \in DOMAIN M : k \in M[i][1]..M[i][2]
Apart(M) == \A i \in 1..(Len(M) - 1) : M[i][2] + 1 < M[i + 1][1]

LEMMA JoinMerges ==
  ASSUME NEW M \in Seq(Spans), NEW r \in Spans, Apart(M),
         Len(M) > 0 => M[Len(M)][1] <= r[1]
  PROVE  /\ Join(M, r) \in Seq(Spans) /\ Apart(Join(M, r))
         /\ Len(Join(M, r)) > 0 /\ Join(M, r)[Len(Join(M, r))][1] <= r[1]
         /\ \A k \in Nat : Covers(Join(M, r), k) <=> Covers(M, k) \/ k \in r[1]..r[2]
<1> DEFINE n == Len(M)
           J == Join(M, r)
<1>1. n \in Nat /\ DOMAIN M = 1..n /\ r[1] \in Nat /\ r[2] \in Nat
  BY LenProperties DEF Spans
<1>2. \A i \in 1..n : M[i] \in Spans /\ M[i] = <<M[i][1], M[i][2]>> /\ M[i][1] \in Nat /\ M[i][2] \in Nat
  BY <1>1, ElementOfSeq DEF Spans
<1> HIDE DEF n
<1>3. CASE n > 0 /\ r[1] <= M[n][2] + 1
  <2> DEFINE a == M[n][1]
             b == M[n][2]
             c == IF b > r[2] THEN b ELSE r[2]
  <2>1. n \in 1..n /\ a \in Nat /\ b \in Nat /\ c \in Nat /\ a <= r[1] /\ r[1] <= b + 1
    BY <1>1, <1>2, <1>3
  <2>2. J = [M EXCEPT ![n] = <<a, c>>]
    BY <1>3, <2>1 DEF Join, n
  <2>3. <<a, c>> \in Spans
    BY <2>1 DEF Spans
  <2>4. J \in Seq(Spans) /\ Len(J) = n /\ J[n] = <<a, c>> /\ \A i \in 1..n : i # n => J[i] = M[i]
    BY <1>1, <2>1, <2>2, <2>3, ExceptSeq DEF n
  <2> HIDE DEF J
  <2>5. J[n][1] = a /\ J[n][2] = c
    BY <2>4
  <2>6. Apart(J)
    <3> SUFFICES ASSUME NEW i \in 1..(n - 1) PROVE J[i][2] + 1 < J[i + 1][1]
      BY <2>4 DEF Apart
    <3>1. i \in 1..n /\ i # n /\ i + 1 \in 1..n
      BY <1>1
    <3>2. M[i][2] + 1 < M[i + 1][1]
      BY DEF Apart, n
    <3>3. J[i] = M[i] /\ J[i + 1][1] = M[i + 1][1]
      BY <2>4, <2>5, <3>1
    <3> QED BY <3>2, <3>3
  <2>7. \A k \in Nat : k \in a..c <=> k \in a..b \/ k \in r[1]..r[2]
    BY <1>1, <2>1
  <2>8. ASSUME NEW k \in Nat PROVE Covers(J, k) <=> Covers(M, k) \/ k \in r[1]..r[2]
    <3>1. DOMAIN J = 1..n
      BY <2>4, LenProperties
    <3>2. Covers(J, k) <=> (\E i \in 1..n : i # n /\ k \in M[i][1]..M[i][2]) \/ k \in a..c
      BY <2>1, <2>4, <2>5, <3>1 DEF Covers
    <3>3. Covers(M, k) <=> (\E i \in 1..n : i # n /\ k \in M[i][1]..M[i][2]) \/ k \in a..b
      BY <1>1, <2>1 DEF Covers
    <3> QED BY <2>7, <3>2, <3>3
  <2>9. Len(J) > 0 /\ J[Len(J)][1] <= r[1]
    BY <1>3, <2>1, <2>4, <2>5
  <2> QED BY <2>4, <2>6, <2>8, <2>9 DEF J
<1>4. CASE ~(n > 0 /\ r[1] <= M[n][2] + 1)
  <2>1. J = Append(M, r)
    BY <1>4 DEF Join, n
  <2>2. J \in Seq(Spans) /\ Len(J) = n + 1 /\ J[n + 1] = r /\ \A i \in 1..n : J[i] = M[i]
    BY <2>1, AppendProperties DEF n
  <2> HIDE DEF J
  <2>3. Apart(J)
    <3> SUFFICES ASSUME NEW i \in 1..n PROVE J[i][2] + 1 < J[i + 1][1]
      BY <1>1, <2>2 DEF Apart
    <3>1. CASE i = n
      BY <1>1, <1>2, <1>4, <2>2, <3>1
    <3>2. CASE i # n
      <4>1. i \in 1..(n - 1) /\ i + 1 \in 1..n
        BY <1>1, <3>2
      <4> QED BY <2>2, <4>1 DEF Apart, n
    <3> QED BY <3>1, <3>2
  <2>4. ASSUME NEW k \in Nat PROVE Covers(J, k) <=> Covers(M, k) \/ k \in r[1]..r[2]
    <3>1. DOMAIN J = 1..(n + 1) /\ n + 1 \in 1..(n + 1) /\ \A i \in 1..(n + 1) : i = n + 1 \/ i \in 1..n
      BY <1>1, <2>2, LenProperties
    <3>2. \A i \in 1..n : i \in 1..(n + 1)
      BY <1>1
    <3> QED BY <1>1, <2>2, <3>1, <3>2 DEF Covers
  <2> QED BY <1>1, <2>2, <2>3, <2>4 DEF J
<1> QED BY <1>3, <1>4

LEMMA JoinType == \A M \in Seq(Spans), r \in Spans : Join(M, r) \in Seq(Spans)
<1> SUFFICES ASSUME NEW M \in Seq(Spans), NEW r \in Spans PROVE Join(M, r) \in Seq(Spans)
  OBVIOUS
<1> DEFINE n == Len(M)
<1>1. n \in Nat /\ r[1] \in Nat /\ r[2] \in Nat
  BY LenProperties DEF Spans
<1>2. CASE n > 0 /\ r[1] <= M[n][2] + 1
  <2> DEFINE c == IF M[n][2] > r[2] THEN M[n][2] ELSE r[2]
  <2>1. n \in 1..n /\ M[n] \in Spans
    BY <1>1, <1>2, ElementOfSeq
  <2>2. <<M[n][1], c>> \in Spans
    BY <1>1, <2>1 DEF Spans
  <2>3. Join(M, r) = [M EXCEPT ![n] = <<M[n][1], c>>]
    BY <1>2 DEF Join
  <2> HIDE DEF c
  <2> QED BY <2>1, <2>2, <2>3, ExceptSeq
<1>3. CASE ~(n > 0 /\ r[1] <= M[n][2] + 1)
  <2>1. Join(M, r) = Append(M, r)
    BY <1>3 DEF Join
  <2> QED BY <2>1, AppendProperties
<1> QED BY <1>2, <1>3

\* The merged spans of any finite set cover the same lines, with a gap between
\* any two of them.
LEMMA MergedCovers ==
  ASSUME NEW R \in SUBSET Spans, IsFiniteSet(R)
  PROVE  /\ Merged(R) \in Seq(Spans) /\ Apart(Merged(R))
         /\ \A k \in Nat : Covers(Merged(R), k) <=> \E r \in R : k \in r[1]..r[2]
<1> DEFINE N == Cardinality(R)
           s == Sorted(R)
           U == Seq(Spans)
           step == [p \in Nat \X U |-> IF p[1] \in 1..N THEN Join(p[2], s[p[1]]) ELSE p[2]]
           merge[i \in 0..N] == IF i = 0 THEN <<>> ELSE Join(merge[i - 1], s[i])
<1>1. N \in Nat /\ s \in [1..N -> R] /\ InOrder(s, R)
  BY FS_CardinalityType, SortedIsInOrder
<1>2. Merged(R) = merge[N]
  BY DEF Merged
<1> HIDE DEF N, s
<1>3. step \in [Nat \X U -> U]
  <2> SUFFICES ASSUME NEW i \in Nat, NEW M \in U
               PROVE  (IF i \in 1..N THEN Join(M, s[i]) ELSE M) \in U
    OBVIOUS
  <2> QED BY <1>1, JoinType
<1>4. \A i \in 1..N, M \in U : step[<<i, M>>] = Join(M, s[i])
  <2> \A i \in 1..N : i \in Nat
    BY <1>1
  <2> QED OBVIOUS
<1>5. <<>> \in U
  BY EmptySeq
<1> HIDE DEF U, step, merge
<1>6. PICK f \in [Nat -> U] : Recurs(f, <<>>, step)
  BY <1>3, <1>5, RecursionExists
<1>7. /\ f[0] = <<>>
      /\ \A i \in 1..N : f[i] = Join(f[i - 1], s[i])
  <2>1. ASSUME NEW i \in 1..N PROVE f[i] = Join(f[i - 1], s[i])
    <3>1. i \in Nat \ {0} /\ i - 1 \in Nat
      BY <1>1
    <3>2. f[i] = step[<<i, f[i - 1]>>] /\ f[i - 1] \in U
      BY <1>6, <3>1 DEF Recurs
    <3> QED BY <1>4, <3>2
  <2> QED BY <1>6, <2>1 DEF Recurs
<1>8. merge = [i \in 0..N |-> IF i = 0 THEN <<>> ELSE Join(merge[i - 1], s[i])]
  <2> DEFINE g == [i \in 0..N |-> f[i]]
  <2>1. \A i \in 1..N : i \in 0..N /\ i - 1 \in 0..N
    BY <1>1
  <2>2. \A i \in 0..N : i = 0 \/ i \in 1..N
    BY <1>1
  <2>3. \A i \in 0..N : g[i] = IF i = 0 THEN <<>> ELSE Join(g[i - 1], s[i])
    BY <1>7, <2>1, <2>2
  <2> HIDE DEF g
  <2>4. g = [i \in 0..N |-> IF i = 0 THEN <<>> ELSE Join(g[i - 1], s[i])]
    BY <2>3 DEF g
  <2> QED BY <2>4 DEF merge
<1>9. merge[0] = <<>> /\ \A i \in 1..N : merge[i] = Join(merge[i - 1], s[i])
  <2>1. 0 \in 0..N /\ \A i \in 1..N : i \in 0..N /\ i # 0
    BY <1>1
  <2> QED BY <1>8, <2>1
<1> DEFINE Merges(i) ==
      /\ merge[i] \in Seq(Spans) /\ Apart(merge[i])
      /\ i # 0 => Len(merge[i]) > 0 /\ merge[i][Len(merge[i])][1] <= s[i][1]
      /\ i = 0 => merge[i] = <<>>
      /\ \A k \in Nat : Covers(merge[i], k) <=> \E j \in 1..i : k \in s[j][1]..s[j][2]
           S == {i \in Nat : i <= N => Merges(i)}
<1>10. 0 \in S
  <2>1. Len(<<>>) = 0 /\ DOMAIN <<>> = {} /\ <<>> \in Seq(Spans)
    BY EmptySeq
  <2>2. Merges(0)
    BY <1>9, <2>1 DEF Apart, Covers
  <2> HIDE DEF Merges
  <2> QED BY <2>2
<1>11. ASSUME NEW i \in Nat, i \in S, i + 1 <= N PROVE Merges(i + 1)
  <2>1. Merges(i) /\ i + 1 \in 1..N /\ (i + 1) - 1 = i
    BY <1>1, <1>11
  <2>2. merge[i + 1] = Join(merge[i], s[i + 1]) /\ s[i + 1] \in Spans
    BY <1>1, <1>9, <2>1
  <2>3. Len(merge[i]) > 0 => merge[i][Len(merge[i])][1] <= s[i + 1][1]
    <3>1. CASE i = 0
      BY <2>1, <3>1, EmptySeq
    <3>2. CASE i # 0
      <4>1. i \in 1..N /\ i < i + 1
        BY <2>1, <1>1, <3>2
      <4>2. Earlier(s[i], s[i + 1]) /\ s[i] \in Spans
        BY <1>1, <2>1, <4>1 DEF InOrder
      <4>3. s[i][1] \in Nat /\ s[i + 1][1] \in Nat /\ s[i][1] <= s[i + 1][1]
        BY <2>2, <4>2 DEF Earlier, Spans
      <4>4. Len(merge[i]) > 0 => merge[i][Len(merge[i])][1] \in Nat
        <5> SUFFICES ASSUME Len(merge[i]) > 0 PROVE merge[i][Len(merge[i])][1] \in Nat
          OBVIOUS
        <5>1. Len(merge[i]) \in 1..Len(merge[i])
          BY <2>1, LenProperties
        <5>2. merge[i][Len(merge[i])] \in Spans
          BY <2>1, <5>1, ElementOfSeq
        <5> QED BY <5>2 DEF Spans
      <4> QED BY <2>1, <3>2, <4>3, <4>4
    <3> QED BY <3>1, <3>2
  <2>4. /\ merge[i + 1] \in Seq(Spans) /\ Apart(merge[i + 1])
        /\ Len(merge[i + 1]) > 0 /\ merge[i + 1][Len(merge[i + 1])][1] <= s[i + 1][1]
        /\ \A k \in Nat : Covers(merge[i + 1], k) <=> Covers(merge[i], k) \/ k \in s[i + 1][1]..s[i + 1][2]
    BY <2>1, <2>2, <2>3, JoinMerges
  <2>5. \A j : j \in 1..(i + 1) <=> j \in 1..i \/ j = i + 1
    OBVIOUS
  <2>6. ASSUME NEW k \in Nat
        PROVE Covers(merge[i + 1], k) <=> \E j \in 1..(i + 1) : k \in s[j][1]..s[j][2]
    BY <2>1, <2>4, <2>5
  <2> QED BY <2>4, <2>6
<1>12. Merges(N)
  <2>1. \A i \in Nat : i \in S => i + 1 \in S
    <3> HIDE DEF Merges
    <3> QED BY <1>11
  <2> HIDE DEF S, Merges
  <2>2. Nat \subseteq S
    BY <1>10, <2>1, NatInductionSet
  <2> QED BY <1>1, <2>2 DEF S
<1>13. \A k : (\E j \in 1..N : k \in s[j][1]..s[j][2]) <=> \E r \in R : k \in r[1]..r[2]
  BY <1>1 DEF InOrder
<1> QED BY <1>2, <1>12, <1>13

-----------------------------------------------------------------------------
(* Types, and what the spans of an answer cover.                           *)

LEMMA SymbolsAreFinite == IsFiniteSet(Symbols)
BY GraphAssumption, FS_Subset

\* Within satisfies its recursion.
LEMMA WithinUnfolds ==
  ASSUME NEW T, T \subseteq Names
  PROVE  /\ Within(T, 0) = T
         /\ \A k \in Nat : /\ Within(T, k) \subseteq Names /\ T \subseteq Within(T, k)
                          /\ Within(T, k + 1) = Within(T, k) \cup Neighbours(Within(T, k))
<1> DEFINE U == SUBSET Names
           step == [p \in Nat \X U |-> p[2] \cup Neighbours(p[2])]
           reach[i \in Nat] == IF i = 0 THEN T ELSE reach[i - 1] \cup Neighbours(reach[i - 1])
<1>1. \A S \in U : S \cup Neighbours(S) \in U
  BY DEF Neighbours
<1>2. step \in [Nat \X U -> U]
  BY <1>1
<1>3. T \in U
  OBVIOUS
<1>4. \A i \in Nat, S \in U : step[<<i, S>>] = S \cup Neighbours(S)
  OBVIOUS
<1> HIDE DEF U, step, reach
<1>5. PICK f \in [Nat -> U] : Recurs(f, T, step)
  BY <1>2, <1>3, RecursionExists
<1>6. f[0] = T /\ \A i \in Nat \ {0} : f[i] = step[<<i, f[i - 1]>>]
  BY <1>5 DEF Recurs
<1>7. ASSUME NEW i \in Nat, i # 0 PROVE f[i] = f[i - 1] \cup Neighbours(f[i - 1]) /\ f[i] \in U
  <2>1. i - 1 \in Nat /\ f[i - 1] \in U /\ f[i] \in U
    BY <1>7
  <2> QED BY <1>4, <1>6, <1>7, <2>1
<1>8. f = [i \in Nat |-> IF i = 0 THEN T ELSE f[i - 1] \cup Neighbours(f[i - 1])]
  BY <1>6, <1>7
<1>9. reach = [i \in Nat |-> IF i = 0 THEN T ELSE reach[i - 1] \cup Neighbours(reach[i - 1])]
  BY <1>8 DEF reach
<1>10. \A k : Within(T, k) = reach[k]
  BY DEF Within, reach
<1>11. reach[0] = T
  BY <1>9
<1>12. ASSUME NEW k \in Nat PROVE reach[k + 1] = reach[k] \cup Neighbours(reach[k])
  <2>1. k + 1 \in Nat /\ k + 1 # 0 /\ (k + 1) - 1 = k
    OBVIOUS
  <2> QED BY <1>9, <2>1
<1>13. \A k \in Nat : reach[k] \subseteq Names /\ T \subseteq reach[k]
  <2> DEFINE S == {k \in Nat : reach[k] \subseteq Names /\ T \subseteq reach[k]}
  <2>1. 0 \in S
    BY <1>11
  <2>2. \A k \in Nat : k \in S => k + 1 \in S
    BY <1>12 DEF Neighbours
  <2> HIDE DEF S
  <2>3. Nat \subseteq S
    BY <2>1, <2>2, NatInductionSet
  <2> QED BY <2>3 DEF S
<1> QED BY <1>10, <1>11, <1>12, <1>13

\* The text of a source has numbered lines.
LEMMA TextHasLines ==
  ASSUME NEW f \in Files, NEW c \in Versions, NEW a, NEW b
  PROVE  Text(f, c, a, b) \subseteq Lines
<1>1. \A i \in DOMAIN SplitLines(f) : i \in Nat /\ SplitLines(f)[i] \in Nat
  <2>1. Length \in Nat
    BY BoundsAssumption
  <2> QED BY <2>1 DEF SplitLines
<1> QED BY <1>1 DEF Text, Lines

LEMMA WalksHaveTypes ==
  ASSUME NEW S, S \subseteq Names, NEW w \in Walks(S)
  PROVE  w.reach \subseteq Names /\ w.edges \subseteq Calls /\ w.cut \in BOOLEAN
<1>1. Within(S, Depth) \subseteq Names
  BY BoundsAssumption, WithinUnfolds
<1>2. \/ w = [reach |-> Within(S, Depth), edges |-> EdgesAt(Within(S, Depth - 1)), cut |-> FALSE]
      \/ \E R \in SUBSET Within(S, Depth) :
           w = [reach |-> S \cup R, edges |-> {e \in Calls : {e[1], e[2]} \subseteq S \cup R}, cut |-> TRUE]
  BY DEF Walks
<1>3. EdgesAt(Within(S, Depth - 1)) \subseteq Calls
  BY DEF EdgesAt
<1>4. CASE w = [reach |-> Within(S, Depth), edges |-> EdgesAt(Within(S, Depth - 1)), cut |-> FALSE]
  BY <1>1, <1>3, <1>4
<1>5. ASSUME NEW R \in SUBSET Within(S, Depth),
             w = [reach |-> S \cup R, edges |-> {e \in Calls : {e[1], e[2]} \subseteq S \cup R}, cut |-> TRUE]
      PROVE  w.reach \subseteq Names /\ w.edges \subseteq Calls /\ w.cut \in BOOLEAN
  <2>1. w.reach = S \cup R /\ w.edges = {e \in Calls : {e[1], e[2]} \subseteq S \cup R} /\ w.cut = TRUE
    BY <1>5
  <2> QED BY <1>1, <2>1
<1> QED BY <1>2, <1>4, <1>5

LEMMA InitTypes == Init => TypeOK
<1> SUFFICES ASSUME Init PROVE TypeOK
  OBVIOUS
<1>1. DOMAIN content = {} /\ content \in [DOMAIN content -> Contents]
  BY DEF Init
<1>2. /\ walk.reach = {} /\ walk.edges = {} /\ walk.cut = FALSE
      /\ answer.names = {} /\ answer.edges = {} /\ answer.lines = {} /\ answer.truncated = FALSE
  BY DEF Init, None, Nothing
<1> QED BY <1>1, <1>2 DEF Init, TypeOK

LEMMA TypesStep == IInv /\ TypeOK /\ [Next]_vars => TypeOK'
<1> SUFFICES ASSUME IInv, TypeOK, [Next]_vars PROVE TypeOK'
  OBVIOUS
<1> USE DEF TypeOK
<1>1. CASE \E f \in Files, c \in Contents : Edit(f, c)
  BY <1>1 DEF Edit, graph, asked, found, checked, sources
<1>2. CASE Reindex
  <2>1. disk \in [Files -> Versions]
    BY <1>2 DEF Reindex
  <2> QED BY <1>2, <2>1 DEF Reindex, asked, found, checked, sources
<1>3. CASE Search
  <2>1. candidates' \subseteq Symbols /\ roots' \subseteq candidates' /\ roots' \subseteq Names
    BY <1>3, GraphAssumption DEF Search, Pages
  <2>2. walk'.reach \subseteq Names /\ walk'.edges \subseteq Calls /\ walk'.cut \in BOOLEAN
    BY <1>3, <2>1, WalksHaveTypes DEF Search
  <2> QED BY <1>3, <2>1, <2>2 DEF Search, graph, asked, checked
<1>4. CASE NoManifest \/ OutOfBudget \/ (\E f \in todo : Compare(f)) \/ AllCompared
  <2>1. UNCHANGED <<disk, graph, asked, found, sources, expected, answer, unseen>> /\ todo' \subseteq todo
    BY <1>4 DEF NoManifest, OutOfBudget, Compare, AllCompared
  <2>2. warning' \in {"none", "stale", "unverified"} /\ pc' \in {"freshness", "read", "walk", "raised"}
    BY <1>4 DEF NoManifest, OutOfBudget, Compare, AllCompared, FreshnessIs
  <2> QED BY <2>1, <2>2 DEF graph, asked, found, sources
<1>5. CASE \E n \in unread : ReadNode(n)
  <2>1. PICK n \in unread : ReadNode(n)
    BY <1>5
  <2>2. PICK f, c :
          /\ f = FileOf[n]
          /\ c = IF f \in DOMAIN content THEN content[f] ELSE disk[f]
          /\ content' = [g \in DOMAIN content \cup {f} |-> IF g = f THEN c ELSE content[g]]
          /\ valid' = IF c # Gone /\ Vetted(f, c) THEN valid \cup {n} ELSE valid
    BY <2>1 DEF ReadNode
  <2>3. f \in Files /\ n \in Symbols
    BY <2>2, GraphAssumption
  <2>4. c \in Contents
    BY <2>2, <2>3
  <2>5. DOMAIN content' \subseteq Files /\ content' \in [DOMAIN content' -> Contents]
    BY <2>2, <2>3, <2>4
  <2>6. valid' \subseteq Symbols /\ unread' \subseteq Symbols
    BY <2>1, <2>2, <2>3 DEF ReadNode
  <2>7. UNCHANGED <<disk, graph, asked, pc, found, checked, expected, answer, unseen>>
    BY <2>1 DEF ReadNode
  <2> QED BY <2>5, <2>6, <2>7 DEF graph, asked, found, checked
<1>6. CASE Compose
  <2>1. UNCHANGED <<disk, graph, asked, found, checked, sources, expected, unseen>> /\ pc' = "done"
    BY <1>6 DEF Compose
  <2>2. /\ answer'.names = roots \cap valid /\ answer'.edges = Evidence /\ answer'.lines = SourceLines
        /\ answer'.truncated \in BOOLEAN
    BY <1>6 DEF Compose, Partial, HasMore
  <2>3. Evidence \subseteq Calls
    BY DEF Evidence
  <2>4. SourceLines \subseteq Lines
    <3> SUFFICES ASSUME NEW n \in valid, NEW a, NEW b
                 PROVE  Text(FileOf[n], content[FileOf[n]], a, b) \subseteq Lines
      BY DEF SourceLines
    <3>1. FileOf[n] \in Files /\ content[FileOf[n]] \in Contents /\ content[FileOf[n]] = hash[FileOf[n]]
      BY GraphAssumption DEF IInv, Validation
    <3>2. content[FileOf[n]] \in Versions
      BY <3>1, ContentAssumption DEF Contents
    <3> QED BY <3>1, <3>2, TextHasLines
  <2> QED BY <2>1, <2>2, <2>3, <2>4 DEF graph, asked, found, checked, sources
<1>7. CASE Affected
  <2>1. UNCHANGED <<disk, graph, asked, candidates, roots, checked, sources, expected, unseen>>
    BY <1>7 DEF Affected
  <2>2. symbol \in Names /\ pc = "walk" /\ answer = Nothing
    BY <1>7 DEF Affected, IInv, Control, Sent
  <2>3. walk'.reach \subseteq Names /\ walk'.edges \subseteq Calls /\ walk'.cut \in BOOLEAN
    BY <1>7, <2>2, WalksHaveTypes DEF Affected
  <2>4. /\ answer'.names \subseteq Symbols /\ answer'.edges \subseteq Calls
        /\ answer'.lines \subseteq Lines /\ answer'.truncated \in BOOLEAN /\ pc' \in {"done", "raised"}
    <3>1. CASE symbol \in Symbols
      BY <1>7, <2>3, <3>1 DEF Affected, Nothing
    <3>2. CASE symbol \notin Symbols
      BY <1>7, <3>2 DEF Affected
    <3> QED BY <3>1, <3>2
  <2> QED BY <2>1, <2>3, <2>4 DEF graph, asked, checked, sources
<1>8. CASE SnippetRow
  BY <1>8, GraphAssumption DEF SnippetRow, graph, asked, found, checked, sources
<1>9. CASE SnippetReads
  <2> DEFINE f == FileOf[symbol]
  <2>1. UNCHANGED <<disk, graph, asked, found, checked, sources, expected, unseen>> /\ pc' \in {"done", "raised"}
    BY <1>9 DEF SnippetReads
  <2>2. /\ answer'.names \subseteq Symbols /\ answer'.edges \subseteq Calls
        /\ answer'.lines \subseteq Lines /\ answer'.truncated \in BOOLEAN
    <3>1. CASE answer' = answer
      BY <3>1
    <3>2. CASE Admits(f) /\ answer' = [Nothing EXCEPT !.names = {symbol},
                               !.lines = Text(f, disk[f], span[symbol][1], span[symbol][2])]
      <4>1. symbol \in Symbols /\ f \in Files
        BY <1>9, GraphAssumption DEF SnippetReads, IInv, Control
      <4>2. disk[f] \in Versions
        BY <3>2, <4>1 DEF Admits, Contents
      <4>3. Text(f, disk[f], span[symbol][1], span[symbol][2]) \subseteq Lines
        BY <4>1, <4>2, TextHasLines
      <4> QED BY <3>2, <4>1, <4>3 DEF Nothing
    <3> QED BY <1>9, <3>1, <3>2 DEF SnippetReads
  <2> QED BY <2>1, <2>2 DEF graph, asked, found, checked, sources
<1>10. CASE UNCHANGED vars
  BY <1>10 DEF vars, graph, asked, found, checked, sources
<1> QED BY <1>1, <1>2, <1>3, <1>4, <1>5, <1>6, <1>7, <1>8, <1>9, <1>10 DEF Next

\* Every variable keeps its type.
THEOREM TypeCorrect == Spec => []TypeOK
BY InitTypes, TypesStep, Invariant, PTL DEF Spec

LEMMA RangesAreSpans ==
  ASSUME TypeOK, NEW f
  PROVE  Ranges(f) \in SUBSET Spans /\ IsFiniteSet(Ranges(f))
<1> DEFINE R == Ranges(f)
           V == {m \in valid : FileOf[m] = f}
<1>1. span \in [Symbols -> Spans] /\ valid \subseteq Symbols
  BY GraphAssumption DEF TypeOK, Spans
<1>2. IsFiniteSet(V)
  BY <1>1, SymbolsAreFinite, FS_Subset
<1>3. R = {span[n] : n \in V}
  BY DEF Ranges
<1>4. [n \in V |-> span[n]] \in Surjection(V, R)
  BY <1>3 DEF Surjection
<1> QED BY <1>1, <1>2, <1>3, <1>4, FS_Surjection

\* The merged spans of a file cover the lines of its nodes, each line once,
\* however the spans overlap, nest and touch (context.py:147-156).
THEOREM SpansMerged == Spec => []SpansCoverOnce
<1>1. TypeOK => SpansCoverOnce
  <2> SUFFICES ASSUME TypeOK, NEW f \in Files
               PROVE  LET merged == Merged(Ranges(f)) IN
                      /\ UNION {r[1]..r[2] : r \in ToSet(merged)} = UNION {r[1]..r[2] : r \in Ranges(f)}
                      /\ \A i \in 1..(Len(merged) - 1) : merged[i][2] + 1 < merged[i + 1][1]
    BY DEF SpansCoverOnce
  <2> DEFINE R == Ranges(f)
             M == Merged(R)
  <2>1. R \in SUBSET Spans /\ IsFiniteSet(R)
    BY RangesAreSpans
  <2>2. /\ M \in Seq(Spans) /\ Apart(M)
        /\ \A k \in Nat : Covers(M, k) <=> \E r \in R : k \in r[1]..r[2]
    BY <2>1, MergedCovers
  <2> HIDE DEF R, M
  <2>3. \A r \in Spans : \A k \in r[1]..r[2] : k \in Nat
    BY DEF Spans
  <2>4. ToSet(M) \subseteq Spans
    BY <2>2, ElementOfSeq, LenProperties DEF ToSet
  <2>5. \A k \in Nat : (\E r \in ToSet(M) : k \in r[1]..r[2]) <=> Covers(M, k)
    BY DEF ToSet, Covers
  <2>6. UNION {r[1]..r[2] : r \in ToSet(M)} = UNION {r[1]..r[2] : r \in R}
    BY <2>1, <2>2, <2>3, <2>4, <2>5
  <2> QED BY <2>2, <2>6 DEF Apart, R, M
<1> QED BY <1>1, TypeCorrect, PTL

-----------------------------------------------------------------------------
(* Completeness.                                                           *)

\* What explore has found and looked at, between the search and the answer.
Explored ==
  request = "explore" =>
    /\ unread \subseteq walk.reach /\ valid \subseteq walk.reach
    /\ pc = "search" => valid = {}
    /\ pc \in {"freshness", "read"} => roots \in Pages(candidates) /\ walk \in Walks(roots)

\* What is complete when nothing was cut.
Complete(w, S) ==
  w.reach = Within(S, Depth) /\ w.edges = EdgesAt(Within(S, Depth - 1)) /\ S \subseteq w.reach

LEMMA UncutWalkIsComplete ==
  ASSUME NEW S, S \subseteq Names, NEW w \in Walks(S), w.cut = FALSE
  PROVE  Complete(w, S)
<1>1. S \subseteq Within(S, Depth)
  BY BoundsAssumption, WithinUnfolds
<1>2. w = [reach |-> Within(S, Depth), edges |-> EdgesAt(Within(S, Depth - 1)), cut |-> FALSE]
  <2>1. ASSUME NEW R, w = [reach |-> S \cup R,
                           edges |-> {e \in Calls : {e[1], e[2]} \subseteq S \cup R}, cut |-> TRUE]
        PROVE  w.cut = TRUE
    BY <2>1
  <2> QED BY <2>1 DEF Walks
<1> QED BY <1>1, <1>2 DEF Complete

\* The edges at the nodes that a walk expands end at nodes that it reaches.
LEMMA EndsAreReached ==
  ASSUME NEW S, S \subseteq Names, request = "explore", NEW e \in EdgesAt(Within(S, Depth - 1))
  PROVE  {e[1], e[2]} \subseteq Within(S, Depth)
<1> DEFINE T == Within(S, Depth - 1)
<1>1. Depth - 1 \in Nat /\ (Depth - 1) + 1 = Depth
  BY BoundsAssumption
<1>2. Within(S, Depth) = T \cup Neighbours(T)
  <2>1. Within(S, (Depth - 1) + 1) = T \cup Neighbours(T)
    BY <1>1, WithinUnfolds
  <2> QED BY <1>1, <2>1
<1>3. e \in Calls /\ e = <<e[1], e[2]>> /\ e[1] \in Names /\ e[2] \in Names
  BY GraphAssumption DEF EdgesAt
<1>4. e[1] \in T \/ e[2] \in T
  BY DEF EdgesAt
<1>5. Follows(e[1], e[2]) /\ Follows(e[2], e[1])
  BY <1>3 DEF Follows
<1> HIDE DEF T
<1> QED BY <1>2, <1>3, <1>4, <1>5 DEF Neighbours

\* A source line that the spans of a file cover is in the text served.
LEMMA CoveredLinesAreServed ==
  ASSUME TypeOK, FormFeeds = {}, NEW n \in valid, NEW k \in NodeLines(n)
  PROVE  \E t \in SourceLines : t.file = FileOf[n] /\ t.line = k
<1> DEFINE f == FileOf[n]
           R == Ranges(f)
           M == Merged(R)
<1>1. k \in Nat /\ k \in 1..Length /\ k \in span[n][1]..span[n][2] /\ Length \in Nat
  <2>1. span[n][1] \in Nat /\ span[n][2] \in Nat
    BY GraphAssumption DEF TypeOK
  <2> QED BY <2>1, BoundsAssumption DEF NodeLines
<1>2. R \in SUBSET Spans /\ IsFiniteSet(R)
  BY RangesAreSpans
<1>3. span[n] \in R
  BY DEF Ranges
<1>4. PICK i \in DOMAIN M : k \in M[i][1]..M[i][2]
  BY <1>1, <1>2, <1>3, MergedCovers DEF Covers
<1>5. M[i] \in ToSet(M) /\ M[i][1] \in Nat /\ M[i][2] \in Nat
  <2>1. M \in Seq(Spans)
    BY <1>2, MergedCovers
  <2>2. M[i] \in Spans
    BY <1>4, <2>1, ElementOfSeq, LenProperties
  <2> QED BY <1>4, <2>2 DEF ToSet, Spans
<1>6. SplitLines(f) = [j \in 1..Length |-> j]
  BY DEF SplitLines
<1>7. k \in DOMAIN SplitLines(f) /\ M[i][1] <= k /\ k <= M[i][2] /\ SplitLines(f)[k] = k
  BY <1>1, <1>4, <1>5, <1>6
<1> DEFINE t == [file |-> f, content |-> content[f], number |-> k, line |-> SplitLines(f)[k]]
<1>8. t \in Text(f, content[f], M[i][1], M[i][2])
  BY <1>7 DEF Text
<1>9. t \in SourceLines
  BY <1>5, <1>8 DEF SourceLines
<1>10. t.file = f /\ t.line = k
  BY <1>7
<1> HIDE DEF t
<1> QED BY <1>9, <1>10

LEMMA ExploreIsHonest ==
  ASSUME IInv, TypeOK, Explored, FormFeeds = {}, Compose, ~answer'.truncated
  PROVE  /\ answer'.names = candidates
         /\ answer'.edges = EdgesAt(Within(candidates, Depth - 1))
         /\ \A n \in Within(candidates, Depth) :
              n \in Symbols /\ \A k \in NodeLines(n) :
                \E t \in answer'.lines : t.file = FileOf[n] /\ t.line = k
<1>1. request = "explore" /\ pc = "read"
  BY DEF Compose, IInv, Control
<1>2. /\ answer'.names = roots \cap valid /\ answer'.edges = Evidence /\ answer'.lines = SourceLines
      /\ ~Partial
  <2>1. PICK short \in BOOLEAN :
          answer' = [names |-> roots \cap valid, edges |-> Evidence, lines |-> SourceLines,
                     truncated |-> Partial \/ short]
    BY DEF Compose
  <2>2. answer'.truncated = (Partial \/ short)
    BY <2>1, Zenon
  <2>3. ~Partial
    BY <2>2, Zenon
  <2> QED BY <2>1, <2>3
<1>3. /\ warning = "none" /\ walk.cut = FALSE
      /\ ~(Cardinality(roots) < Cardinality(candidates))
      /\ ~(Cardinality(valid) < Cardinality(walk.reach))
  <2>1. /\ warning = "none" /\ ~walk.cut
        /\ ~(Cardinality(roots) < Cardinality(candidates))
        /\ ~(Cardinality(valid) < Cardinality(walk.reach))
    BY <1>2, Zenon DEF Partial, HasMore
  <2>2. walk.cut \in BOOLEAN
    BY DEF TypeOK
  <2>3. walk.cut = FALSE
    BY <2>1, <2>2, Zenon
  <2> QED BY <2>1, <2>3, Zenon
<1>4. roots = candidates
  <2>1. roots \in SUBSET candidates /\ IsFiniteSet(candidates)
    BY SymbolsAreFinite, FS_Subset DEF TypeOK
  <2>2. Cardinality(roots) \in Nat /\ Cardinality(candidates) \in Nat
    BY <2>1, FS_Subset, FS_CardinalityType
  <2>3. Cardinality(roots) <= Cardinality(candidates)
    BY <2>1, FS_Subset
  <2>4. Cardinality(roots) = Cardinality(candidates)
    BY <1>3, <2>2, <2>3
  <2> QED BY <2>1, <2>4, FS_Subset
<1>5. valid = walk.reach
  <2>1. valid \in SUBSET walk.reach /\ IsFiniteSet(walk.reach)
    BY <1>1, GraphAssumption, FS_Subset DEF TypeOK, Explored
  <2>2. Cardinality(valid) \in Nat /\ Cardinality(walk.reach) \in Nat
    BY <2>1, FS_Subset, FS_CardinalityType
  <2>3. Cardinality(valid) <= Cardinality(walk.reach)
    BY <2>1, FS_Subset
  <2>4. Cardinality(valid) = Cardinality(walk.reach)
    BY <1>3, <2>2, <2>3
  <2> QED BY <2>1, <2>4, FS_Subset
<1>6. candidates \subseteq Names /\ walk \in Walks(candidates)
  BY <1>1, <1>4, GraphAssumption DEF TypeOK, Explored
<1>7. Complete(walk, candidates)
  BY <1>3, <1>6, UncutWalkIsComplete
<1>8. answer'.names = candidates
  BY <1>2, <1>4, <1>5, <1>7 DEF Complete
<1>9. answer'.edges = EdgesAt(Within(candidates, Depth - 1))
  <2>1. Evidence = {e \in walk.edges : {e[1], e[2]} \subseteq valid}
    BY <1>3 DEF Evidence
  <2>2. \A e \in walk.edges : {e[1], e[2]} \subseteq valid
    BY <1>1, <1>5, <1>6, <1>7, EndsAreReached DEF Complete
  <2> QED BY <1>2, <1>7, <2>1, <2>2 DEF Complete
<1>10. ASSUME NEW n \in Within(candidates, Depth)
       PROVE  n \in Symbols /\ \A k \in NodeLines(n) :
                \E t \in answer'.lines : t.file = FileOf[n] /\ t.line = k
  <2>1. n \in valid /\ n \in Symbols
    BY <1>5, <1>7 DEF Complete, TypeOK
  <2> QED BY <1>2, <2>1, CoveredLinesAreServed
<1> QED BY <1>8, <1>9, <1>10

\* What the operators say in the next state is what they say in this one.
LEMMA GraphStands ==
  ASSUME request' = request
  PROVE  /\ \A S, k : Within(S, k)' = Within(S, k)
         /\ \A S : EdgesAt(S)' = EdgesAt(S)
         /\ \A S : Walks(S)' = Walks(S)
<1>1. \A S : Neighbours(S)' = Neighbours(S)
  BY DEF Neighbours, Follows
<1>2. \A S, k : Within(S, k)' = Within(S, k)
  BY <1>1 DEF Within
<1>3. \A S : EdgesAt(S)' = EdgesAt(S)
  BY DEF EdgesAt
<1>4. \A S : Walks(S)' = Walks(S)
  BY <1>2, <1>3 DEF Walks
<1> QED BY <1>2, <1>3, <1>4

HonestInv == Explored /\ HonestAnswer

LEMMA HonestInit == Init => HonestInv
BY DEF Init, HonestInv, Explored, HonestAnswer, None

LEMMA HonestStep ==
  ASSUME FormFeeds = {}
  PROVE  IInv /\ TypeOK /\ HonestInv /\ [Next]_vars => HonestInv'
<1> SUFFICES ASSUME IInv, TypeOK, HonestInv, [Next]_vars PROVE HonestInv'
  OBVIOUS
<1>1. UNCHANGED asked
  BY DEF Next, Edit, Reindex, Search, NoManifest, OutOfBudget, Compare, AllCompared,
         ReadNode, Compose, Affected, SnippetRow, SnippetReads, vars
<1>2. request' = request /\ symbol' = symbol
  BY <1>1 DEF asked
<1>3. /\ \A S, k : Within(S, k)' = Within(S, k)
      /\ \A S : EdgesAt(S)' = EdgesAt(S)
      /\ \A S : Walks(S)' = Walks(S)
  BY <1>2, GraphStands
<1> USE DEF HonestInv
<1>4. Explored'
  <2> SUFFICES ASSUME request = "explore"
               PROVE  /\ unread' \subseteq walk'.reach /\ valid' \subseteq walk'.reach
                      /\ pc' = "search" => valid' = {}
                      /\ pc' \in {"freshness", "read"} => roots' \in Pages(candidates)' /\ walk' \in Walks(roots)'
    BY <1>2 DEF Explored
  <2>1. CASE Search
    <3>1. valid' = {} /\ unread' \subseteq walk'.reach /\ pc' = "freshness" /\ roots' \in Pages(candidates')
      BY <2>1 DEF Search, Explored
    <3>2. walk' \in Walks(roots')
      BY <2>1 DEF Search
    <3>3. Walks(roots)' = Walks(roots')
      BY <1>2 DEF Walks, Within, Neighbours, EdgesAt, Follows
    <3> QED BY <3>1, <3>2, <3>3 DEF Pages
  <2>2. CASE \E n \in unread : ReadNode(n)
    <3>1. PICK n \in unread : ReadNode(n)
      BY <2>2
    <3>2. valid' \subseteq valid \cup {n} /\ unread' \subseteq unread /\ UNCHANGED <<found, pc>> /\ pc = "read"
      BY <3>1 DEF ReadNode
    <3>3. Walks(roots)' = Walks(roots) /\ Pages(candidates)' = Pages(candidates)
      BY <1>3, <3>2 DEF found, Pages
    <3> QED BY <3>1, <3>2, <3>3 DEF Explored, found
  <2>3. CASE /\ UNCHANGED <<found, sources>>
             /\ \/ pc' = pc
                \/ pc = "freshness" /\ pc' # "search"
                \/ pc' \notin {"search", "freshness", "read"}
    <3>1. Walks(roots)' = Walks(roots) /\ Pages(candidates)' = Pages(candidates)
      BY <1>3, <2>3 DEF found, Pages
    <3>2. CASE pc' = pc
      BY <2>3, <3>1, <3>2 DEF Explored, found, sources
    <3>3. CASE pc = "freshness" /\ pc' # "search"
      BY <2>3, <3>1, <3>3 DEF Explored, found, sources
    <3>4. CASE pc' \notin {"search", "freshness", "read"}
      BY <2>3, <3>4 DEF Explored, found, sources
    <3> QED BY <2>3, <3>2, <3>3, <3>4
  <2> QED BY <2>1, <2>2, <2>3 DEF Next, Edit, Reindex, NoManifest, OutOfBudget, Compare,
       AllCompared,
            FreshnessIs, Compose, Affected, SnippetRow, SnippetReads, IInv, Control, vars
<1>5. HonestAnswer'
  <2>1. CASE Compose
    <3>1. request = "explore" /\ request' = "explore" /\ UNCHANGED <<candidates, span>>
      BY <1>2, <2>1 DEF Compose, IInv, Control, found, graph
    <3>2. \A n : NodeLines(n)' = NodeLines(n)
      BY <3>1 DEF NodeLines
    <3> QED BY <1>3, <2>1, <3>1, <3>2, ExploreIsHonest DEF HonestAnswer
  <2>2. CASE Affected
    <3>1. request' = "impact"
      BY <1>2, <2>2 DEF Affected, IInv, Control
    <3>2. CASE symbol \in Symbols
      <4>1. symbol \in Names /\ {symbol} \subseteq Names
        BY <3>2, GraphAssumption
      <4>2. walk' \in Walks({symbol}) /\ answer'.names = walk'.reach \cap Symbols /\ answer'.truncated = walk'.cut
        BY <2>2, <3>2 DEF Affected, Nothing
      <4>3. walk'.cut \in BOOLEAN
        BY <4>1, <4>2, WalksHaveTypes
      <4>4. ~answer'.truncated => answer'.names = Within({symbol}, Depth) \cap Symbols
        BY <4>1, <4>2, <4>3, UncutWalkIsComplete DEF Complete
      <4>5. Within({symbol}, Depth)' = Within({symbol}, Depth)
        BY <1>2, <1>3
      <4> QED BY <3>1, <4>4, <4>5 DEF HonestAnswer
    <3>3. CASE symbol \notin Symbols
      BY <2>2, <3>3 DEF Affected, HonestAnswer
    <3> QED BY <3>2, <3>3
  <2>3. CASE request = "snippet"
    BY <1>2, <2>3 DEF HonestAnswer
  <2>4. CASE pc' # "done"
    BY <2>4 DEF HonestAnswer
  <2>5. CASE UNCHANGED vars
    <3>1. UNCHANGED <<pc, answer, candidates, span, symbol>> /\ \A n : NodeLines(n)' = NodeLines(n)
      BY <2>5 DEF vars, found, asked, graph, NodeLines
    <3> QED BY <1>2, <1>3, <3>1 DEF HonestAnswer
  <2> QED BY <2>1, <2>2, <2>3, <2>4, <2>5 DEF Next, Edit, Working, Reindex, Search, NoManifest,
            OutOfBudget, Compare, AllCompared, FreshnessIs, ReadNode, SnippetRow, SnippetReads, IInv, Control
<1> QED BY <1>4, <1>5

LEMMA HonestInvariant ==
  ASSUME FormFeeds = {}
  PROVE  Spec => []HonestInv
BY HonestInit, HonestStep, Invariant, TypeCorrect, PTL DEF Spec

\* An answer of explore or impact that does not say it was truncated is complete,
\* on every graph and for every page size and depth, when splitlines ends a line
\* only where the parser does (context.py:116, 180).
THEOREM AnswersAreHonest ==
  ASSUME FormFeeds = {}
  PROVE  Spec => []HonestAnswer
<1>1. HonestInv => HonestAnswer
  BY DEF HonestInv
<1> QED BY <1>1, HonestInvariant, PTL
=============================================================================
