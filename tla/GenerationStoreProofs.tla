----------------------- MODULE GenerationStoreProofs -----------------------
(***************************************************************************)
(* Machine-checked proofs about GenerationStore, for every set of          *)
(* identities, every size of load, both storage modes and any number of    *)
(* failures and crashes.                                                   *)
(***************************************************************************)
EXTENDS GenerationStore, TLAPS

-----------------------------------------------------------------------------
(* Reading the pointer.                                                    *)

\* The row that SELECT ... FINAL returns is one of the rows, and the top one.
LEMMA TopIsTop ==
  ASSUME NEW c, c.pointers # {}, PointersAreSound(c)
  PROVE  Top(c) \in c.pointers /\ \A q \in c.pointers : q.version <= Top(c).version
<1>1. \E p \in c.pointers : \A q \in c.pointers : q.version <= p.version
  BY DEF PointersAreSound
<1> QED
  BY <1>1 DEF Top

\* A row no version exceeds is the row that is read.
LEMMA TopIsUnique ==
  ASSUME NEW c \in Contents, PointersAreSound(c),
         NEW p \in c.pointers, \A q \in c.pointers : q.version <= p.version
  PROVE  Top(c) = p
<1>1. Top(c) \in c.pointers /\ p.version <= Top(c).version
  BY TopIsTop
<1>2. Top(c).version \in Nat /\ p.version \in Nat
  BY <1>1 DEF Contents, PointerRows
<1>3. Top(c).version = p.version
  BY <1>1, <1>2
<1> QED
  BY <1>1, <1>3 DEF PointersAreSound

\* The version of a new row is a number above every version in the table.
LEMMA NextVersionIsNew ==
  ASSUME NEW c \in Contents, PointersAreSound(c)
  PROVE  /\ NextVersion(c) \in Nat
         /\ \A q \in c.pointers : q.version < NextVersion(c)
<1>1. CASE c.pointers = {}
  BY <1>1 DEF NextVersion
<1>2. CASE c.pointers # {}
  <2>1. /\ Top(c) \in c.pointers
        /\ \A q \in c.pointers : q.version <= Top(c).version
    BY <1>2, TopIsTop
  <2>2. \A q \in c.pointers : q.version \in Nat
    BY DEF Contents, PointerRows
  <2> QED
    BY <1>2, <2>1, <2>2 DEF NextVersion
<1> QED
  BY <1>1, <1>2

-----------------------------------------------------------------------------
(* The statements keep the tables well formed.                             *)

LEMMA TotalType ==
  ASSUME NEW g \in Gen PROVE Total(g) \in [Tables -> Nat]
BY BatchesAssumption DEF Total, Source, Sources

LEMMA InsertedType ==
  ASSUME NEW c \in Contents, NotOverfull(c), NEW g \in Gen, NEW t \in Tables,
         c.rows[g][t] < Total(g)[t]
  PROVE  Inserted(c, g, t) \in Contents /\ NotOverfull(Inserted(c, g, t))
<1> DEFINE r == [c.rows EXCEPT ![g] = [c.rows[g] EXCEPT ![t] = c.rows[g][t] + 1]]
<1>1. Inserted(c, g, t) = [c EXCEPT !.rows = r]
  BY DEF Inserted, Contents
<1>2. g \in Ids /\ c.rows[g] \in [Tables -> Nat]
  BY DEF Ids, Contents
<1>3. r \in [Ids -> [Tables -> Nat]]
  BY <1>2 DEF Contents
<1>4. \A h \in Gen, u \in Tables : r[h][u] <= Total(h)[u]
  <2> SUFFICES ASSUME NEW h \in Gen, NEW u \in Tables PROVE r[h][u] <= Total(h)[u]
    OBVIOUS
  <2>1. Total(h)[u] \in Nat /\ c.rows[h][u] \in Nat /\ h \in Ids
    BY TotalType DEF Contents, Ids
  <2>2. c.rows[h][u] <= Total(h)[u]
    BY DEF NotOverfull
  <2>3. r[h][u] = IF h = g /\ u = t THEN c.rows[h][u] + 1 ELSE c.rows[h][u]
    BY <1>2, <2>1 DEF Contents
  <2> QED
    BY <2>1, <2>2, <2>3
<1> QED
  BY <1>1, <1>3, <1>4 DEF Contents, NotOverfull

LEMMA PointerInsertedType ==
  ASSUME NEW c \in Contents, NotOverfull(c), PointersAreSound(c),
         NEW g \in Gen, NEW prev \in Ids
  PROVE  /\ PointerInserted(c, g, prev) \in Contents
         /\ NotOverfull(PointerInserted(c, g, prev))
<1> DEFINE row == [version |-> NextVersion(c), project |-> g, previous |-> prev]
<1>1. row \in PointerRows
  BY NextVersionIsNew DEF PointerRows
<1> HIDE DEF row
<1>2. PointerInserted(c, g, prev) = [c EXCEPT !.pointers = c.pointers \cup {row}, !.torn = FALSE]
  BY DEF PointerInserted, row, Contents
<1> QED
  BY <1>1, <1>2 DEF Contents, NotOverfull

LEMMA PrunedType ==
  ASSUME NEW c \in Contents, NotOverfull(c), NEW t \in Tables, NEW keep
  PROVE  Pruned(c, t, keep) \in Contents /\ NotOverfull(Pruned(c, t, keep))
<1> DEFINE r == [i \in Ids |-> IF i \in keep THEN c.rows[i]
                               ELSE [c.rows[i] EXCEPT ![t] = 0]]
<1>1. r \in [Ids -> [Tables -> Nat]]
  BY DEF Contents
<1>2. \A h \in Gen, u \in Tables : r[h][u] <= Total(h)[u]
  BY TotalType DEF Contents, Ids, NotOverfull
<1> HIDE DEF r
<1>3. Pruned(c, t, keep) = [c EXCEPT !.rows = r]
  BY DEF Pruned, r
<1> QED
  BY <1>1, <1>2, <1>3 DEF Contents, NotOverfull

LEMMA TruncatedType ==
  ASSUME NEW c \in Contents, NotOverfull(c), NEW t \in Tables
  PROVE  Truncated(c, t) \in Contents /\ NotOverfull(Truncated(c, t))
<1> DEFINE r == [i \in Ids |-> [c.rows[i] EXCEPT ![t] = 0]]
<1>1. r \in [Ids -> [Tables -> Nat]]
  BY DEF Contents
<1>2. \A h \in Gen, u \in Tables : r[h][u] <= Total(h)[u]
  BY TotalType DEF Contents, Ids, NotOverfull
<1> HIDE DEF r
<1>3. Truncated(c, t) = [c EXCEPT !.rows = r, !.torn = TRUE]
  BY DEF Truncated, r
<1> QED
  BY <1>1, <1>2, <1>3 DEF Contents, NotOverfull

LEMMA MetaWipedType ==
  ASSUME NEW c \in Contents, NotOverfull(c)
  PROVE  MetaWiped(c) \in Contents /\ NotOverfull(MetaWiped(c))
<1> DEFINE r == [i \in Ids |-> [c.rows[i] EXCEPT !["codegraph_snapshot"] = 0]]
<1>1. r \in [Ids -> [Tables -> Nat]]
  BY DEF Contents, Tables
<1>2. \A h \in Gen, u \in Tables : r[h][u] <= Total(h)[u]
  BY TotalType DEF Contents, Ids, NotOverfull
<1> HIDE DEF r
<1>3. MetaWiped(c) = [c EXCEPT !.rows = r, !.pointers = {}, !.torn = FALSE]
  BY DEF MetaWiped, r
<1> QED
  BY <1>1, <1>2, <1>3 DEF Contents, NotOverfull

-----------------------------------------------------------------------------
(* What each statement preserves of one copy of the tables.                *)

StoreOK(c) ==
  /\ c \in Contents
  /\ NotOverfull(c)
  /\ PointersAreSound(c)
  /\ ServedIsWhole(c)

\* Changes to rows alone leave what meta says alone.
LEMMA SamePointers ==
  ASSUME NEW c, NEW d, d.pointers = c.pointers
  PROVE  /\ Top(d) = Top(c)
         /\ Active(d) = Active(c)
         /\ PointersAreSound(c) => PointersAreSound(d)
BY DEF Top, Active, PointersAreSound

\* An INSERT for a generation no pointer names does not touch the served one.
LEMMA InsertedOK ==
  ASSUME NEW c, StoreOK(c), NEW g \in Gen, NEW t \in Tables,
         c.rows[g][t] < Total(g)[t],
         \A p \in c.pointers : p.project # g
  PROVE  StoreOK(Inserted(c, g, t)) /\ Inserted(c, g, t).pointers = c.pointers
<1> DEFINE d == Inserted(c, g, t)
<1>1. c \in Contents /\ NotOverfull(c) /\ PointersAreSound(c) /\ ServedIsWhole(c)
  BY DEF StoreOK
<1>2. d \in Contents /\ NotOverfull(d)
  BY <1>1, InsertedType
<1>3. /\ d.pointers = c.pointers
      /\ d.torn = c.torn
      /\ \A i \in Ids : i # g => d.rows[i] = c.rows[i]
  BY <1>1 DEF Inserted, Contents, Ids
<1> HIDE DEF d
<1>4. PointersAreSound(d) /\ Active(d) = Active(c)
  BY <1>1, <1>3, SamePointers
<1>5. ServedIsWhole(d)
  <2> SUFFICES ASSUME c.pointers # {}, ~c.torn PROVE Whole(d, Active(d))
    BY <1>3 DEF ServedIsWhole
  <2>1. Active(c) \in Gen /\ Active(c) # g
    BY <1>1, TopIsTop DEF Active, Contents, PointerRows
  <2>2. Whole(c, Active(c))
    BY <1>1 DEF ServedIsWhole
  <2> QED
    BY <1>3, <1>4, <2>1, <2>2 DEF Whole, Ids
<1> QED
  BY <1>2, <1>3, <1>4, <1>5 DEF StoreOK, d

\* The new pointer row is the one that is read from then on.
LEMMA PointerInsertedOK ==
  ASSUME NEW c, StoreOK(c), NEW g \in Gen, NEW prev \in Ids, Whole(c, g)
  PROVE  LET d == PointerInserted(c, g, prev)
         IN /\ StoreOK(d)
            /\ d.pointers # {}
            /\ Active(d) = g
            /\ Top(d).previous = prev
            /\ Whole(d, g)
            /\ \A p \in d.pointers : p \in c.pointers \/ p.project = g
<1> DEFINE d == PointerInserted(c, g, prev)
           row == [version |-> NextVersion(c), project |-> g, previous |-> prev]
<1>1. c \in Contents /\ NotOverfull(c) /\ PointersAreSound(c) /\ ServedIsWhole(c)
  BY DEF StoreOK
<1>2. d \in Contents /\ NotOverfull(d)
  BY <1>1, PointerInsertedType
<1>3. /\ d.pointers = c.pointers \cup {row}
      /\ d.rows = c.rows
  BY <1>1 DEF PointerInserted, Contents
<1>4. row.version = NextVersion(c) /\ row.project = g /\ row.previous = prev
  OBVIOUS
<1> HIDE DEF d, row
<1>5. /\ NextVersion(c) \in Nat
      /\ \A q \in c.pointers : q.version \in Nat /\ q.version < NextVersion(c)
  BY <1>1, NextVersionIsNew DEF Contents, PointerRows
<1>6. \A q \in d.pointers : q.version <= row.version
  BY <1>3, <1>4, <1>5
<1>7. PointersAreSound(d)
  <2>1. \A p, q \in d.pointers : p.version = q.version => p = q
    <3> SUFFICES ASSUME NEW p \in d.pointers, NEW q \in d.pointers,
                        p.version = q.version
                 PROVE  p = q
      OBVIOUS
    <3>1. CASE p \in c.pointers /\ q \in c.pointers
      BY <3>1, <1>1 DEF PointersAreSound
    <3>2. CASE p = row \/ q = row
      BY <3>2, <1>3, <1>4, <1>5
    <3> QED
      BY <3>1, <3>2, <1>3
  <2> QED
    BY <2>1, <1>3, <1>6 DEF PointersAreSound
<1>8. Top(d) = row
  BY <1>2, <1>3, <1>6, <1>7, TopIsUnique
<1>9. Active(d) = g /\ Whole(d, g)
  BY <1>3, <1>4, <1>8 DEF Active, Whole
<1>10. StoreOK(d)
  BY <1>2, <1>7, <1>9 DEF StoreOK, ServedIsWhole
<1> QED
  BY <1>3, <1>4, <1>8, <1>9, <1>10 DEF d

\* A clean-up that keeps the active generation keeps it whole.
LEMMA PrunedOK ==
  ASSUME NEW c, StoreOK(c), NEW t \in Tables, NEW keep,
         c.pointers # {}, Active(c) \in keep
  PROVE  LET d == Pruned(c, t, keep)
         IN /\ StoreOK(d)
            /\ d.pointers = c.pointers
            /\ Whole(c, Active(c)) => Whole(d, Active(c))
<1> DEFINE d == Pruned(c, t, keep)
<1>1. c \in Contents /\ NotOverfull(c) /\ PointersAreSound(c) /\ ServedIsWhole(c)
  BY DEF StoreOK
<1>2. d \in Contents /\ NotOverfull(d)
  BY <1>1, PrunedType
<1>3. /\ d.pointers = c.pointers
      /\ d.torn = c.torn
      /\ \A i \in Ids : i \in keep => d.rows[i] = c.rows[i]
  BY <1>1 DEF Pruned, Contents
<1> HIDE DEF d
<1>4. PointersAreSound(d) /\ Active(d) = Active(c)
  BY <1>1, <1>3, SamePointers
<1>5. Active(c) \in Ids
  BY <1>1, TopIsTop DEF Active, Contents, PointerRows, Ids
<1>6. Whole(c, Active(c)) => Whole(d, Active(c))
  BY <1>3, <1>5 DEF Whole
<1>7. ServedIsWhole(d)
  BY <1>1, <1>3, <1>4, <1>6 DEF ServedIsWhole
<1> QED
  BY <1>2, <1>3, <1>4, <1>6, <1>7 DEF StoreOK, d

LEMMA TruncatedOK ==
  ASSUME NEW c, StoreOK(c), NEW t \in Tables
  PROVE  StoreOK(Truncated(c, t)) /\ Truncated(c, t).pointers = c.pointers
<1> DEFINE d == Truncated(c, t)
<1>1. c \in Contents /\ NotOverfull(c) /\ PointersAreSound(c)
  BY DEF StoreOK
<1>2. d \in Contents /\ NotOverfull(d)
  BY <1>1, TruncatedType
<1>3. d.pointers = c.pointers /\ d.torn = TRUE
  BY <1>1 DEF Truncated, Contents
<1> HIDE DEF d
<1> QED
  BY <1>1, <1>2, <1>3, SamePointers DEF StoreOK, ServedIsWhole, d

LEMMA MetaWipedOK ==
  ASSUME NEW c, StoreOK(c)
  PROVE  StoreOK(MetaWiped(c)) /\ MetaWiped(c).pointers = {}
<1> DEFINE d == MetaWiped(c)
<1>1. c \in Contents /\ NotOverfull(c)
  BY DEF StoreOK
<1>2. d \in Contents /\ NotOverfull(d)
  BY <1>1, MetaWipedType
<1>3. d.pointers = {}
  BY <1>1 DEF MetaWiped, Contents
<1> HIDE DEF d
<1> QED
  BY <1>2, <1>3 DEF StoreOK, ServedIsWhole, PointersAreSound, d

\* A merge drops rows that are not read.
LEMMA MergedOK ==
  ASSUME NEW c, StoreOK(c), NEW p \in c.pointers, NEW q \in c.pointers,
         p.version < q.version
  PROVE  LET d == [c EXCEPT !.pointers = @ \ {p}]
         IN /\ StoreOK(d)
            /\ d.pointers # {} /\ d.pointers \subseteq c.pointers
            /\ d.rows = c.rows
            /\ Top(d) = Top(c)
            /\ Active(d) = Active(c)
<1> DEFINE d == [c EXCEPT !.pointers = @ \ {p}]
<1>1. c \in Contents /\ NotOverfull(c) /\ PointersAreSound(c) /\ ServedIsWhole(c)
  BY DEF StoreOK
<1>2. /\ d \in Contents
      /\ d.rows = c.rows /\ d.torn = c.torn
      /\ d.pointers = c.pointers \ {p}
  BY <1>1 DEF Contents
<1> HIDE DEF d
<1>3. \A r \in c.pointers : r.version \in Nat
  BY <1>1 DEF Contents, PointerRows
<1>4. /\ Top(c) \in c.pointers
      /\ \A r \in c.pointers : r.version <= Top(c).version
  BY <1>1, TopIsTop
<1>5. Top(c) # p
  BY <1>3, <1>4
<1>6. PointersAreSound(d)
  BY <1>1, <1>2, <1>4, <1>5 DEF PointersAreSound
<1>7. Top(d) = Top(c)
  BY <1>2, <1>4, <1>5, <1>6, TopIsUnique
<1>8. d.pointers # {} /\ Active(d) = Active(c)
  BY <1>2, <1>4, <1>5, <1>7 DEF Active
<1>9. StoreOK(d)
  BY <1>1, <1>2, <1>6, <1>8 DEF StoreOK, NotOverfull, ServedIsWhole, Whole
<1> QED
  BY <1>2, <1>7, <1>8, <1>9 DEF d

\* When no statement of a load is left, every table of it is complete.
LEMMA LoadedIsWhole ==
  ASSUME mem \in Contents, NotOverfull(mem), gen \in Gen, Loaded
  PROVE  Whole(mem, gen)
<1> SUFFICES ASSUME NEW t \in Tables PROVE mem.rows[gen][t] = Total(gen)[t]
  BY DEF Whole
<1>1. mem.rows[gen][t] \in Nat /\ Total(gen)[t] \in Nat
  BY TotalType DEF Contents, Ids
<1>2. mem.rows[gen][t] <= Total(gen)[t]
  BY DEF NotOverfull
<1>3. CASE Source(gen) = "native"
  <2>1. LoadOrder(Source(gen)) = <<"nodes", "edges", "embeddings", "git_commits",
                                   "git_file_changes", "file_evolution">>
    BY <1>3 DEF LoadOrder
  <2>2. Total(gen)["codegraph_snapshot"] = 0
    BY <1>3, BatchesAssumption DEF Total
  <2> QED
    BY <2>1, <2>2, <1>1, <1>2 DEF Loaded, Tables
<1>4. CASE Source(gen) = "codegraph"
  <2>1. LoadOrder(Source(gen)) = <<"nodes", "edges", "codegraph_snapshot", "git_commits",
                                   "git_file_changes", "file_evolution">>
    BY <1>4 DEF LoadOrder
  <2>2. Total(gen)["embeddings"] = 0
    BY <1>4, BatchesAssumption DEF Total
  <2> QED
    BY <2>1, <2>2, <1>1, <1>2 DEF Loaded, Tables
<1> QED
  BY <1>3, <1>4 DEF Source

-----------------------------------------------------------------------------
(* The inductive invariant.                                                *)

FullInv == TypeOK /\ IndInv

\* FullInv one copy of the tables at a time.
LEMMA FullInvIsStoreOK ==
  FullInv => /\ StoreOK(mem) /\ StoreOK(disk)
             /\ PointersAreMinted /\ PhaseInv
BY DEF FullInv, TypeOK, IndInv, PublishedIsWhole, StoreOK

\* The variables that are not tables.
ControlTypeOK ==
  /\ phase \in Phases
  /\ at \in 1..Len(PruneOrder)
  /\ gen \in Gen \cup {NoId}
  /\ previous \in Ids \cup {NoId}
  /\ used \subseteq Gen
  /\ reported \in [gen : Gen \cup {NoId}, version : Nat]
  /\ failures \in 0..MaxFailures
  /\ crashes \in 0..MaxCrashes

LEMMA FullInvFromParts ==
  StoreOK(mem) /\ StoreOK(disk) /\ ControlTypeOK /\ PointersAreMinted /\ PhaseInv
    => FullInv
BY DEF FullInv, TypeOK, IndInv, PublishedIsWhole, StoreOK, ControlTypeOK

LEMMA FullInvIsControl == FullInv => ControlTypeOK
BY DEF FullInv, TypeOK, ControlTypeOK

LEMMA InitFullInv == Init => FullInv
<1> SUFFICES ASSUME Init PROVE FullInv
  OBVIOUS
<1>1. PICK legacy \in LegacyRows :
        mem = [rows     |-> [i \in Ids |-> IF i = Logical THEN legacy ELSE NoRows],
               pointers |-> {},
               torn     |-> FALSE]
  BY DEF Init
<1>2. mem \in Contents
  <2>1. legacy \in [Tables -> Nat] /\ NoRows \in [Tables -> Nat]
    BY LegacyAssumption DEF NoRows
  <2> QED
    BY <1>1, <2>1 DEF Contents
<1>3. NotOverfull(mem)
  BY <1>1, TotalType, IdentityAssumption DEF NotOverfull, NoRows, Ids
<1>4. StoreOK(mem)
  BY <1>1, <1>2, <1>3 DEF StoreOK, PointersAreSound, ServedIsWhole
<1>5. ControlTypeOK
  BY BoundAssumption DEF Init, ControlTypeOK, Phases, PruneOrder, NoReport
<1>6. PointersAreMinted /\ PhaseInv
  BY <1>1 DEF Init, PointersAreMinted, PhaseInv
<1> QED
  BY <1>4, <1>5, <1>6, FullInvFromParts DEF Init

LEMMA StepFromParts ==
  ASSUME StoreOK(mem'), StoreOK(disk'), ControlTypeOK', PointersAreMinted', PhaseInv'
  PROVE  FullInv'
BY DEF FullInv, TypeOK, IndInv, PublishedIsWhole, StoreOK, ControlTypeOK

\* A statement, returning or raising, leaves sound tables if its effect is sound.
LEMMA StatementOK ==
  ASSUME StoreOK(mem), StoreOK(disk), NEW c, StoreOK(c), Returns(c) \/ Raises(c)
  PROVE  /\ StoreOK(mem') /\ StoreOK(disk')
         /\ mem' \in {mem, c} /\ disk' \in {disk, c}
BY DEF Returns, Raises

LEMMA RaisesType ==
  ASSUME ControlTypeOK, NEW c, Raises(c)
  PROVE  failures' \in 0..MaxFailures
BY BoundAssumption DEF Raises, ControlTypeOK

\* When a closure has ended, nothing is relied on.
LEMMA EndsOK ==
  ASSUME ControlTypeOK, Ends
  PROVE  /\ PhaseInv'
         /\ phase' \in Phases
         /\ at' \in 1..Len(PruneOrder)
         /\ gen' \in Gen \cup {NoId}
         /\ previous' \in Ids \cup {NoId}
BY DEF Ends, PhaseInv, Phases, PruneOrder

LEMMA AbortsOK ==
  ASSUME ControlTypeOK, NEW c, Aborts(c)
  PROVE  ControlTypeOK' /\ PhaseInv'
<1>1. Raises(c) /\ Ends /\ used' = used /\ reported' = reported /\ crashes' = crashes
  BY DEF Aborts
<1>2. failures' \in 0..MaxFailures
  BY <1>1, RaisesType
<1> QED
  BY <1>1, <1>2, EndsOK DEF ControlTypeOK

\* Tables whose pointers were all there before name minted generations only.
LEMMA StillMinted ==
  ASSUME PointersAreMinted, used \subseteq used',
         \A p \in mem'.pointers : p \in mem.pointers \cup disk.pointers \/ p.project \in used,
         \A p \in disk'.pointers : p \in mem.pointers \cup disk.pointers \/ p.project \in used
  PROVE  PointersAreMinted'
BY DEF PointersAreMinted

LEMMA BeginLoadStep ==
  ASSUME FullInv, NEW g \in Gen, BeginLoad(g)
  PROVE  FullInv'
<1>1. StoreOK(mem) /\ StoreOK(disk) /\ PointersAreMinted /\ PhaseInv /\ ControlTypeOK
  BY FullInvIsStoreOK, FullInvIsControl
<1>2. mem' = mem /\ disk' = disk
  BY DEF BeginLoad
<1>3. ControlTypeOK'
  BY <1>1 DEF BeginLoad, ControlTypeOK, Phases
<1>4. PointersAreMinted'
  BY <1>1, <1>2 DEF BeginLoad, PointersAreMinted
<1>5. PhaseInv'
  BY <1>1, <1>2 DEF BeginLoad, PhaseInv, PointersAreMinted, Unpublished
<1> QED
  BY <1>1, <1>2, <1>3, <1>4, <1>5, StepFromParts

LEMMA InsertBatchStep ==
  ASSUME FullInv, NEW t \in Tables, InsertBatch(t)
  PROVE  FullInv'
<1> DEFINE c == Inserted(mem, gen, t)
<1>1. StoreOK(mem) /\ StoreOK(disk) /\ PointersAreMinted /\ PhaseInv /\ ControlTypeOK
  BY FullInvIsStoreOK, FullInvIsControl
<1>2. phase = "load" /\ mem.rows[gen][t] < Total(gen)[t]
  BY DEF InsertBatch, Loading
<1>3. gen \in Gen /\ gen \in used /\ Unpublished(gen)
  BY <1>1, <1>2 DEF PhaseInv, ControlTypeOK
<1>4. StoreOK(c) /\ c.pointers = mem.pointers
  BY <1>1, <1>2, <1>3, InsertedOK DEF Unpublished
<1>5. Returns(c) \/ Aborts(c)
  BY DEF InsertBatch
<1> HIDE DEF c
<1>6. Returns(c) \/ Raises(c)
  BY <1>5 DEF Aborts
<1>7. /\ StoreOK(mem') /\ StoreOK(disk')
      /\ mem' \in {mem, c} /\ disk' \in {disk, c}
  BY <1>1, <1>4, <1>6, StatementOK
<1>8. used' = used
  BY DEF InsertBatch, Aborts
<1>9. PointersAreMinted'
  BY <1>1, <1>4, <1>7, <1>8, StillMinted
<1>10. CASE Aborts(c)
  BY <1>1, <1>7, <1>9, <1>10, AbortsOK, StepFromParts
<1>11. CASE ~Aborts(c)
  <2>1. UNCHANGED <<phase, at, gen, previous, used, reported, failures, crashes>>
    BY <1>11 DEF InsertBatch, c
  <2>2. ControlTypeOK'
    BY <1>1, <2>1 DEF ControlTypeOK
  <2>3. PhaseInv'
    BY <1>2, <1>3, <1>4, <1>7, <2>1 DEF PhaseInv, Unpublished
  <2> QED
    BY <1>7, <1>9, <2>2, <2>3, StepFromParts
<1> QED
  BY <1>10, <1>11

LEMMA CheckpointStep ==
  ASSUME FullInv, Checkpoint
  PROVE  FullInv'
<1>1. StoreOK(mem) /\ StoreOK(disk) /\ PointersAreMinted /\ PhaseInv /\ ControlTypeOK
  BY FullInvIsStoreOK, FullInvIsControl
<1>2. phase = "load" /\ Loaded
  BY DEF Checkpoint
<1>3. gen \in Gen /\ gen \in used /\ Unpublished(gen)
  BY <1>1, <1>2 DEF PhaseInv, ControlTypeOK
<1>4. Whole(mem, gen)
  BY <1>1, <1>2, <1>3, LoadedIsWhole DEF StoreOK
<1>5. Returns(mem) \/ Raises(mem)
  BY DEF Checkpoint, Aborts
<1>6. StoreOK(mem') /\ StoreOK(disk') /\ mem' = mem /\ disk' \in {disk, mem}
  BY <1>1, <1>5, StatementOK
<1>7. used' = used
  BY DEF Checkpoint, Aborts
<1>8. PointersAreMinted'
  BY <1>1, <1>6, <1>7, StillMinted
<1>9. CASE Aborts(mem)
  BY <1>1, <1>6, <1>8, <1>9, AbortsOK, StepFromParts
<1>10. CASE ~Aborts(mem)
  <2>1. /\ phase' = "pointer" /\ previous' = Active(mem)
        /\ UNCHANGED <<at, gen, used, reported, failures, crashes>>
    BY <1>10 DEF Checkpoint
  <2>2. Active(mem) \in Ids
    BY <1>1, TopIsTop DEF Active, StoreOK, Contents, PointerRows, Ids
  <2>3. ControlTypeOK'
    BY <1>1, <2>1, <2>2 DEF ControlTypeOK, Phases
  <2>4. PhaseInv'
    BY <1>3, <1>4, <1>6, <2>1, <2>2 DEF PhaseInv, Unpublished, Whole
  <2> QED
    BY <1>6, <1>8, <2>3, <2>4, StepFromParts
<1> QED
  BY <1>9, <1>10

LEMMA InsertPointerStep ==
  ASSUME FullInv, InsertPointer
  PROVE  FullInv'
<1> DEFINE c == PointerInserted(mem, gen, previous)
<1>1. StoreOK(mem) /\ StoreOK(disk) /\ PointersAreMinted /\ PhaseInv /\ ControlTypeOK
  BY FullInvIsStoreOK, FullInvIsControl
<1>2. phase = "pointer"
  BY DEF InsertPointer
<1>3. gen \in Gen /\ gen \in used /\ previous \in Ids /\ Whole(mem, gen)
  BY <1>1, <1>2 DEF PhaseInv, ControlTypeOK
<1>4. /\ StoreOK(c)
      /\ c.pointers # {} /\ Active(c) = gen /\ Top(c).previous = previous
      /\ Whole(c, gen)
      /\ \A p \in c.pointers : p \in mem.pointers \/ p.project = gen
  BY <1>1, <1>3, PointerInsertedOK
<1>5. Returns(c) \/ Aborts(c)
  BY DEF InsertPointer
<1>6. used' = used
  BY DEF InsertPointer, Aborts
<1>7. ~Aborts(c) => /\ Returns(c)
                    /\ phase' = "seal"
                    /\ UNCHANGED <<at, gen, previous, used, reported, failures, crashes>>
  BY DEF InsertPointer
<1> HIDE DEF c
<1>8. /\ StoreOK(mem') /\ StoreOK(disk')
      /\ mem' \in {mem, c} /\ disk' \in {disk, c}
  BY <1>1, <1>4, <1>5, StatementOK DEF Aborts
<1>9. PointersAreMinted'
  BY <1>1, <1>3, <1>4, <1>6, <1>8, StillMinted
<1>10. CASE Aborts(c)
  BY <1>1, <1>8, <1>9, <1>10, AbortsOK, StepFromParts
<1>11. CASE ~Aborts(c)
  <2>1. ControlTypeOK'
    BY <1>1, <1>7, <1>11 DEF ControlTypeOK, Phases
  <2>2. mem' = c
    BY <1>7, <1>11 DEF Returns
  <2>3. PhaseInv'
    BY <1>4, <1>7, <1>11, <2>2 DEF PhaseInv
  <2> QED
    BY <1>8, <1>9, <2>1, <2>3, StepFromParts
<1> QED
  BY <1>10, <1>11

LEMMA SealStep ==
  ASSUME FullInv, Seal
  PROVE  FullInv'
<1>1. StoreOK(mem) /\ StoreOK(disk) /\ PointersAreMinted /\ PhaseInv /\ ControlTypeOK
  BY FullInvIsStoreOK, FullInvIsControl
<1>2. Returns(mem) \/ Raises(mem)
  BY DEF Seal, Aborts
<1>3. StoreOK(mem') /\ StoreOK(disk') /\ mem' = mem /\ disk' \in {disk, mem}
  BY <1>1, <1>2, StatementOK
<1>4. used' = used
  BY DEF Seal, Aborts
<1>5. PointersAreMinted'
  BY <1>1, <1>3, <1>4, StillMinted
<1>6. CASE Aborts(mem)
  BY <1>1, <1>3, <1>5, <1>6, AbortsOK, StepFromParts
<1>7. CASE ~Aborts(mem)
  <2>1. /\ phase = "seal" /\ phase' = "prune"
        /\ UNCHANGED <<at, gen, previous, used, reported, failures, crashes>>
    BY <1>7 DEF Seal
  <2>2. ControlTypeOK'
    BY <1>1, <2>1 DEF ControlTypeOK, Phases
  <2>3. PhaseInv'
    BY <1>1, <1>3, <2>1 DEF PhaseInv
  <2> QED
    BY <1>3, <1>5, <2>2, <2>3, StepFromParts
<1> QED
  BY <1>6, <1>7

LEMMA PruneStep ==
  ASSUME FullInv, Prune
  PROVE  FullInv'
<1> DEFINE t == PruneOrder[at]
           c == Pruned(mem, t, {gen, previous})
<1>1. StoreOK(mem) /\ StoreOK(disk) /\ PointersAreMinted /\ PhaseInv /\ ControlTypeOK
  BY FullInvIsStoreOK, FullInvIsControl
<1>2. phase = "prune"
  BY DEF Prune
<1>3. mem.pointers # {} /\ Active(mem) = gen /\ Top(mem).previous = previous /\ Whole(mem, gen)
  BY <1>1, <1>2 DEF PhaseInv
<1>4. t \in Tables
  BY <1>1 DEF ControlTypeOK, PruneOrder, Tables
<1>5. StoreOK(c) /\ c.pointers = mem.pointers /\ Whole(c, gen)
  BY <1>1, <1>3, <1>4, PrunedOK
<1>6. Returns(c) \/ Raises(c)
  BY DEF Prune
<1>7. used' = used /\ crashes' = crashes
  BY DEF Prune, Reports
<1>8. \/ /\ Returns(c) /\ at < Len(PruneOrder) /\ at' = at + 1
         /\ UNCHANGED <<phase, gen, previous, used, reported, failures, crashes>>
      \/ /\ UNCHANGED failures \/ Raises(c)
         /\ Reports
  BY DEF Prune
<1> HIDE DEF t, c
<1>9. /\ StoreOK(mem') /\ StoreOK(disk')
      /\ mem' \in {mem, c} /\ disk' \in {disk, c}
  BY <1>1, <1>5, <1>6, StatementOK
<1>10. PointersAreMinted'
  BY <1>1, <1>5, <1>7, <1>9, StillMinted
<1>11. CASE /\ Returns(c) /\ at < Len(PruneOrder) /\ at' = at + 1
            /\ UNCHANGED <<phase, gen, previous, used, reported, failures, crashes>>
  <2>1. ControlTypeOK'
    BY <1>1, <1>11 DEF ControlTypeOK, PruneOrder
  <2>2. mem' = c /\ Top(c) = Top(mem) /\ Active(c) = Active(mem)
    BY <1>5, <1>11, SamePointers DEF Returns
  <2>3. PhaseInv'
    BY <1>2, <1>3, <1>5, <1>11, <2>2 DEF PhaseInv
  <2> QED
    BY <1>9, <1>10, <2>1, <2>3, StepFromParts
<1>12. CASE /\ UNCHANGED failures \/ Raises(c)
            /\ Reports
  <2>1. Ends /\ reported' = [gen |-> gen, version |-> Top(mem).version]
    BY <1>12 DEF Reports
  <2>2. failures' \in 0..MaxFailures
    BY <1>1, <1>12, RaisesType DEF ControlTypeOK
  <2>3. Top(mem).version \in Nat
    BY <1>1, <1>3, TopIsTop DEF StoreOK, Contents, PointerRows
  <2>4. ControlTypeOK'
    BY <1>1, <1>7, <2>1, <2>2, <2>3, EndsOK DEF ControlTypeOK
  <2> QED
    BY <1>1, <1>9, <1>10, <2>1, <2>4, EndsOK, StepFromParts
<1> QED
  BY <1>8, <1>11, <1>12

LEMMA BeginWipeStep ==
  ASSUME FullInv, BeginWipe
  PROVE  FullInv'
<1>1. StoreOK(mem) /\ StoreOK(disk) /\ PointersAreMinted /\ ControlTypeOK
  BY FullInvIsStoreOK, FullInvIsControl
<1>2. ControlTypeOK'
  BY <1>1 DEF BeginWipe, ControlTypeOK, Phases
<1>3. PointersAreMinted' /\ PhaseInv'
  BY <1>1 DEF BeginWipe, PointersAreMinted, PhaseInv
<1> QED
  BY <1>1, <1>2, <1>3, StepFromParts DEF BeginWipe

LEMMA TruncateStep ==
  ASSUME FullInv, Truncate
  PROVE  FullInv'
<1> DEFINE t == WipeOrder[at]
           c == Truncated(mem, t)
<1>1. StoreOK(mem) /\ StoreOK(disk) /\ PointersAreMinted /\ PhaseInv /\ ControlTypeOK
  BY FullInvIsStoreOK, FullInvIsControl
<1>2. phase = "wipe" /\ at <= Len(WipeOrder)
  BY DEF Truncate
<1>3. t \in Tables
  BY <1>1, <1>2 DEF ControlTypeOK, WipeOrder, PruneOrder, Tables
<1>4. StoreOK(c) /\ c.pointers = mem.pointers
  BY <1>1, <1>3, TruncatedOK
<1>5. \/ /\ Returns(c) /\ at' = at + 1
         /\ UNCHANGED <<phase, gen, previous, used, reported, failures, crashes>>
      \/ Aborts(c)
  BY DEF Truncate
<1> HIDE DEF t, c
<1>6. Returns(c) \/ Raises(c)
  BY <1>5 DEF Aborts
<1>7. /\ StoreOK(mem') /\ StoreOK(disk')
      /\ mem' \in {mem, c} /\ disk' \in {disk, c}
  BY <1>1, <1>4, <1>6, StatementOK
<1>8. used' = used
  BY <1>5 DEF Aborts
<1>9. PointersAreMinted'
  BY <1>1, <1>4, <1>7, <1>8, StillMinted
<1>10. CASE Aborts(c)
  BY <1>1, <1>7, <1>9, <1>10, AbortsOK, StepFromParts
<1>11. CASE ~Aborts(c)
  <2>1. at' \in 1..Len(PruneOrder)
    BY <1>1, <1>2, <1>5, <1>11 DEF ControlTypeOK, WipeOrder, PruneOrder
  <2>2. ControlTypeOK'
    BY <1>1, <1>5, <1>11, <2>1 DEF ControlTypeOK
  <2>3. PhaseInv'
    BY <1>2, <1>5, <1>11 DEF PhaseInv
  <2> QED
    BY <1>7, <1>9, <2>2, <2>3, StepFromParts
<1> QED
  BY <1>10, <1>11

LEMMA WipeMetaStep ==
  ASSUME FullInv, WipeMeta
  PROVE  FullInv'
<1> DEFINE c == MetaWiped(mem)
<1>1. StoreOK(mem) /\ StoreOK(disk) /\ PointersAreMinted /\ PhaseInv /\ ControlTypeOK
  BY FullInvIsStoreOK, FullInvIsControl
<1>2. StoreOK(c) /\ c.pointers = {}
  BY <1>1, MetaWipedOK
<1>3. (Returns(c) /\ UNCHANGED failures) \/ Raises(c)
  BY DEF WipeMeta
<1>4. Ends /\ used' = used /\ crashes' = crashes /\ reported' \in {NoReport, reported}
  BY DEF WipeMeta
<1> HIDE DEF c
<1>5. /\ StoreOK(mem') /\ StoreOK(disk')
      /\ mem' \in {mem, c} /\ disk' \in {disk, c}
  BY <1>1, <1>2, <1>3, StatementOK
<1>6. PointersAreMinted'
  BY <1>1, <1>2, <1>4, <1>5, StillMinted
<1>7. failures' \in 0..MaxFailures
  BY <1>1, <1>3, RaisesType DEF ControlTypeOK
<1>8. ControlTypeOK'
  BY <1>1, <1>4, <1>7, EndsOK DEF ControlTypeOK, NoReport
<1> QED
  BY <1>1, <1>4, <1>5, <1>6, <1>8, EndsOK, StepFromParts

LEMMA CrashStep ==
  ASSUME FullInv, Crash
  PROVE  FullInv'
<1>1. StoreOK(mem) /\ StoreOK(disk) /\ PointersAreMinted /\ PhaseInv /\ ControlTypeOK
  BY FullInvIsStoreOK, FullInvIsControl
<1>2. /\ mem' = disk /\ disk' = disk /\ Ends
      /\ used' = used /\ reported' = reported /\ failures' = failures
  BY DEF Crash
<1>3. crashes' \in 0..MaxCrashes
  BY <1>1, BoundAssumption DEF Crash, ControlTypeOK
<1>4. ControlTypeOK'
  BY <1>1, <1>2, <1>3, EndsOK DEF ControlTypeOK
<1>5. PointersAreMinted'
  BY <1>1, <1>2, StillMinted
<1> QED
  BY <1>1, <1>2, <1>4, <1>5, EndsOK, StepFromParts

LEMMA MergeMetaStep ==
  ASSUME FullInv, MergeMeta
  PROVE  FullInv'
<1>1. StoreOK(mem) /\ StoreOK(disk) /\ PointersAreMinted /\ PhaseInv /\ ControlTypeOK
  BY FullInvIsStoreOK, FullInvIsControl
<1>2. PICK p \in mem.pointers, q \in mem.pointers :
        p.version < q.version /\ mem' = [mem EXCEPT !.pointers = @ \ {p}]
  BY DEF MergeMeta
<1>3. /\ StoreOK(mem')
      /\ mem'.pointers # {} /\ mem'.pointers \subseteq mem.pointers
      /\ mem'.rows = mem.rows
      /\ Top(mem') = Top(mem) /\ Active(mem') = Active(mem)
  BY <1>1, <1>2, MergedOK
<1>4. disk' \in {disk, mem'}
  BY DEF MergeMeta
<1>5. UNCHANGED <<phase, at, gen, previous, used, reported, failures, crashes>>
  BY DEF MergeMeta
<1>6. ControlTypeOK'
  BY <1>1, <1>5 DEF ControlTypeOK
<1>7. PointersAreMinted'
  BY <1>1, <1>3, <1>4, <1>5, StillMinted
<1>8. PhaseInv'
  BY <1>1, <1>3, <1>4, <1>5 DEF PhaseInv, Unpublished, Whole
<1> QED
  BY <1>1, <1>3, <1>4, <1>6, <1>7, <1>8, StepFromParts

LEMMA StutterStep ==
  ASSUME FullInv, UNCHANGED vars
  PROVE  FullInv'
<1>1. StoreOK(mem) /\ StoreOK(disk) /\ PointersAreMinted /\ PhaseInv /\ ControlTypeOK
  BY FullInvIsStoreOK, FullInvIsControl
<1>2. ControlTypeOK' /\ PointersAreMinted' /\ PhaseInv'
  BY <1>1 DEF vars, ControlTypeOK, PointersAreMinted, PhaseInv, Unpublished
<1> QED
  BY <1>1, <1>2, StepFromParts DEF vars

-----------------------------------------------------------------------------
(* Theorems.                                                               *)

LEMMA FullInvariance == Spec => []FullInv
<1>1. ASSUME FullInv, [Next]_vars
      PROVE  FullInv'
  BY <1>1, BeginLoadStep, InsertBatchStep, CheckpointStep, InsertPointerStep, SealStep,
     PruneStep, BeginWipeStep, TruncateStep, WipeMetaStep, CrashStep, MergeMetaStep,
     StutterStep DEF Next
<1> QED
  BY <1>1, InitFullInv, PTL DEF Spec

\* Every variable keeps its type, and no load writes a batch twice.
THEOREM TypeCorrect == Spec => []TypeOK
<1>1. FullInv => TypeOK
  BY DEF FullInv
<1> QED
  BY <1>1, FullInvariance, PTL

\* The invariant the closures of the worker preserve at every statement.
THEOREM Inductive == Spec => []IndInv
<1>1. FullInv => IndInv
  BY DEF FullInv
<1> QED
  BY <1>1, FullInvariance, PTL

\* Whatever raises and wherever the process dies, the published generation is
\* complete, in the session and after a restart, unless a wipe cut into it.
THEOREM PublishedWhole == Spec => []PublishedIsWhole
<1>1. FullInv => PublishedIsWhole
  BY DEF FullInv, IndInv
<1> QED
  BY <1>1, FullInvariance, PTL

\* A publication switches readers to its generation and retains the predecessor
\* it read, whatever rows of meta are merged meanwhile.
THEOREM PublishEffective == Spec => []PublishTakesEffect
<1>1. FullInv => PublishTakesEffect
  BY DEF FullInv, IndInv, PhaseInv, PublishTakesEffect
<1> QED
  BY <1>1, FullInvariance, PTL

-----------------------------------------------------------------------------
(* The clean-up after a publication.                                       *)

\* The clean-up starts at its first table, and has emptied those it is past.
Swept ==
  /\ phase \in {"idle", "load", "pointer", "seal"} => at = 1
  /\ phase = "prune" =>
       \A n \in 1..(at - 1), i \in Ids \ {gen, previous} : mem.rows[i][PruneOrder[n]] = 0

\* What CleanupIsComplete says of one step.
CleansUp ==
  (phase = "prune" /\ phase' = "idle" /\ failures' = failures /\ crashes' = crashes) =>
    \A i \in Ids \ {gen, previous} : mem'.rows[i] = NoRows

\* One more table is emptied; those that were empty stay so.
LEMMA PrunedSweeps ==
  ASSUME FullInv, Swept, phase = "prune"
  PROVE  LET c == Pruned(mem, PruneOrder[at], {gen, previous})
         IN \A n \in 1..at, i \in Ids \ {gen, previous} : c.rows[i][PruneOrder[n]] = 0
<1> DEFINE c == Pruned(mem, PruneOrder[at], {gen, previous})
<1> SUFFICES ASSUME NEW n \in 1..at, NEW i \in Ids \ {gen, previous}
             PROVE  c.rows[i][PruneOrder[n]] = 0
  OBVIOUS
<1>1. mem \in Contents /\ at \in 1..7
  BY DEF FullInv, TypeOK, PruneOrder
<1>2. PruneOrder[n] \in Tables /\ PruneOrder[at] \in Tables
  BY <1>1 DEF PruneOrder, Tables
<1>3. c.rows[i] = [mem.rows[i] EXCEPT ![PruneOrder[at]] = 0]
  BY <1>1 DEF Pruned, Contents
<1>4. mem.rows[i] \in [Tables -> Nat]
  BY <1>1 DEF Contents
<1>5. CASE n = at
  BY <1>2, <1>3, <1>4, <1>5
<1>6. CASE n # at
  <2>1. n \in 1..(at - 1)
    BY <1>1, <1>6
  <2>2. mem.rows[i][PruneOrder[n]] = 0
    BY <2>1 DEF Swept
  <2> QED BY <1>2, <1>3, <1>4, <2>2
<1> QED BY <1>5, <1>6

LEMMA SweptByPrune ==
  ASSUME FullInv, Swept, Prune
  PROVE  Swept' /\ CleansUp
<1> DEFINE c == Pruned(mem, PruneOrder[at], {gen, previous})
<1>1. phase = "prune" /\ mem \in Contents /\ at \in 1..7 /\ failures \in Nat
  BY BoundAssumption DEF Prune, FullInv, TypeOK, PruneOrder
<1>2. \A n \in 1..at, i \in Ids \ {gen, previous} : c.rows[i][PruneOrder[n]] = 0
  BY <1>1, PrunedSweeps
<1>3. c \in Contents
  BY <1>1, PrunedType DEF FullInv, TypeOK, PruneOrder, Tables
<1>4. \/ Returns(c) /\ at' = at + 1 /\ UNCHANGED <<phase, gen, previous>>
      \/ Returns(c) /\ at = 7 /\ Ends
      \/ Raises(c) /\ Ends
  BY DEF Prune, Reports, PruneOrder
<1> HIDE DEF c
<1>5. CASE Returns(c) /\ at' = at + 1 /\ UNCHANGED <<phase, gen, previous>>
  <2>1. Swept'
    BY <1>1, <1>2, <1>5 DEF Returns, Swept
  <2> QED BY <1>1, <1>5, <2>1 DEF CleansUp
<1>6. CASE Returns(c) /\ at = 7 /\ Ends
  <2>1. Swept'
    BY <1>6 DEF Ends, Swept
  <2>2. ASSUME NEW i \in Ids \ {gen, previous} PROVE c.rows[i] = NoRows
    <3>1. \A t \in Tables : \E n \in 1..7 : PruneOrder[n] = t
      BY DEF Tables, PruneOrder
    <3>2. \A t \in Tables : c.rows[i][t] = 0
      BY <1>2, <1>6, <3>1
    <3>3. c.rows[i] \in [Tables -> Nat]
      BY <1>3 DEF Contents
    <3> QED BY <3>2, <3>3 DEF NoRows
  <2> QED BY <1>6, <2>1, <2>2 DEF Returns, CleansUp
<1>7. CASE Raises(c) /\ Ends
  BY <1>1, <1>7 DEF Raises, Ends, Swept, CleansUp
<1> QED BY <1>4, <1>5, <1>6, <1>7

LEMMA SweptStep ==
  ASSUME FullInv, Swept, [Next]_vars
  PROVE  Swept' /\ CleansUp
<1>1. at \in Nat /\ crashes \in Nat
  BY BoundAssumption DEF FullInv, TypeOK, PruneOrder
<1>2. CASE Prune
  BY <1>2, SweptByPrune
<1>3. CASE Ends /\ phase # "prune"
  BY <1>3 DEF Ends, Swept, CleansUp
<1>4. CASE \E g \in Gen : BeginLoad(g)
  BY <1>4 DEF BeginLoad, Swept, CleansUp
<1>5. CASE \E t \in Tables : InsertBatch(t)
  BY <1>3, <1>5 DEF InsertBatch, Aborts, Swept, CleansUp
<1>6. CASE Checkpoint
  BY <1>3, <1>6 DEF Checkpoint, Aborts, Swept, CleansUp
<1>7. CASE InsertPointer
  BY <1>3, <1>7 DEF InsertPointer, Aborts, Swept, CleansUp
<1>8. CASE Seal
  BY <1>3, <1>8 DEF Seal, Aborts, Swept, CleansUp
<1>9. CASE BeginWipe \/ Truncate \/ WipeMeta
  BY <1>3, <1>9 DEF BeginWipe, Truncate, WipeMeta, Aborts, Swept, CleansUp
<1>10. CASE Crash
  BY <1>1, <1>10 DEF Crash, Ends, Swept, CleansUp
<1>11. CASE MergeMeta
  <2>1. mem'.rows = mem.rows /\ UNCHANGED <<phase, at, gen, previous>>
    BY <1>11 DEF MergeMeta, FullInv, TypeOK, Contents
  <2> QED BY <2>1 DEF Swept, CleansUp
<1>12. CASE UNCHANGED vars
  BY <1>12 DEF vars, Swept, CleansUp
<1> QED
  BY <1>2, <1>4, <1>5, <1>6, <1>7, <1>8, <1>9, <1>10, <1>11, <1>12 DEF Next

\* A publication none of whose statements raised leaves no row of an older or a
\* failed generation in any table.
THEOREM CleanupCompletes == Spec => CleanupIsComplete
<1>1. Init => Swept
  BY DEF Init, Swept
<1>2. FullInv /\ Swept /\ [Next]_vars => Swept'
  BY SweptStep
<1>3. FullInv /\ Swept /\ [Next]_vars =>
        [(phase = "prune" /\ phase' = "idle" /\ failures' = failures /\ crashes' = crashes) =>
           \A i \in Ids \ {gen, previous} : mem'.rows[i] = NoRows]_vars
  BY SweptStep DEF CleansUp
<1> QED
  BY <1>1, <1>2, <1>3, FullInvariance, PTL DEF Spec, CleanupIsComplete

-----------------------------------------------------------------------------
(* GenerationStore implements PublishedGraph, and what it has reported or  *)
(* retains is not lost.                                                    *)

(* What a restart would find, and what publications rely on, beyond the    *)
(* invariant of GenerationStoreProofs.                                     *)

\* Predecessors are generations of the past, never the one being built.
PriorsInv ==
  \A c \in {mem, disk} : \A p \in c.pointers :
    /\ p.previous \in used \cup {Logical}
    /\ phase \in {"load", "pointer"} => p.previous # gen

\* The predecessor read is still the active one when the pointer is inserted,
\* and the log has the pointer when the clean-up starts.
PointerInv ==
  /\ phase = "pointer" => previous = Active(mem)
  /\ phase = "prune" => disk.pointers # {} /\ Top(disk) = Top(mem)

\* The reported publication, or a later one, is the one that is read.
Survives(c) ==
  reported # NoReport =>
    /\ c.pointers # {}
    /\ Top(c).version >= reported.version
    /\ Top(c).version = reported.version => Top(c).project = reported.gen

SurvivalInv == Survives(mem) /\ Survives(disk)

\* The log keeps every row the session has of what a restart would retain.
LogKeepsRows ==
  \A i \in Retained(disk), t \in Tables : disk.rows[i][t] >= mem.rows[i][t]

RefInv == PriorsInv /\ PointerInv /\ SurvivalInv /\ LogKeepsRows

\* What RetainedLosesNothing says of a step.
LosesNothing ==
  phase # "wipe" =>
    \A i \in Retained(mem'), t \in Tables : mem'.rows[i][t] >= mem.rows[i][t]

-----------------------------------------------------------------------------
(* Reading two copies of the tables.                                       *)

LEMMA RetainedIsIds ==
  ASSUME NEW c, StoreOK(c)
  PROVE  Retained(c) \subseteq Ids
BY TopIsTop DEF StoreOK, Contents, PointerRows, Retained, Ids

LEMMA RowsAreNumbers ==
  ASSUME NEW c, StoreOK(c), NEW i \in Ids, NEW t \in Tables
  PROVE  c.rows[i][t] \in Nat
BY DEF StoreOK, Contents

\* Readers see the same if the top pointer and the rows it leads to are the same.
LEMMA SameView ==
  ASSUME NEW c, StoreOK(c), NEW d, (d.pointers = {}) <=> (c.pointers = {}), Top(d) = Top(c),
         \A i \in Retained(c) : d.rows[i] = c.rows[i]
  PROVE  PublishedIn(d) = PublishedIn(c)
<1>1. CASE c.pointers = {}
  BY <1>1, IdentityAssumption DEF PublishedIn, ViewOf, Active, Ids
<1>2. CASE c.pointers # {}
  BY <1>2 DEF PublishedIn, ViewOf, Active, Retained, Whole
<1> QED BY <1>1, <1>2

\* Statements that leave the pointers alone, and the end of a report.
LEMMA SameMeta ==
  ASSUME PriorsInv, SurvivalInv,
         mem'.pointers \in {mem.pointers, disk.pointers},
         disk'.pointers \in {mem.pointers, disk.pointers},
         used' = used, reported' \in {reported, NoReport},
         phase' \in {"load", "pointer"} => phase \in {"load", "pointer"} /\ gen' = gen
  PROVE  PriorsInv' /\ SurvivalInv'
<1>1. PriorsInv'
  BY DEF PriorsInv
<1>2. \A d \in {mem', disk'} : \E c \in {mem, disk} : d.pointers = c.pointers /\ Top(d) = Top(c)
  BY DEF Top
<1>3. SurvivalInv'
  BY <1>2 DEF SurvivalInv, Survives
<1> QED BY <1>1, <1>3

\* A statement that adds no row to what the log retains.
LEMMA LogKeeps ==
  ASSUME StoreOK(mem), StoreOK(disk), LogKeepsRows, NEW c, StoreOK(c),
         Returns(c) \/ Raises(c),
         \A i \in Retained(disk), t \in Tables : c.rows[i][t] <= mem.rows[i][t]
  PROVE  LogKeepsRows'
<1>1. CASE mem' = c /\ disk' = c
  BY <1>1, RetainedIsIds, RowsAreNumbers DEF LogKeepsRows
<1>2. CASE mem' = mem /\ disk' = disk
  BY <1>2 DEF LogKeepsRows
<1>3. CASE mem' = c /\ disk' = disk
  <2> SUFFICES ASSUME NEW i \in Retained(disk), NEW t \in Tables
               PROVE  disk.rows[i][t] >= c.rows[i][t]
    BY <1>3 DEF LogKeepsRows
  <2>1. disk.rows[i][t] \in Nat /\ mem.rows[i][t] \in Nat /\ c.rows[i][t] \in Nat
    BY RetainedIsIds, RowsAreNumbers
  <2> QED BY <2>1 DEF LogKeepsRows
<1> QED BY <1>1, <1>2, <1>3 DEF Returns, Raises

-----------------------------------------------------------------------------
(* Steps of the abstract specification.                                    *)

Candidate == IF phase \in {"load", "pointer"} THEN gen ELSE NoId

Implements == Graph!Next \/ UNCHANGED Graph!vars

\* Nothing that is read changes, and what is read may become persistent.
LEMMA QuietStep ==
  ASSUME PublishedIn(mem') = PublishedIn(mem),
         PublishedIn(disk') \in {PublishedIn(disk), PublishedIn(mem)},
         Candidate' = Candidate, used' = used, phase # "wipe", phase' # "wipe"
  PROVE  Implements
BY DEF Implements, Candidate, Graph!Next, Graph!vars, Graph!Persist

LEMMA AbandonStep ==
  ASSUME PublishedIn(mem') = PublishedIn(mem),
         PublishedIn(disk') \in {PublishedIn(disk), PublishedIn(mem)},
         phase \in {"load", "pointer"}, gen \in Gen, phase' = "idle", used' = used
  PROVE  Implements
BY IdentityAssumption DEF Implements, Graph!Next, Graph!Abandon, Ids

\* A statement of a load: it returns, or its load is over.
LEMMA LoadStatement ==
  ASSUME NEW c, PublishedIn(c) = PublishedIn(mem), phase \in {"load", "pointer"}, gen \in Gen,
         \/ Returns(c) /\ Candidate' = Candidate /\ phase' # "wipe" /\ used' = used
         \/ Aborts(c)
  PROVE  Implements
<1>1. CASE Returns(c) /\ Candidate' = Candidate /\ phase' # "wipe" /\ used' = used
  BY <1>1, QuietStep DEF Returns
<1>2. CASE Aborts(c)
  BY <1>2, AbandonStep DEF Aborts, Raises, Ends
<1> QED BY <1>1, <1>2

-----------------------------------------------------------------------------
(* The closures, statement by statement.                                   *)

Known == FullInv /\ RefInv
Kept  == RefInv' /\ LosesNothing /\ Implements

LEMMA KnownFacts ==
  ASSUME Known
  PROVE  /\ StoreOK(mem) /\ StoreOK(disk) /\ PointersAreMinted /\ PhaseInv /\ ControlTypeOK
         /\ PriorsInv /\ PointerInv /\ SurvivalInv /\ LogKeepsRows
BY FullInvIsStoreOK, FullInvIsControl DEF Known, RefInv

\* What is being built is not retained by anyone.
LEMMA BuiltIsNotRetained ==
  ASSUME Known, phase \in {"load", "pointer"}
  PROVE  gen \in Gen /\ gen \notin Retained(mem) /\ gen \notin Retained(disk)
<1>1. StoreOK(mem) /\ StoreOK(disk) /\ PhaseInv /\ ControlTypeOK /\ PriorsInv
  BY KnownFacts
<1>2. gen \in used /\ Unpublished(gen) /\ gen \in Gen
  BY <1>1 DEF PhaseInv, ControlTypeOK
<1>3. gen # Logical
  BY <1>2, IdentityAssumption
<1>4. \A c \in {mem, disk} : StoreOK(c) => gen \notin Retained(c)
  BY <1>2, <1>3, <1>1, TopIsTop DEF StoreOK, Retained, Unpublished, PriorsInv
<1> QED BY <1>1, <1>2, <1>4

LEMMA BeginLoadKept ==
  ASSUME Known, NEW g \in Gen, BeginLoad(g)
  PROVE  Kept
<1>1. StoreOK(mem) /\ StoreOK(disk) /\ RefInv
  BY KnownFacts DEF Known
<1>2. mem' = mem /\ disk' = disk /\ phase = "idle" /\ phase' = "load" /\ gen' = g
      /\ used' = used \cup {g} /\ g \notin used /\ reported' = reported
  BY DEF BeginLoad
<1>3. PriorsInv'
  BY <1>1, <1>2, IdentityAssumption DEF RefInv, PriorsInv
<1>4. RefInv'
  BY <1>1, <1>2, <1>3 DEF RefInv, PointerInv, SurvivalInv, Survives, LogKeepsRows
<1>5. LosesNothing
  BY <1>1, <1>2, RetainedIsIds, RowsAreNumbers DEF LosesNothing
<1>6. Graph!Begin(g)
  BY <1>2 DEF Graph!Begin
<1> QED BY <1>4, <1>5, <1>6 DEF Kept, Implements, Graph!Next

LEMMA InsertBatchKept ==
  ASSUME Known, NEW t \in Tables, InsertBatch(t)
  PROVE  Kept
<1> DEFINE c == Inserted(mem, gen, t)
<1>1. StoreOK(mem) /\ StoreOK(disk) /\ PhaseInv /\ ControlTypeOK /\ RefInv
  BY KnownFacts DEF Known
<1>2. phase = "load" /\ mem.rows[gen][t] < Total(gen)[t]
  BY DEF InsertBatch, Loading
<1>3. gen \in Gen /\ gen \notin Retained(mem) /\ gen \notin Retained(disk)
  BY <1>2, BuiltIsNotRetained
<1>4. StoreOK(c) /\ c.pointers = mem.pointers
  BY <1>1, <1>2, <1>3, InsertedOK DEF PhaseInv, Unpublished
<1>5. \A i \in Ids : i # gen => c.rows[i] = mem.rows[i]
  BY <1>1 DEF StoreOK, Contents, Inserted
<1>6. \A u \in Tables : c.rows[gen][u] >= mem.rows[gen][u]
  BY <1>1, <1>3 DEF StoreOK, Contents, Inserted, Ids
<1>7. Returns(c) \/ Raises(c)
  BY DEF InsertBatch, Aborts
<1>8. \/ Returns(c) /\ UNCHANGED <<phase, at, gen, previous, used, reported, failures, crashes>>
      \/ Aborts(c)
  BY DEF InsertBatch
<1> HIDE DEF c
<1>9. mem' \in {mem, c} /\ disk' \in {disk, c}
  BY <1>7 DEF Returns, Raises
<1>10. Top(c) = Top(mem) /\ Retained(c) = Retained(mem)
  BY <1>4 DEF Top, Retained
<1>11. PriorsInv' /\ SurvivalInv'
  BY <1>1, <1>2, <1>4, <1>8, <1>9, SameMeta DEF RefInv, Aborts, Ends
<1>12. LogKeepsRows'
  <2>1. \A i \in Retained(disk) : c.rows[i] = mem.rows[i]
    BY <1>1, <1>3, <1>5, RetainedIsIds
  <2>2. \A i \in Retained(disk), u \in Tables : c.rows[i][u] <= mem.rows[i][u]
    BY <1>1, <2>1, RetainedIsIds, RowsAreNumbers
  <2> QED BY <1>1, <1>4, <1>7, <2>2, LogKeeps DEF RefInv
<1>13. RefInv'
  BY <1>2, <1>8, <1>11, <1>12 DEF RefInv, PointerInv, Aborts, Ends
<1>14. LosesNothing
  <2>1. \A i \in Retained(mem), u \in Tables : c.rows[i][u] >= mem.rows[i][u]
    BY <1>1, <1>3, <1>5, RetainedIsIds, RowsAreNumbers
  <2>2. \A i \in Retained(mem), u \in Tables : mem.rows[i][u] >= mem.rows[i][u]
    BY <1>1, RetainedIsIds, RowsAreNumbers
  <2> QED BY <1>9, <1>10, <2>1, <2>2 DEF LosesNothing
<1>15. PublishedIn(c) = PublishedIn(mem)
  BY <1>1, <1>3, <1>4, <1>5, <1>10, RetainedIsIds, SameView
<1>16. Implements
  BY <1>2, <1>3, <1>8, <1>15, LoadStatement DEF Candidate
<1> QED BY <1>13, <1>14, <1>16 DEF Kept

LEMMA CheckpointKept ==
  ASSUME Known, Checkpoint
  PROVE  Kept
<1>1. StoreOK(mem) /\ StoreOK(disk) /\ PhaseInv /\ ControlTypeOK /\ RefInv
  BY KnownFacts DEF Known
<1>2. phase = "load" /\ (Returns(mem) \/ Raises(mem)) /\ used' = used /\ reported' = reported
  BY DEF Checkpoint, Aborts
<1>3. \/ Returns(mem) /\ phase' = "pointer" /\ previous' = Active(mem) /\ gen' = gen
      \/ Aborts(mem)
  BY DEF Checkpoint
<1>4. mem' = mem /\ disk' \in {disk, mem}
  BY <1>2 DEF Returns, Raises
<1>5. PriorsInv' /\ SurvivalInv'
  BY <1>1, <1>2, <1>3, <1>4, SameMeta DEF RefInv, Aborts, Ends
<1>6. PointerInv'
  BY <1>3, <1>4 DEF PointerInv, Aborts, Ends, Active, Top
<1>7. \A c \in {mem, disk} : \A i \in Retained(c), t \in Tables : mem.rows[i][t] <= mem.rows[i][t]
  BY <1>1, RetainedIsIds, RowsAreNumbers
<1>8. LogKeepsRows'
  BY <1>1, <1>2, <1>7, LogKeeps DEF RefInv
<1>9. LosesNothing
  BY <1>1, <1>4, RetainedIsIds, RowsAreNumbers DEF LosesNothing
<1>10. gen \in Gen
  BY <1>2, BuiltIsNotRetained
<1>11. Implements
  BY <1>2, <1>3, <1>10, LoadStatement DEF Candidate
<1> QED BY <1>5, <1>6, <1>8, <1>9, <1>11 DEF Kept, RefInv

\* The one step that changes what is read, and it switches to a whole generation.
LEMMA InsertPointerKept ==
  ASSUME Known, InsertPointer
  PROVE  Kept
<1> DEFINE c == PointerInserted(mem, gen, previous)
           row == [version |-> NextVersion(mem), project |-> gen, previous |-> previous]
<1>1. /\ StoreOK(mem) /\ StoreOK(disk) /\ PhaseInv /\ ControlTypeOK /\ PointersAreMinted
      /\ RefInv /\ PriorsInv /\ PointerInv /\ SurvivalInv
  BY KnownFacts DEF Known
<1>2. phase = "pointer" /\ previous = Active(mem) /\ previous \in Ids /\ Whole(mem, gen) /\ gen \in used
  BY <1>1 DEF InsertPointer, PointerInv, PhaseInv
<1>3. gen \in Gen /\ gen \notin Retained(mem) /\ gen \notin Retained(disk)
  BY <1>2, BuiltIsNotRetained
<1>4. /\ StoreOK(c) /\ c.pointers # {} /\ Active(c) = gen /\ Top(c).previous = previous
      /\ Whole(c, gen)
  BY <1>1, <1>2, <1>3, PointerInsertedOK
<1>5. c.rows = mem.rows /\ c.pointers = mem.pointers \cup {row}
  BY <1>1 DEF StoreOK, Contents, PointerInserted
<1>6. previous \in used \cup {Logical}
  BY <1>1, <1>2, TopIsTop DEF Active, PointersAreMinted, StoreOK
<1>7. Survives(mem) => Survives(c)
  <2> SUFFICES ASSUME Survives(mem), reported # NoReport
               PROVE  Top(c).version >= reported.version /\ Top(c).version # reported.version
    BY <1>4 DEF Survives
  <2>1. mem.pointers # {} /\ Top(mem).version >= reported.version
    BY DEF Survives
  <2>2. Top(mem) \in mem.pointers /\ Top(mem).version \in Nat /\ Top(mem).version < NextVersion(mem)
    BY <1>1, <2>1, TopIsTop, NextVersionIsNew DEF StoreOK, Contents, PointerRows
  <2>3. row \in c.pointers /\ row.version = NextVersion(mem)
    BY <1>5
  <2>4. NextVersion(mem) <= Top(c).version
    BY <1>4, <2>3, TopIsTop DEF StoreOK
  <2>5. reported.version \in Nat /\ NextVersion(mem) \in Nat
    BY <1>1, NextVersionIsNew DEF StoreOK, ControlTypeOK
  <2>6. Top(c).version \in Nat
    <3>1. c \in Contents /\ Top(c) \in c.pointers
      BY <1>4, TopIsTop DEF StoreOK
    <3> HIDE DEF c
    <3> QED BY <3>1 DEF Contents, PointerRows
  <2> QED BY <2>1, <2>2, <2>4, <2>5, <2>6
<1>8. \/ /\ Returns(c) /\ phase' = "seal"
         /\ UNCHANGED <<at, gen, previous, used, reported, failures, crashes>>
      \/ Aborts(c)
  BY DEF InsertPointer
<1>9. \A p \in c.pointers : p \in mem.pointers \/ p.previous = previous
  BY <1>5
<1> HIDE DEF c, row
<1>10. (Returns(c) \/ Raises(c)) /\ used' = used /\ reported' = reported /\ phase' \in {"seal", "idle"}
  BY <1>8 DEF Aborts, Ends
<1>11. mem' \in {mem, c} /\ disk' \in {disk, c}
  BY <1>10 DEF Returns, Raises
<1>12. PriorsInv' /\ PointerInv'
  BY <1>1, <1>6, <1>9, <1>10, <1>11 DEF PriorsInv, PointerInv
<1>13. SurvivalInv'
  BY <1>1, <1>7, <1>10, <1>11 DEF SurvivalInv, Survives
<1>14. LogKeepsRows'
  <2>1. \A i \in Retained(disk), t \in Tables : c.rows[i][t] <= mem.rows[i][t]
    BY <1>1, <1>5, RetainedIsIds, RowsAreNumbers
  <2> QED BY <1>1, <1>4, <1>10, <2>1, LogKeeps DEF RefInv
<1>15. LosesNothing
  <2>1. \A i \in Ids, t \in Tables : mem'.rows[i][t] >= mem.rows[i][t]
    BY <1>1, <1>5, <1>11, RowsAreNumbers
  <2> QED BY <1>1, <1>4, <1>11, <2>1, RetainedIsIds DEF LosesNothing
<1>16. PublishedIn(c) = [active |-> [id |-> gen, state |-> "whole"], prior |-> PublishedIn(mem).active]
  <2>1. ViewOf(c, gen) = [id |-> gen, state |-> "whole"]
    BY <1>3, <1>4 DEF ViewOf
  <2>2. ViewOf(c, previous) = ViewOf(mem, Active(mem))
    BY <1>2, <1>5 DEF ViewOf, Whole
  <2> QED BY <1>4, <2>1, <2>2 DEF PublishedIn
<1>17. Implements
  <2>1. CASE mem' = c /\ disk' \in {disk, c}
    <3>1. PublishedIn(mem') = PublishedIn(c) /\ PublishedIn(disk') \in {PublishedIn(disk), PublishedIn(c)}
      BY <2>1
    <3>2. Graph!Publish
      BY <1>2, <1>3, <1>10, <1>16, <3>1, IdentityAssumption DEF Graph!Publish, Ids
    <3> QED BY <3>2 DEF Implements, Graph!Next
  <2>2. CASE mem' = mem /\ disk' = disk /\ Aborts(c)
    BY <1>2, <1>3, <2>2, AbandonStep DEF Aborts, Ends
  <2> QED BY <1>8, <2>1, <2>2 DEF Returns, Aborts, Raises
<1> QED BY <1>12, <1>13, <1>14, <1>15, <1>17 DEF Kept, RefInv

LEMMA SealKept ==
  ASSUME Known, Seal
  PROVE  Kept
<1>1. StoreOK(mem) /\ StoreOK(disk) /\ PhaseInv /\ ControlTypeOK /\ RefInv
  BY KnownFacts DEF Known
<1>2. phase = "seal" /\ (Returns(mem) \/ Raises(mem)) /\ used' = used /\ reported' = reported
  BY DEF Seal, Aborts
<1>3. (Returns(mem) /\ phase' = "prune") \/ phase' = "idle"
  BY DEF Seal, Aborts, Ends
<1>4. mem' = mem /\ disk' \in {disk, mem}
  BY <1>2 DEF Returns, Raises
<1>5. PriorsInv' /\ SurvivalInv'
  BY <1>1, <1>2, <1>3, <1>4, SameMeta DEF RefInv
<1>6. PointerInv'
  BY <1>1, <1>2, <1>3 DEF PointerInv, PhaseInv, Returns
<1>7. \A i \in Retained(disk), t \in Tables : mem.rows[i][t] <= mem.rows[i][t]
  BY <1>1, RetainedIsIds, RowsAreNumbers
<1>8. LogKeepsRows'
  BY <1>1, <1>2, <1>7, LogKeeps DEF RefInv
<1>9. LosesNothing
  BY <1>1, <1>4, RetainedIsIds, RowsAreNumbers DEF LosesNothing
<1>10. Implements
  BY <1>2, <1>3, <1>4, QuietStep DEF Candidate
<1> QED BY <1>5, <1>6, <1>8, <1>9, <1>10 DEF Kept, RefInv

LEMMA PruneKept ==
  ASSUME Known, Prune
  PROVE  Kept
<1> DEFINE t == PruneOrder[at]
           c == Pruned(mem, t, {gen, previous})
<1>1. /\ StoreOK(mem) /\ StoreOK(disk) /\ PhaseInv /\ ControlTypeOK /\ RefInv
      /\ PointerInv /\ SurvivalInv
  BY KnownFacts DEF Known
<1>2. phase = "prune" /\ mem.pointers # {} /\ Active(mem) = gen /\ Top(mem).previous = previous
  BY <1>1 DEF Prune, PhaseInv
<1>3. disk.pointers # {} /\ Top(disk) = Top(mem)
  BY <1>1, <1>2 DEF PointerInv
<1>4. t \in Tables
  BY <1>1 DEF ControlTypeOK, PruneOrder, Tables
<1>5. StoreOK(c) /\ c.pointers = mem.pointers
  BY <1>1, <1>2, <1>4, PrunedOK
<1>6. Retained(mem) = {gen, previous} /\ Retained(c) = {gen, previous}
      /\ Retained(disk) = {gen, previous} /\ Top(c) = Top(mem)
  BY <1>2, <1>3, <1>5 DEF Retained, Active, Top
<1>7. gen \in Ids /\ previous \in Ids
  BY <1>1, <1>6, RetainedIsIds
<1>8. \A i \in {gen, previous} : c.rows[i] = mem.rows[i]
  BY <1>1, <1>7 DEF StoreOK, Contents, Pruned
<1>9. (Returns(c) \/ Raises(c)) /\ used' = used
  BY DEF Prune, Reports
<1>10. \/ phase' = "prune" /\ reported' = reported
       \/ phase' = "idle" /\ reported' = [gen |-> gen, version |-> Top(mem).version]
  BY <1>2 DEF Prune, Reports, Ends
<1> HIDE DEF t, c
<1>11. mem' \in {mem, c} /\ disk' \in {disk, c}
  BY <1>9 DEF Returns, Raises
<1>12. PriorsInv'
  BY <1>1, <1>5, <1>9, <1>10, <1>11 DEF RefInv, PriorsInv
<1>13. \A d \in {mem', disk'} : d.pointers # {} /\ Top(d) = Top(mem)
  BY <1>2, <1>3, <1>5, <1>6, <1>11
<1>14. PointerInv'
  BY <1>2, <1>10, <1>13 DEF PointerInv
<1>15. SurvivalInv'
  <2>1. Top(mem).version \in Nat /\ Top(mem).project = gen
    BY <1>1, <1>2, TopIsTop DEF StoreOK, Contents, PointerRows, Active
  <2>2. CASE reported' = reported
    BY <1>1, <1>3, <1>13, <2>2 DEF SurvivalInv, Survives
  <2>3. CASE reported' = [gen |-> gen, version |-> Top(mem).version]
    BY <1>13, <2>1, <2>3 DEF SurvivalInv, Survives
  <2> QED BY <1>10, <2>2, <2>3
<1>16. LogKeepsRows'
  <2>1. \A i \in Retained(disk), u \in Tables : c.rows[i][u] <= mem.rows[i][u]
    BY <1>1, <1>6, <1>7, <1>8, RowsAreNumbers
  <2> QED BY <1>1, <1>5, <1>9, <2>1, LogKeeps DEF RefInv
<1>17. LosesNothing
  <2>1. \A i \in {gen, previous}, u \in Tables : mem'.rows[i][u] >= mem.rows[i][u]
    BY <1>1, <1>7, <1>8, <1>11, RowsAreNumbers
  <2> QED BY <1>6, <1>11, <2>1 DEF LosesNothing
<1>18. Implements
  <2>1. PublishedIn(c) = PublishedIn(mem)
    BY <1>1, <1>5, <1>6, <1>8, SameView
  <2>2. PublishedIn(mem') = PublishedIn(mem)
        /\ PublishedIn(disk') \in {PublishedIn(disk), PublishedIn(mem)}
    BY <1>11, <2>1
  <2> QED BY <1>2, <1>9, <1>10, <2>2, QuietStep DEF Candidate
<1> QED BY <1>12, <1>14, <1>15, <1>16, <1>17, <1>18 DEF Kept, RefInv

LEMMA BeginWipeKept ==
  ASSUME Known, BeginWipe
  PROVE  Kept
<1>1. StoreOK(mem) /\ StoreOK(disk) /\ RefInv
  BY KnownFacts DEF Known
<1>2. phase = "idle" /\ phase' = "wipe" /\ UNCHANGED <<mem, disk, used, reported>>
  BY DEF BeginWipe
<1>3. RefInv'
  BY <1>1, <1>2 DEF RefInv, PriorsInv, PointerInv, SurvivalInv, Survives, LogKeepsRows
<1>4. LosesNothing
  BY <1>1, <1>2, RetainedIsIds, RowsAreNumbers DEF LosesNothing
<1>5. Graph!BeginDelete
  BY <1>2 DEF Graph!BeginDelete
<1> QED BY <1>3, <1>4, <1>5 DEF Kept, Implements, Graph!Next

\* A truncation may make a whole generation a torn one, and changes nothing else.
LEMMA TruncationDamages ==
  ASSUME NEW c, StoreOK(c), NEW t \in Tables, NEW i
  PROVE  ViewOf(Truncated(c, t), i) \in Graph!Damage(ViewOf(c, i))
<1> DEFINE d == Truncated(c, t)
<1>1. CASE i \notin Gen
  BY <1>1 DEF ViewOf, Graph!Damage
<1>2. CASE i \in Gen
  <2>1. i \in Ids /\ \A u \in Tables : d.rows[i][u] = IF u = t THEN 0 ELSE c.rows[i][u]
    BY <1>2 DEF Ids, StoreOK, Contents, Truncated
  <2>2. \A u \in Tables : c.rows[i][u] \in Nat /\ Total(i)[u] \in Nat /\ c.rows[i][u] <= Total(i)[u]
    BY <1>2, <2>1, RowsAreNumbers, TotalType DEF StoreOK, NotOverfull
  <2>3. Whole(d, i) => Whole(c, i)
    <3> SUFFICES ASSUME Whole(d, i), NEW u \in Tables PROVE c.rows[i][u] = Total(i)[u]
      BY DEF Whole
    <3>1. d.rows[i][u] = Total(i)[u]
      BY DEF Whole
    <3> QED BY <2>1, <2>2, <3>1
  <2> HIDE DEF d
  <2> DEFINE v == ViewOf(c, i)
             w == ViewOf(d, i)
  <2>4. v = [id |-> i, state |-> IF Whole(c, i) THEN "whole" ELSE "torn"]
    BY <1>2 DEF ViewOf
  <2>5. w = [id |-> i, state |-> IF Whole(d, i) THEN "whole" ELSE "torn"]
    BY <1>2 DEF ViewOf
  <2>6. v.id \in Gen /\ [v EXCEPT !.state = "torn"] = [id |-> i, state |-> "torn"]
    BY <1>2, <2>4
  <2> HIDE DEF v, w
  <2>7. w = v \/ w = [v EXCEPT !.state = "torn"]
    <3>1. CASE Whole(d, i)
      BY <2>3, <2>4, <2>5, <3>1
    <3>2. CASE ~Whole(d, i)
      BY <2>5, <2>6, <3>2
    <3> QED BY <3>1, <3>2
  <2>8. w \in Graph!Damage(v)
    BY <2>6, <2>7 DEF Graph!Damage
  <2> QED BY <2>8 DEF d, v, w
<1> QED BY <1>1, <1>2

LEMMA TruncateKept ==
  ASSUME Known, Truncate
  PROVE  Kept
<1> DEFINE t == WipeOrder[at]
           c == Truncated(mem, t)
<1>1. StoreOK(mem) /\ StoreOK(disk) /\ ControlTypeOK /\ RefInv
  BY KnownFacts DEF Known
<1>2. phase = "wipe" /\ at <= Len(WipeOrder)
  BY DEF Truncate
<1>3. t \in Tables
  BY <1>1, <1>2 DEF ControlTypeOK, WipeOrder, PruneOrder, Tables
<1>4. StoreOK(c) /\ c.pointers = mem.pointers
  BY <1>1, <1>3, TruncatedOK
<1>5. \A i \in Ids, u \in Tables : c.rows[i][u] \in {0, mem.rows[i][u]}
  BY <1>1 DEF StoreOK, Contents, Truncated
<1>6. \A i : ViewOf(c, i) \in Graph!Damage(ViewOf(mem, i))
  BY <1>1, <1>3, TruncationDamages
<1>7. (Returns(c) \/ Raises(c)) /\ used' = used /\ reported' = reported /\ phase' \in {"wipe", "idle"}
  BY <1>2 DEF Truncate, Aborts, Ends
<1> HIDE DEF t, c
<1>8. mem' \in {mem, c} /\ disk' \in {disk, mem'}
  BY <1>7 DEF Returns, Raises
<1>9. PriorsInv' /\ SurvivalInv'
  BY <1>1, <1>4, <1>7, <1>8, SameMeta DEF RefInv
<1>10. LogKeepsRows'
  <2>1. \A i \in Retained(disk), u \in Tables : c.rows[i][u] <= mem.rows[i][u]
    BY <1>1, <1>5, RetainedIsIds, RowsAreNumbers
  <2> QED BY <1>1, <1>4, <1>7, <2>1, LogKeeps DEF RefInv
<1>11. PublishedIn(c) = [active |-> ViewOf(c, Active(mem)),
                         prior  |-> ViewOf(c, IF mem.pointers = {} THEN NoId ELSE Top(mem).previous)]
  BY <1>4 DEF PublishedIn, Active, Top
<1>12. \E a \in Graph!Damage(PublishedIn(mem).active), p \in Graph!Damage(PublishedIn(mem).prior) :
         PublishedIn(mem') = [active |-> a, prior |-> p]
  <2>1. CASE mem' = c
    BY <1>6, <1>11, <2>1 DEF PublishedIn
  <2>2. CASE mem' = mem
    <3>1. \A v : v \in Graph!Damage(v)
      BY DEF Graph!Damage
    <3> QED BY <2>2, <3>1 DEF PublishedIn
  <2> QED BY <1>8, <2>1, <2>2
<1>13. PublishedIn(disk') \in {PublishedIn(disk), PublishedIn(mem')}
  BY <1>8
<1>14. Graph!Tear
  BY <1>2, <1>7, <1>12, <1>13 DEF Graph!Tear
<1> QED BY <1>2, <1>7, <1>9, <1>10, <1>14 DEF Kept, RefInv, PointerInv, LosesNothing,
     Implements, Graph!Next

LEMMA WipeMetaKept ==
  ASSUME Known, WipeMeta
  PROVE  Kept
<1> DEFINE c == MetaWiped(mem)
<1>1. StoreOK(mem) /\ StoreOK(disk) /\ RefInv
  BY KnownFacts DEF Known
<1>2. StoreOK(c) /\ c.pointers = {}
  BY <1>1, MetaWipedOK
<1>3. \A i \in Ids, u \in Tables : c.rows[i][u] \in {0, mem.rows[i][u]}
  BY <1>1 DEF StoreOK, Contents, MetaWiped
<1>4. /\ phase = "wipe" /\ phase' = "idle" /\ used' = used
      /\ Returns(c) \/ Raises(c)
      /\ reported' = IF mem'.pointers = {} THEN NoReport ELSE reported
  BY DEF WipeMeta, Ends
<1> HIDE DEF c
<1>5. \/ mem' = c /\ disk' \in {disk, c}
      \/ mem' = mem /\ disk' = disk
  BY <1>4 DEF Returns, Raises
<1>6. PriorsInv' /\ PointerInv'
  BY <1>1, <1>2, <1>4, <1>5 DEF RefInv, PriorsInv, PointerInv
<1>7. SurvivalInv'
  BY <1>1, <1>2, <1>4, <1>5 DEF RefInv, SurvivalInv, Survives
<1>8. LogKeepsRows'
  <2>1. \A i \in Retained(disk), u \in Tables : c.rows[i][u] <= mem.rows[i][u]
    BY <1>1, <1>3, RetainedIsIds, RowsAreNumbers
  <2> QED BY <1>1, <1>2, <1>4, <2>1, LogKeeps DEF RefInv
<1>9. CASE mem' = c /\ disk' \in {disk, c}
  <2>1. PublishedIn(c) = Graph!Nothing
    BY <1>2, IdentityAssumption DEF PublishedIn, ViewOf, Active, Ids, Graph!Nothing, Graph!View
  <2>2. PublishedIn(mem') = PublishedIn(c) /\ PublishedIn(disk') \in {PublishedIn(disk), PublishedIn(c)}
    BY <1>9
  <2>3. Graph!Forget
    BY <1>4, <2>1, <2>2 DEF Graph!Forget
  <2> QED BY <1>4, <1>6, <1>7, <1>8, <2>3 DEF Kept, RefInv, LosesNothing, Implements, Graph!Next
<1>10. CASE mem' = mem /\ disk' = disk
  <2>1. \E a \in Graph!Damage(PublishedIn(mem).active), p \in Graph!Damage(PublishedIn(mem).prior) :
          PublishedIn(mem') = [active |-> a, prior |-> p]
    <3>1. \A v : v \in Graph!Damage(v)
      BY DEF Graph!Damage
    <3> QED BY <1>10, <3>1 DEF PublishedIn
  <2>2. PublishedIn(disk') = PublishedIn(disk)
    BY <1>10
  <2>3. Graph!Tear
    BY <1>4, <2>1, <2>2 DEF Graph!Tear
  <2> QED BY <1>4, <1>6, <1>7, <1>8, <2>3 DEF Kept, RefInv, LosesNothing, Implements, Graph!Next
<1> QED BY <1>5, <1>9, <1>10

LEMMA CrashKept ==
  ASSUME Known, Crash
  PROVE  Kept
<1>1. StoreOK(mem) /\ StoreOK(disk) /\ RefInv
  BY KnownFacts DEF Known
<1>2. mem' = disk /\ disk' = disk /\ phase' = "idle" /\ used' = used /\ reported' = reported
  BY DEF Crash, Ends
<1>3. PriorsInv' /\ SurvivalInv'
  BY <1>1, <1>2, SameMeta DEF RefInv
<1>4. LogKeepsRows'
  BY <1>1, <1>2, RetainedIsIds, RowsAreNumbers DEF LogKeepsRows
<1>5. LosesNothing
  BY <1>1, <1>2 DEF LosesNothing, RefInv, LogKeepsRows
<1>6. Graph!Restart
  BY <1>2 DEF Graph!Restart
<1> QED BY <1>2, <1>3, <1>4, <1>5, <1>6 DEF Kept, RefInv, PointerInv, Implements, Graph!Next

LEMMA MergeMetaKept ==
  ASSUME Known, MergeMeta
  PROVE  Kept
<1>1. /\ StoreOK(mem) /\ StoreOK(disk) /\ PhaseInv /\ RefInv
  BY KnownFacts DEF Known
<1>2. PICK p \in mem.pointers, q \in mem.pointers :
        p.version < q.version /\ mem' = [mem EXCEPT !.pointers = @ \ {p}]
  BY DEF MergeMeta
<1>3. /\ StoreOK(mem')
      /\ mem'.pointers # {} /\ mem'.pointers \subseteq mem.pointers
      /\ mem'.rows = mem.rows
      /\ Top(mem') = Top(mem) /\ Active(mem') = Active(mem)
  BY <1>1, <1>2, MergedOK
<1>4. disk' \in {disk, mem'} /\ UNCHANGED <<phase, gen, previous, used, reported>>
  BY DEF MergeMeta
<1>5. mem.pointers # {}
  BY <1>2
<1>6. PriorsInv' /\ SurvivalInv'
  BY <1>1, <1>3, <1>4, <1>5 DEF RefInv, PriorsInv, SurvivalInv, Survives
<1>7. PointerInv'
  BY <1>1, <1>3, <1>4 DEF RefInv, PointerInv
<1>8. LogKeepsRows'
  BY <1>1, <1>3, <1>4, RetainedIsIds, RowsAreNumbers DEF RefInv, LogKeepsRows
<1>9. LosesNothing
  BY <1>1, <1>3, RetainedIsIds, RowsAreNumbers DEF LosesNothing
<1>10. PublishedIn(mem') = PublishedIn(mem)
  BY <1>1, <1>3, <1>5, SameView
<1>11. PublishedIn(disk') \in {PublishedIn(disk), PublishedIn(mem)}
  BY <1>4, <1>10
<1>12. Implements
  BY <1>4, <1>10, <1>11 DEF Implements, Graph!Next, Graph!Persist, Graph!vars
<1> QED BY <1>6, <1>7, <1>8, <1>9, <1>12 DEF Kept, RefInv

LEMMA StutterKept ==
  ASSUME Known, UNCHANGED vars
  PROVE  Kept
<1> USE DEF vars
<1>1. StoreOK(mem) /\ RefInv
  BY KnownFacts DEF Known
<1>2. RefInv'
  BY <1>1 DEF RefInv, PriorsInv, PointerInv, SurvivalInv, Survives, LogKeepsRows
<1>3. LosesNothing
  BY <1>1, RetainedIsIds, RowsAreNumbers DEF LosesNothing
<1>4. Implements
  BY DEF Implements, Graph!vars
<1> QED BY <1>2, <1>3, <1>4 DEF Kept

-----------------------------------------------------------------------------
(* Theorems.                                                               *)

LEMMA InitRefInv == Init => RefInv /\ Graph!Init
<1> SUFFICES ASSUME Init PROVE RefInv /\ Graph!Init
  OBVIOUS
<1>1. mem.pointers = {} /\ disk = mem /\ phase = "idle" /\ used = {} /\ reported = NoReport
  BY DEF Init
<1>2. StoreOK(mem)
  BY InitFullInv, FullInvIsStoreOK
<1>3. RefInv
  BY <1>1, <1>2, RetainedIsIds, RowsAreNumbers
     DEF RefInv, PriorsInv, PointerInv, SurvivalInv, Survives, LogKeepsRows
<1>4. PublishedIn(mem) = Graph!Nothing
  BY <1>1, IdentityAssumption DEF PublishedIn, ViewOf, Active, Ids, Graph!Nothing, Graph!View
<1>5. Graph!Init
  BY <1>1, <1>4 DEF Graph!Init
<1> QED BY <1>3, <1>5

LEMMA StepKept == Known /\ [Next]_vars => Kept
BY BeginLoadKept, InsertBatchKept, CheckpointKept, InsertPointerKept, SealKept, PruneKept,
   BeginWipeKept, TruncateKept, WipeMetaKept, CrashKept, MergeMetaKept, StutterKept DEF Next

LEMMA KnownInvariance == Spec => []Known
<1>1. Init => RefInv
  BY InitRefInv
<1>2. FullInv /\ RefInv /\ [Next]_vars => RefInv'
  BY StepKept DEF Known, Kept
<1>3. Known <=> FullInv /\ RefInv
  BY DEF Known
<1> QED BY <1>1, <1>2, <1>3, FullInvariance, PTL DEF Spec

\* Every behaviour of the statements on the tables, with failures, kills and
\* merges, is one that PublishedGraph allows: readers see whole generations
\* switched in one step (generations.py:23-47, daemon.py:146-166, 270-275).
THEOREM Implementation == Spec => ImplementsPublishedGraph
<1>1. Init => Graph!Init
  BY InitRefInv
<1>2. Known /\ [Next]_vars => [Graph!Next]_(Graph!vars)
  BY StepKept DEF Kept, Implements
<1> QED BY <1>1, <1>2, KnownInvariance, PTL DEF Spec, ImplementsPublishedGraph, Graph!Spec

\* A publication a job has reported, or a later one, is found by any restart,
\* until a wipe takes it away (generations.py:34, daemon.py:167).
THEOREM ReportsSurvive == Spec => []ReportedSurvives
<1>1. Known => ReportedSurvives
  BY DEF Known, RefInv, SurvivalInv, Survives, ReportedSurvives
<1> QED BY <1>1, KnownInvariance, PTL

\* Neither a clean-up nor a failure nor a restart takes a row from the active
\* generation or from its predecessor: only a wipe does (generations.py:36-44).
THEOREM RetainedKept == Spec => RetainedLosesNothing
<1>1. Known /\ [Next]_vars =>
        [phase # "wipe" =>
           \A i \in Retained(mem'), t \in Tables : mem'.rows[i][t] >= mem.rows[i][t]]_vars
  BY StepKept DEF Kept, LosesNothing
<1> QED BY <1>1, KnownInvariance, PTL DEF Spec, RetainedLosesNothing
=============================================================================
