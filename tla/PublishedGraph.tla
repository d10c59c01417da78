--------------------------- MODULE PublishedGraph ---------------------------
(***************************************************************************)
(* What chgraph promises about the graph its queries read (ADR 0006): the  *)
(* graph changes only by switching, in one step, to a complete generation  *)
(* that was built out of sight; the generation that was switched away from *)
(* is retained; a failed or interrupted build changes nothing.  The one    *)
(* operation that may damage what is published is an explicit delete.      *)
(*                                                                         *)
(* The specification says nothing of tables, statements or pointers:       *)
(* GenerationStore implements it.                                          *)
(***************************************************************************)
CONSTANTS
  Generations, \* identities a build may publish, each built at most once
  Logical,     \* the project itself: what is read before any publication
  NoId         \* no generation

VARIABLES
  live,      \* what a query reads now, and the predecessor retained with it
  kept,      \* what a query would read after a restart
  candidate, \* the generation being built, or NoId
  built,     \* generations some build was ever started for
  deleting   \* a delete of the project is in progress

vars == <<live, kept, candidate, built, deleting>>

\* A generation as a reader finds it: all of it, or what a delete left of it.
Views == [id : Generations, state : {"whole", "torn"}]
           \cup {[id |-> i, state |-> "unversioned"] : i \in {Logical, NoId}}
View(i) == [id |-> i, state |-> "unversioned"]

Published == [active : Views, prior : Views]
Nothing   == [active |-> View(Logical), prior |-> View(NoId)]

TypeOK ==
  /\ live \in Published
  /\ kept \in Published
  /\ candidate \in Generations \cup {NoId}
  /\ built \subseteq Generations
  /\ deleting \in BOOLEAN

Init ==
  /\ live = Nothing
  /\ kept = live
  /\ candidate = NoId
  /\ built = {}
  /\ deleting = FALSE

-----------------------------------------------------------------------------
\* A build starts under an identity nobody has used.
Begin(g) ==
  /\ candidate = NoId /\ ~deleting
  /\ g \notin built
  /\ candidate' = g
  /\ built' = built \cup {g}
  /\ UNCHANGED <<live, kept, deleting>>

\* The whole candidate replaces the active generation, which is retained.
Publish ==
  /\ candidate # NoId
  /\ live' = [active |-> [id |-> candidate, state |-> "whole"],
              prior  |-> live.active]
  /\ kept' \in {kept, live'}
  /\ candidate' = NoId
  /\ UNCHANGED <<built, deleting>>

\* A build that fails leaves readers where they were.
Abandon ==
  /\ candidate # NoId
  /\ candidate' = NoId
  /\ kept' \in {kept, live}
  /\ UNCHANGED <<live, built, deleting>>

\* What is read now becomes what a restart would find.
Persist ==
  /\ kept' = live
  /\ UNCHANGED <<live, candidate, built, deleting>>

BeginDelete ==
  /\ candidate = NoId /\ ~deleting
  /\ deleting' = TRUE
  /\ UNCHANGED <<live, kept, candidate, built>>

Damage(v) == IF v.id \in Generations THEN {v, [v EXCEPT !.state = "torn"]} ELSE {v}

\* A delete under way may gut both generations, and may stop there.
Tear ==
  /\ deleting
  /\ \E a \in Damage(live.active), p \in Damage(live.prior) :
       live' = [active |-> a, prior |-> p]
  /\ kept' \in {kept, live'}
  /\ deleting' \in BOOLEAN
  /\ UNCHANGED <<candidate, built>>

\* A delete ends with nothing published.
Forget ==
  /\ deleting
  /\ live' = Nothing
  /\ kept' \in {kept, live'}
  /\ deleting' = FALSE
  /\ UNCHANGED <<candidate, built>>

\* A new process reads what was kept; whatever was in progress is over.
Restart ==
  /\ live' = kept
  /\ candidate' = NoId
  /\ deleting' = FALSE
  /\ UNCHANGED <<kept, built>>

Next ==
  \/ \E g \in Generations : Begin(g)
  \/ Publish \/ Abandon \/ Persist
  \/ BeginDelete \/ Tear \/ Forget
  \/ Restart

Spec == Init /\ [][Next]_vars
=============================================================================
