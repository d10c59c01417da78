----------------------------- MODULE MCContext -----------------------------
(* Small instances of Context for TLC.                                       *)
EXTENDS Context, TLC

CONSTANTS f1, f2, callee, caller, other, script, v1, v2

\* Two symbols in one source, one in another, and a module that calls at top
\* level: script -> callee -> other, caller -> callee.
MCFileOf == callee :> f1 @@ caller :> f1 @@ other :> f2
MCCalls  == {<<callee, other>>, <<caller, callee>>, <<script, callee>>}

\* caller after callee with a gap, next to it, and inside it; other reaches
\* beyond the end of its source.
Table(span_of_caller) == callee :> <<1, 3>> @@ caller :> span_of_caller @@ other :> <<4, 6>>
MCSpanTables == {Table(<<5, 5>>), Table(<<4, 5>>), Table(<<2, 2>>)}

Symmetry == Permutations(Versions)
=============================================================================
