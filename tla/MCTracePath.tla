---------------------------- MODULE MCTracePath ----------------------------
(* Small instances of TracePath for TLC.                                     *)
EXTENDS TracePath, FiniteSetsExt

\* Every graph of three symbols, and every graph of four with at most four
\* calls and no direct recursion.
Dense  == SUBSET ((1..3) \X (1..3))
Sparse == UNION {kSubset(k, {e \in (1..4) \X (1..4) : e[1] # e[2]}) : k \in 3..4}
MCGraphs == Dense \cup Sparse
=============================================================================
