------------------------------ MODULE MCDaemon ------------------------------
(* Small instances of Daemon for TLC.                                        *)
EXTENDS Daemon, TLC

CONSTANTS i1, i2, i3, q1, d1, s1, j1, j2, j3

\* Index requests, a query, a delete and a shutdown.
MCKind ==
  [r \in Requests |-> CASE r \in {i1, i2, i3} -> "index" [] r = q1 -> "query"
                        [] r = d1 -> "delete" [] OTHER -> "shutdown"]

\* Index requests are alike.
Symmetry == Permutations(Requests \cap {i1, i2, i3})
=============================================================================
