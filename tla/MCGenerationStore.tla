-------------------------- MODULE MCGenerationStore --------------------------
(* Small instances of GenerationStore for TLC.                               *)
EXTENDS GenerationStore, TLC

CONSTANTS n1, n2, n3, c1, c2

\* Two INSERT statements for the nodes of a load, so that a table can be half
\* loaded; no embeddings extra for CodeGraph and no snapshot for native.
MCBatches ==
  [source \in Sources |->
     [t \in Tables |->
        CASE t = "nodes" -> 2
          [] t = "embeddings" -> IF source = "native" THEN 1 ELSE 0
          [] t = "codegraph_snapshot" -> IF source = "native" THEN 0 ELSE 1
          [] OTHER -> 1]]

\* A new data directory, or one an older build indexed.
MCLegacyRows == {NoRows, [NoRows EXCEPT !["nodes"] = 2, !["edges"] = 1]}

Symmetry == Permutations(Native) \cup Permutations(Codegraph)
=============================================================================
