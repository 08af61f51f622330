--------------------------- MODULE MCGraphTraversal ---------------------------
(* GraphTraversal; ids are interchangeable.                                  *)
EXTENDS GraphTraversal, TLC

Symmetry == UNION {Permutations(S) : S \in {Entity, Relation}}
=============================================================================
