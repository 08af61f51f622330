-------------------------- MODULE MCProvenanceIndex --------------------------
(* ProvenanceIndex; ids are interchangeable.                                *)
EXTENDS ProvenanceIndex, TLC

Symmetry == Permutations(Id)
=============================================================================
