------------------------- MODULE MCKnowledgeSpaces -------------------------
(* KnowledgeSpaces with alice and bob in one tenant and eve, where a run    *)
(* has her, in another.  Object and space ids are interchangeable.          *)
EXTENDS KnowledgeSpaces, TLC

CONSTANTS alice, bob, eve, acme, other

MCTenantOf == [a \in Agent |-> IF a = eve THEN other ELSE acme]

Symmetry == Permutations(Obj) \cup Permutations(Space)
=============================================================================
