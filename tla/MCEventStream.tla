-------------------------- MODULE MCEventStream --------------------------
(* EventStream with alice writing and bob watching, in one tenant.  Object  *)
(* and space ids are interchangeable.                                       *)
EXTENDS EventStream, TLC

CONSTANTS alice, bob, acme

MCTenantOf == [a \in Agent |-> acme]

Symmetry == Permutations(Obj) \cup Permutations(Space)
=============================================================================
