-------------------------- MODULE MCClaimGovernance --------------------------
(* ClaimGovernance, seen through PanelViews, with agents of one tenant.     *)
(* Ids are interchangeable.                                                 *)
EXTENDS PanelViews

CONSTANTS alice, bob, acme

MCTenantOf == [a \in Agent |-> acme]

Symmetry ==
  UNION {Permutations(S) : S \in {Obj, Space, Review, Evidence}}
=============================================================================
