--------------------------- MODULE MCContextEnvelope ---------------------------
(* ContextEnvelope; objects of a kind are interchangeable, and so are tokens. *)
EXTENDS ContextEnvelope

Symmetry == UNION {Permutations(S) : S \in {Fact, Claim, Evidence, Token}}
=============================================================================
