-------------------------- MODULE MCFactLifecycle --------------------------
(* FactLifecycle on a small instance.  Threads and fact ids are             *)
(* interchangeable: no definition orders or names them.                     *)
EXTENDS FactLifecycle, TLC

Symmetry == Permutations(Thread) \cup Permutations(Fact)
=============================================================================
