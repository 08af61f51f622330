-------------------------- MODULE MCLexicalIndex --------------------------
(* LexicalIndex on a small instance.  Threads, objects and texts are        *)
(* interchangeable: no definition orders or names them.                     *)
EXTENDS LexicalIndex, TLC

Symmetry == Permutations(Thread) \cup Permutations(Obj) \cup Permutations(Text)
=============================================================================
