------------------------- MODULE MCFactResolution -------------------------
(* FactResolution on two facts, the worlds chosen so that each component of *)
(* the rank decides somewhere, and a trusted fact may say "ended".          *)
EXTENDS FactResolution, TLC

CONSTANTS f1, f2

Says(from, to, trust, ends, id) ==
  [from |-> from, to |-> to, trust |-> trust, ends |-> ends, id |-> id]

Plain == Says(0, 2, 0, FALSE, 1)
Trusted == Says(0, 2, 1, FALSE, 1)
Rival == Says(0, 2, 0, FALSE, 2)

MCWorlds ==
  {(f1 :> w[1]) @@ (f2 :> w[2]) :
     w \in {<<Plain, Rival>>, <<Trusted, Rival>>,
           <<Plain, Says(1, 2, 0, FALSE, 0)>>, <<Plain, Says(0, 2, 1, TRUE, 2)>>}}
=============================================================================
