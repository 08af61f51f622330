---------------------------- MODULE BeliefHistory ----------------------------
(***************************************************************************)
(* What the fact calls promise a reader, with no threads, locks, ledger or  *)
(* transactions: each fact is believed over one half-open interval of       *)
(* transaction time, an interval is closed once, and a belief that is       *)
(* superseded hands over to its replacement in a single step.               *)
(*                                                                          *)
(* LateReplace is the price of checking a belief before taking the lock: a  *)
(* call that lost the race to close a fact still asserts its replacement.   *)
(***************************************************************************)
CONSTANTS Fact, NoFact, Absent, Open, Time

VARIABLE belief

Interval == [from : Time, to : Time \cup {Open},
             status : {"asserted", "superseded", "retracted"},
             replaces : Fact \cup {NoFact}]

IsOpen(f) == belief[f] # Absent /\ belief[f].to = Open
IsClosed(f) == belief[f] # Absent /\ belief[f].to # Open

Since(T, f) == [from |-> T, to |-> Open, status |-> "asserted", replaces |-> f]
Until(f, T, why) ==
  [from |-> belief[f].from, to |-> T, status |-> why, replaces |-> belief[f].replaces]

Init == belief = [f \in Fact |-> Absent]

Assert(f, T) ==
  /\ belief[f] = Absent
  /\ belief' = [belief EXCEPT ![f] = Since(T, NoFact)]

Retract(f, T) ==
  /\ IsOpen(f)
  /\ belief' = [belief EXCEPT ![f] = Until(f, T, "retracted")]

Replace(f, g, T) ==
  /\ IsOpen(f) /\ belief[g] = Absent
  /\ belief' = [belief EXCEPT ![f] = Until(f, T, "superseded"), ![g] = Since(T, f)]

LateReplace(f, g, T) ==
  /\ IsClosed(f) /\ belief[g] = Absent
  /\ belief' = [belief EXCEPT ![g] = Since(T, f)]

Next == \E f \in Fact, T \in Time :
  \/ Assert(f, T)
  \/ Retract(f, T)
  \/ \E g \in Fact : Replace(f, g, T) \/ LateReplace(f, g, T)

Spec == Init /\ [][Next]_belief
=============================================================================
