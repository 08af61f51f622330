SPECIFICATION Spec
CONSTANTS
  Agent = {alice, bob}
  Admin = {bob}
  Entity = {e1, e2, e3}
  Relation = {r1, r2}
  Absent = Absent
  Workload = {"resolve", "traverse"}
  MaxEvents = 5
  MaxHops = 2
  Budget = {2, 3}
  MaxMoves = 1
SYMMETRY Symmetry
INVARIANTS MergesAreTraceable TraversalIsBounded TraversalIsComplete
