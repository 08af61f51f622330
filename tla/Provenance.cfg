SPECIFICATION Spec
CONSTANTS
  Id = {o1, o2}
  MaxEvents = 3
  MaxFaults = 2
  MaxOpens = 1
SYMMETRY Symmetry
INVARIANTS AnswersAreTheScan
